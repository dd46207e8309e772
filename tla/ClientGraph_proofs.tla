------------------------- MODULE ClientGraph_proofs -------------------------
(***************************************************************************)
(* Proofs, for any number of objects and any bounds, of the invariants of  *)
(* ClientGraph.                                                            *)
(*                                                                         *)
(* First the types, and that an object knows as its parents exactly those  *)
(* that hold it.  The argument follows the code: the operations of the     *)
(* scope leave the graph alone, AddParent and RemoveParent change one link *)
(* on each side, and the setters put together what these do so that the    *)
(* two sides agree again at their end (IInv).                              *)
(*                                                                         *)
(* Then that the scope is what can be reached from its root and that the   *)
(* server will have all of it (SInv).  Between the steps the client is     *)
(* Settled: objects can be ranked so that parents rank lower, hence        *)
(* nothing is below itself, and an object is in the scope if and only if   *)
(* each of its parents is.  While a setter of p is under way that is so of *)
(* all objects but those it may still put into p or take from it (Going),  *)
(* and the fragments tell the server all but what changed at p (Told).     *)
(***************************************************************************)
EXTENDS ClientGraph, ListFacts

Slots == Objects \X Keys
ScopeIds == {"none", "left", "scope"}

Models == [child         : [Objects -> Objects \cup {Null}],
           items         : [Objects -> Seq(Objects)],
           parents       : [Objects -> SUBSET Slots],
           scope         : [Objects -> ScopeIds],
           fragments     : [Objects -> Fragments],
           removed       : SUBSET Objects,
           changesQueued : BOOLEAN]

\* The two sides of a link: the parent's at slot r, and the object's own.
Holds(m, r, i) == \/ r[2] = "child" /\ m.child[r[1]] = i
                  \/ r[2] = "items" /\ Contains(m.items[r[1]], i)
Knows(m, r, i) == r \in m.parents[i]

Mirror(m) == \A r \in Slots, i \in Objects : Knows(m, r, i) <=> Holds(m, r, i)

\* q differs from m in its scope and its fragments only.
SameGraph(m, q) ==
    /\ q \in Models
    /\ q.child = m.child /\ q.items = m.items /\ q.parents = m.parents

\* In q the object i knows the slot r as well: nothing else of the graph.
Learns(m, q, r, i) ==
    /\ q \in Models
    /\ q.child = m.child /\ q.items = m.items
    /\ q.parents = [m.parents EXCEPT ![i] = @ \cup {r}]

\* In q the object i does not know the slot r, which let go of it if the
\* object knew it.
Forgets(m, q, r, i) ==
    /\ q \in Models
    /\ q.parents = [m.parents EXCEPT ![i] = @ \ {r}]
    /\ \A o \in Slots, j \in Objects :
          Holds(q, o, j) <=> Holds(m, o, j) /\ ~(o = r /\ j = i /\ Knows(m, o, j))
-----------------------------------------------------------------------------
\* The operations of the scope leave the graph alone.

\* A walk leads to objects it may go through only.
LEMMA WalkType ==
    ASSUME NEW g, NEW i, NEW within
    PROVE  Walk(g, i, within) \subseteq within
  BY DEF Walk

\* An object is among what is below it.
LEMMA BelowSelf ==
    ASSUME NEW g, NEW i \in Objects
    PROVE  i \in Below(g, i)
  BY DEF Below, Walk

\* removeModel leaves the graph alone.
LEMMA RemoveModelSame ==
    ASSUME NEW m \in Models, NEW gone \in SUBSET Objects
    PROVE  SameGraph(m, RemoveModel(m, gone))
  <1>1. NoFragment \in Fragments
    BY DEF NoFragment, Fragments
  <1>2. [i \in Objects |-> IF i \in gone THEN NoFragment ELSE m.fragments[i]]
          \in [Objects -> Fragments]
    BY <1>1 DEF Models
  <1> QED  BY <1>2 DEF RemoveModel, SameGraph, Models

\* So does addModel.
LEMMA AddModelSame ==
    ASSUME NEW m \in Models, NEW added \in SUBSET Objects, NEW remote \in BOOLEAN
    PROVE  SameGraph(m, AddModel(m, added, remote))
  <1> DEFINE new == {i \in added \ m.removed : m.parents[i] # {} /\ ~remote}
             f(i) == [type |-> "add", child |-> m.child[i], items |-> m.items[i]]
             frs == [i \in Objects |-> IF i \in new THEN f(i) ELSE m.fragments[i]]
  <1>1. \A i \in Objects : f(i) \in Fragments
    BY DEF Models, Fragments
  <1>2. \A i \in Objects : m.fragments[i] \in Fragments
    BY DEF Models
  <1> HIDE DEF f
  <1>3. frs \in [Objects -> Fragments]
    BY <1>1, <1>2
  <1>4. AddModel(m, added, remote)
          = [m EXCEPT !.removed = @ \ added, !.fragments = frs,
                      !.changesQueued = @ \/ new # {}]
    BY DEF AddModel, f
  <1> HIDE DEF frs, new
  <1>5. (m.changesQueued \/ new # {}) \in BOOLEAN
    OBVIOUS
  <1> QED  BY <1>3, <1>4, <1>5 DEF SameGraph, Models

\* So does setScope, of whatever it sets the scope.
LEMMA SetScopeSame ==
    ASSUME NEW m \in Models, NEW i \in Objects, NEW scope \in ScopeIds,
           NEW remote \in BOOLEAN
    PROVE  SameGraph(m, SetScope(m, i, scope, remote))
  <1> DEFINE changed == Walk(m, i, {j \in Objects : m.scope[j] # scope})
             left    == RemoveModel(m, {j \in changed : m.scope[j] = "scope"})
             joined  == IF scope = "scope" THEN AddModel(left, changed, remote) ELSE left
             q == [joined EXCEPT
                     !.scope = [j \in Objects |-> IF j \in changed THEN scope ELSE @[j]]]
  <1>1. changed \in SUBSET Objects
    BY WalkType
  <1>2. SetScope(m, i, scope, remote) = q
    BY DEF SetScope
  <1> HIDE DEF changed
  <1>3. SameGraph(m, left)
    BY <1>1, RemoveModelSame
  <1> HIDE DEF left
  <1>4. SameGraph(m, joined)
    <2>1. SameGraph(left, AddModel(left, changed, remote))
      BY <1>1, <1>3, AddModelSame DEF SameGraph
    <2> QED  BY <1>3, <2>1 DEF SameGraph
  <1> HIDE DEF joined
  <1>5. [j \in Objects |-> IF j \in changed THEN scope ELSE joined.scope[j]]
          \in [Objects -> ScopeIds]
    BY <1>4 DEF SameGraph, Models
  <1>6. SameGraph(m, q)
    BY <1>4, <1>5 DEF SameGraph, Models
  <1> QED  BY <1>2, <1>6

\* So does what the scope notes of a change.
LEMMA KeyChangedSame ==
    ASSUME NEW m \in Models, NEW p \in Objects, NEW key \in Keys, NEW remote \in BOOLEAN
    PROVE  SameGraph(m, KeyChanged(m, p, key, remote))
  <1>1. CASE m.scope[p] # "scope" \/ remote
    BY <1>1 DEF KeyChanged, SameGraph
  <1>2. CASE ~(m.scope[p] # "scope" \/ remote)
    <2> DEFINE old == m.fragments[p]
               f == [type  |-> IF old.type = "none" THEN "change" ELSE old.type,
                     child |-> IF key = "child" THEN m.child[p] ELSE old.child,
                     items |-> IF key = "items" THEN m.items[p] ELSE old.items]
    <2>1. old \in Fragments
      BY DEF Models
    <2>2. f \in Fragments
      <3>1. m.child[p] \in Objects \cup {Null} /\ m.items[p] \in Seq(Objects)
        BY DEF Models
      <3> HIDE DEF old
      <3> QED  BY <2>1, <3>1 DEF Fragments
    <2>3. KeyChanged(m, p, key, remote)
            = [m EXCEPT !.fragments = [m.fragments EXCEPT ![p] = f], !.changesQueued = TRUE]
      BY <1>2 DEF KeyChanged, Models
    <2> HIDE DEF f
    <2>4. [m.fragments EXCEPT ![p] = f] \in [Objects -> Fragments]
      BY <2>2 DEF Models
    <2> QED  BY <2>3, <2>4 DEF SameGraph, Models
  <1> QED  BY <1>1, <1>2
-----------------------------------------------------------------------------
\* One link.

\* addParent adds the slot to what the object knows, and that is all.
LEMMA AddParentFacts ==
    ASSUME NEW m \in Models, NEW i \in Objects, NEW p \in Objects, NEW key \in Keys,
           NEW remote \in BOOLEAN
    PROVE  Learns(m, AddParent(m, i, p, key, remote), <<p, key>>, i)
  <1> DEFINE known == [m EXCEPT !.parents[i] = @ \cup {<<p, key>>}]
             ps == [m.parents EXCEPT ![i] = @ \cup {<<p, key>>}]
  <1>1. ps \in [Objects -> SUBSET Slots]
    BY DEF Models, Slots
  <1>2. known = [m EXCEPT !.parents = ps]
    BY DEF Models
  <1> HIDE DEF ps, known
  <1>3. /\ known \in Models
        /\ known.child = m.child /\ known.items = m.items /\ known.parents = ps
    BY <1>1, <1>2 DEF Models
  <1>4. m.scope[p] \in ScopeIds
    BY DEF Models
  <1>5. SameGraph(known, SetScope(known, i, m.scope[p], remote))
    BY <1>3, <1>4, SetScopeSame
  <1>6. AddParent(m, i, p, key, remote)
          = IF m.parents[i] = {} THEN SetScope(known, i, m.scope[p], remote) ELSE known
    BY DEF AddParent, known
  <1> QED  BY <1>3, <1>5, <1>6 DEF SameGraph, Learns, ps

\* What a collection holds without i is all it held but i.
LEMMA ContainsWithout ==
    ASSUME NEW S, NEW s \in Seq(S), NEW R
    PROVE  \A x \in S : Contains(Without(s, R), x) <=> Contains(s, x) /\ x \notin R
  <1> DEFINE W(u) == Without(u, R)
             Bad == {u \in Seq(S) : ~\A x \in S :
                        Contains(W(u), x) <=> Contains(u, x) /\ x \notin R}
  <1>1. <<>> \notin Bad
    <2>1. Without(<<>>, R) = <<>>
      BY WithoutNone
    <2> QED  BY <2>1 DEF Contains
  <1>2. \A u \in Seq(S), y, x \in S : Contains(Append(u, y), x) <=> Contains(u, x) \/ x = y
    BY DEF Contains
  <1>3. \A u \in Seq(S) : W(u) \in Seq(S)
    BY WithoutType
  <1>4. \A u \in Seq(S), y \in S :
           W(Append(u, y)) = IF y \in R THEN W(u) ELSE Append(W(u), y)
    BY WithoutAppend
  <1> HIDE DEF W
  <1>5. ASSUME NEW u \in Seq(S), NEW y \in S, Append(u, y) \in Bad, u \notin Bad
        PROVE  FALSE
    <2>1. \A x \in S : Contains(W(u), x) <=> Contains(u, x) /\ x \notin R
      BY <1>5
    <2>2. \A x \in S : Contains(W(Append(u, y)), x) <=> Contains(Append(u, y), x) /\ x \notin R
      <3>1. CASE y \in R
        BY <1>2, <1>4, <2>1, <3>1
      <3>2. CASE y \notin R
        <4>1. W(Append(u, y)) = Append(W(u), y)
          BY <1>4, <3>2
        <4>2. \A x \in S : Contains(Append(W(u), y), x) <=> Contains(W(u), x) \/ x = y
          BY <1>2, <1>3
        <4> QED  BY <1>2, <2>1, <3>2, <4>1, <4>2
      <3> QED  BY <3>1, <3>2
    <2> QED  BY <1>5, <2>2
  <1>6. Bad = {}
    <2>1. Bad \in SUBSET Seq(S)
      OBVIOUS
    <2> HIDE DEF Bad
    <2> QED  BY <1>1, <1>5, <2>1, ShortestOf
  <1> QED  BY <1>6 DEF W

\* removeChildAtKey ends the link, if there is one, on the parent's side.
LEMMA RemoveChildFacts ==
    ASSUME NEW m \in Models, NEW i \in Objects, NEW p \in Objects, NEW key \in Keys,
           NEW remote \in BOOLEAN, ClientGraphAssumption
    PROVE  LET q == RemoveChildAtKey(m, p, key, i, remote)
           IN  /\ q \in Models
               /\ q.parents = m.parents
               /\ \A r \in Slots, j \in Objects :
                     Holds(q, r, j) <=> Holds(m, r, j) /\ ~(r = <<p, key>> /\ j = i)
  <1> DEFINE q == RemoveChildAtKey(m, p, key, i, remote)
  <1>0. /\ m.child \in [Objects -> Objects \cup {Null}]
        /\ m.items \in [Objects -> Seq(Objects)]
        /\ Null \notin Objects
    BY DEF Models, ClientGraphAssumption
  <1>1. CASE key = "child" /\ m.child[p] = i
    <2> DEFINE n == [m EXCEPT !.child[p] = Null]
    <2>1. /\ n \in Models /\ n.items = m.items /\ n.parents = m.parents
          /\ n.child = [m.child EXCEPT ![p] = Null]
      BY DEF Models
    <2>2. q = KeyChanged(n, p, key, remote)
      BY <1>1 DEF RemoveChildAtKey
    <2> HIDE DEF n
    <2>3. SameGraph(n, q)
      BY <2>1, <2>2, KeyChangedSame
    <2>4. \A r \in Slots, j \in Objects :
             Holds(q, r, j) <=> Holds(m, r, j) /\ ~(r = <<p, key>> /\ j = i)
      <3> SUFFICES ASSUME NEW o \in Objects, NEW k \in Keys, NEW j \in Objects
                   PROVE  Holds(q, <<o, k>>, j)
                            <=> Holds(m, <<o, k>>, j) /\ ~(o = p /\ k = key /\ j = i)
        BY DEF Slots
      <3>1. q.child = [m.child EXCEPT ![p] = Null] /\ q.items = m.items
        BY <2>1, <2>3 DEF SameGraph
      <3> HIDE DEF q
      <3> QED  BY <1>0, <1>1, <3>1 DEF Holds, Keys
    <2> QED  BY <2>1, <2>3, <2>4 DEF SameGraph
  <1>2. CASE key = "items" /\ Contains(m.items[p], i)
    <2> DEFINE s == Without(m.items[p], {i})
               n == [m EXCEPT !.items[p] = s]
    <2>0. /\ s \in Seq(Objects)
          /\ \A x \in Objects : Contains(s, x) <=> Contains(m.items[p], x) /\ x # i
      BY <1>0, WithoutType, ContainsWithout
    <2>2. q = KeyChanged(n, p, key, remote)
      BY <1>2 DEF RemoveChildAtKey
    <2> HIDE DEF s
    <2>1. /\ n \in Models /\ n.child = m.child /\ n.parents = m.parents
          /\ n.items = [m.items EXCEPT ![p] = s]
      BY <2>0 DEF Models
    <2> HIDE DEF n
    <2>3. SameGraph(n, q)
      BY <2>1, <2>2, KeyChangedSame
    <2>4. \A r \in Slots, j \in Objects :
             Holds(q, r, j) <=> Holds(m, r, j) /\ ~(r = <<p, key>> /\ j = i)
      <3> SUFFICES ASSUME NEW o \in Objects, NEW k \in Keys, NEW j \in Objects
                   PROVE  Holds(q, <<o, k>>, j)
                            <=> Holds(m, <<o, k>>, j) /\ ~(o = p /\ k = key /\ j = i)
        BY DEF Slots
      <3>1. q.items = [m.items EXCEPT ![p] = s] /\ q.child = m.child
        BY <2>1, <2>3 DEF SameGraph
      <3> HIDE DEF q
      <3> QED  BY <1>0, <1>2, <2>0, <3>1 DEF Holds, Keys
    <2> QED  BY <2>1, <2>3, <2>4 DEF SameGraph
  <1>3. CASE ~(key = "child" /\ m.child[p] = i) /\ ~(key = "items" /\ Contains(m.items[p], i))
    <2>1. q = m
      BY <1>3 DEF RemoveChildAtKey
    <2>2. ~Holds(m, <<p, key>>, i)
      BY <1>3 DEF Holds
    <2> QED  BY <2>1, <2>2
  <1> QED  BY <1>1, <1>2, <1>3

\* removeParent takes the slot from what the object knows; the parent lets
\* go of the object if the object knew it.
LEMMA RemoveParentFacts ==
    ASSUME NEW m \in Models, NEW i \in Objects, NEW p \in Objects, NEW key \in Keys,
           NEW remote \in BOOLEAN, ClientGraphAssumption
    PROVE  Forgets(m, RemoveParent(m, i, p, key, remote), <<p, key>>, i)
  <1> DEFINE q == RemoveParent(m, i, p, key, remote)
             ps == [m.parents EXCEPT ![i] = @ \ {<<p, key>>}]
             known == [m EXCEPT !.parents[i] = @ \ {<<p, key>>}]
             gone == RemoveChildAtKey(known, p, key, i, remote)
  <1>1. CASE <<p, key>> \notin m.parents[i]
    <2>1. q = m
      BY <1>1 DEF RemoveParent
    <2>2. m.parents \in [Objects -> SUBSET Slots]
      BY DEF Models
    <2>3. ps = m.parents
      BY <1>1, <2>2
    <2> QED  BY <1>1, <2>1, <2>3 DEF Knows, Forgets
  <1>2. CASE <<p, key>> \in m.parents[i]
    <2>1. ps \in [Objects -> SUBSET Slots]
      BY DEF Models
    <2>2. known = [m EXCEPT !.parents = ps]
      BY DEF Models
    <2>3. q = IF gone.parents[i] = {} THEN SetScope(gone, i, "left", remote) ELSE gone
      BY <1>2 DEF RemoveParent
    <2> HIDE DEF known, ps, q
    <2>4. /\ known \in Models
          /\ known.child = m.child /\ known.items = m.items /\ known.parents = ps
      BY <2>1, <2>2 DEF Models
    <2>5. /\ gone \in Models
          /\ gone.parents = ps
          /\ \A r \in Slots, j \in Objects :
                Holds(gone, r, j) <=> Holds(known, r, j) /\ ~(r = <<p, key>> /\ j = i)
      BY <2>4, RemoveChildFacts
    <2> HIDE DEF gone
    <2>6. SameGraph(gone, q)
      <3>1. SameGraph(gone, gone)
        BY <2>5 DEF SameGraph
      <3>2. SameGraph(gone, SetScope(gone, i, "left", remote))
        BY <2>5, SetScopeSame DEF ScopeIds
      <3> QED  BY <2>3, <3>1, <3>2
    <2>7. q \in Models /\ q.parents = ps
      BY <2>5, <2>6 DEF SameGraph
    <2>8. \A r, j : /\ Holds(q, r, j) <=> Holds(gone, r, j)
                    /\ Holds(known, r, j) <=> Holds(m, r, j)
      BY <2>4, <2>6 DEF SameGraph, Holds
    <2> QED  BY <1>2, <2>5, <2>7, <2>8 DEF Knows, Forgets, ps, q
  <1> QED  BY <1>1, <1>2

\* So it changes both sides of that link.
LEMMA ForgetsMirror ==
    ASSUME NEW m \in Models, Mirror(m), NEW r \in Slots, NEW i \in Objects,
           NEW q, Forgets(m, q, r, i)
    PROVE  q \in Models /\ Mirror(q)
  <1>1. \A o \in Slots, j \in Objects :
           Knows(q, o, j) <=> Knows(m, o, j) /\ ~(o = r /\ j = i)
    BY DEF Knows, Models, Forgets
  <1> QED  BY <1>1 DEF Mirror, Forgets
-----------------------------------------------------------------------------
\* One operation for each element of a sequence.

\* The elements of a sequence are those it contains.
LEMMA ToSetContains ==
    ASSUME NEW S, NEW s \in Seq(S)
    PROVE  /\ ToSet(s) \subseteq S
           /\ \A x : x \in ToSet(s) <=> Contains(s, x)
  BY DEF ToSet, Contains

\* What is added to a collection is told one after the other.
IsAddRun(F, m, p, added, remote) ==
    /\ F[0] = m
    /\ \A n \in 1..Len(added) :
          /\ F[n - 1] \in Models
          /\ F[n] = KeyChanged(AddParent(F[n - 1], added[n], p, "items", remote),
                                p, "items", remote)
    /\ OnCollectionAdd(m, p, added, remote) = F[Len(added)]

\* The run there is, and with it what the additions come to.
LEMMA OnCollectionAddRun ==
    ASSUME NEW m \in Models, NEW p \in Objects, NEW added \in Seq(Objects),
           NEW remote \in BOOLEAN
    PROVE  \E F : IsAddRun(F, m, p, added, remote)
  <1> DEFINE N == Len(added)
             op(a, i) == KeyChanged(AddParent(a, i, p, "items", remote), p, "items", remote)
             step == [n \in 1..N |-> [a \in Models |-> op(a, added[n])]]
  <1>0. /\ N \in Nat /\ "items" \in Keys
        /\ \A n \in 1..N : added[n] \in Objects
    BY DEF Keys
  <1>1. \A a \in Models, i \in Objects : op(a, i) \in Models
    BY <1>0, AddParentFacts, KeyChangedSame DEF Learns, SameGraph
  <1>2. OnCollectionAdd(m, p, added, remote)
          = (CHOOSE f : f = [n \in 0..N |-> IF n = 0 THEN m ELSE op(f[n - 1], added[n])])[N]
    BY DEF OnCollectionAdd
  <1> HIDE DEF op
  <1>3. step \in [1..N -> [Models -> Models]]
    BY <1>0, <1>1
  <1>4. PICK g : IsRun(Models, m, step, N, g)
    <2> HIDE DEF step, N
    <2> QED  BY <1>0, <1>3, Iterates
  <1>5. g = [n \in 0..N |-> IF n = 0 THEN m ELSE op(g[n - 1], added[n])]
    <2>1. \A n \in 1..N : n - 1 \in 0..N /\ g[n - 1] \in Models
      BY <1>0, <1>4 DEF IsRun
    <2>2. \A n \in 1..N : g[n] = op(g[n - 1], added[n])
      BY <1>4, <2>1 DEF IsRun
    <2> HIDE DEF step, N
    <2>3. g \in [0..N -> Models] /\ g[0] = m
      BY <1>4 DEF IsRun
    <2>4. \A n \in 0..N : g[n] = IF n = 0 THEN m ELSE op(g[n - 1], added[n])
      <3>1. \A n \in 0..N : n # 0 => n \in 1..N
        BY <1>0
      <3> QED  BY <2>2, <2>3, <3>1
    <2> QED  BY <2>3, <2>4
  <1> DEFINE F == CHOOSE f : f = [n \in 0..N |-> IF n = 0 THEN m ELSE op(f[n - 1], added[n])]
  <1>6. F = [n \in 0..N |-> IF n = 0 THEN m ELSE op(F[n - 1], added[n])]
    BY <1>5
  <1>7. OnCollectionAdd(m, p, added, remote) = F[N]
    BY <1>2
  <1> HIDE DEF F, step
  <1> DEFINE B == {k \in 0..N : F[k] \in Models}
  <1>8. 0 \in B
    BY <1>0, <1>6
  <1>9. \A k \in 1..N : /\ k - 1 \in 0..N
                        /\ F[k] = op(F[k - 1], added[k])
    BY <1>0, <1>6
  <1>10. \A k \in 1..N : k - 1 \in B => k \in B
    BY <1>0, <1>1, <1>9
  <1> HIDE DEF B
  <1>11. \A k \in 0..N : k \in B
    BY <1>0, <1>8, <1>10, Upwards
  <1>12. \A n \in 1..N : F[n - 1] \in Models /\ F[n] = op(F[n - 1], added[n])
    BY <1>9, <1>11 DEF B
  <1>13. F[0] = m
    BY <1>0, <1>6
  <1> QED  BY <1>7, <1>12, <1>13 DEF op, IsAddRun

\* What is added to a collection learns of it; the collections stay.
LEMMA OnCollectionAddFacts ==
    ASSUME NEW m \in Models, NEW p \in Objects, NEW added \in Seq(Objects),
           NEW remote \in BOOLEAN
    PROVE  LET q == OnCollectionAdd(m, p, added, remote)
           IN  /\ q \in Models
               /\ q.child = m.child /\ q.items = m.items
               /\ \A r \in Slots, j \in Objects :
                     Knows(q, r, j)
                       <=> Knows(m, r, j) \/ (r = <<p, "items">> /\ Contains(added, j))
  <1> DEFINE N == Len(added)
             op(a, i) == KeyChanged(AddParent(a, i, p, "items", remote), p, "items", remote)
  <1>0. /\ N \in Nat /\ "items" \in Keys
        /\ \A n \in 1..N : added[n] \in Objects
    BY DEF Keys
  <1>1. \A a \in Models, i \in Objects : Learns(a, op(a, i), <<p, "items">>, i)
    <2> SUFFICES ASSUME NEW a \in Models, NEW i \in Objects
                 PROVE  Learns(a, op(a, i), <<p, "items">>, i)
      OBVIOUS
    <2> DEFINE b == AddParent(a, i, p, "items", remote)
    <2>1. Learns(a, b, <<p, "items">>, i)
      BY <1>0, AddParentFacts
    <2>2. op(a, i) = KeyChanged(b, p, "items", remote)
      OBVIOUS
    <2> HIDE DEF b
    <2>3. SameGraph(b, KeyChanged(b, p, "items", remote))
      BY <1>0, <2>1, KeyChangedSame DEF Learns
    <2> QED  BY <2>1, <2>2, <2>3 DEF SameGraph, Learns
  <1>a. PICK F : IsAddRun(F, m, p, added, remote)
    BY OnCollectionAddRun
  <1>2. /\ F[0] = m
        /\ \A n \in 1..N : F[n - 1] \in Models /\ F[n] = op(F[n - 1], added[n])
        /\ OnCollectionAdd(m, p, added, remote) = F[N]
    BY <1>a DEF IsAddRun
  <1> HIDE DEF op
  <1> DEFINE Good(k) == /\ F[k] \in Models
                        /\ F[k].child = m.child /\ F[k].items = m.items
                        /\ \A r \in Slots, j \in Objects :
                              Knows(F[k], r, j)
                                <=> \/ Knows(m, r, j)
                                    \/ r = <<p, "items">> /\ \E n \in 1..k : added[n] = j
             B == {k \in 0..N : Good(k)}
  <1>3. 0 \in B
    <2>1. F[0] = m
      BY <1>2
    <2> QED  BY <1>0, <2>1
  <1>4. ASSUME NEW k \in 1..N, k - 1 \in B PROVE k \in B
    <2>1. Good(k - 1)
      BY <1>4
    <2>2. F[k] = op(F[k - 1], added[k])
      BY <1>2
    <2>3. Learns(F[k - 1], F[k], <<p, "items">>, added[k])
      <3>1. F[k - 1] \in Models /\ added[k] \in Objects
        BY <1>0, <2>1
      <3>2. Learns(F[k - 1], op(F[k - 1], added[k]), <<p, "items">>, added[k])
        BY <1>1, <3>1
      <3> QED  BY <2>2, <3>2
    <2>4. \A r \in Slots, j \in Objects :
             Knows(F[k], r, j) <=> Knows(F[k - 1], r, j) \/ (r = <<p, "items">> /\ j = added[k])
      <3>1. F[k - 1].parents \in [Objects -> SUBSET Slots]
        BY <2>1 DEF Models
      <3> QED  BY <1>0, <2>3, <3>1 DEF Knows, Learns
    <2>5. \A j : (\E n \in 1..k : added[n] = j)
                   <=> (\E n \in 1..(k - 1) : added[n] = j) \/ j = added[k]
      <3>1. \A n : n \in 1..k <=> n \in 1..(k - 1) \/ n = k
        BY <1>0
      <3> QED  BY <3>1
    <2>6. Good(k)
      BY <2>1, <2>3, <2>4, <2>5 DEF Learns
    <2> QED  BY <2>6, <1>0
  <1> HIDE DEF B
  <1>5. \A k \in 0..N : k \in B
    BY <1>0, <1>3, <1>4, Upwards
  <1>6. Good(N)
    BY <1>0, <1>5 DEF B
  <1> QED  BY <1>2, <1>6 DEF Contains

\* So is what is taken from it.
IsRemoveRun(F, m, p, removed, remote) ==
    /\ F[0] = m
    /\ \A n \in 1..Len(removed) :
          /\ F[n - 1] \in Models
          /\ F[n] = KeyChanged(RemoveParent(F[n - 1], removed[n], p, "items", remote),
                                p, "items", remote)
    /\ OnCollectionRemove(m, p, removed, remote) = F[Len(removed)]

\* The run there is, and with it what the removals come to.
LEMMA OnCollectionRemoveRun ==
    ASSUME NEW m \in Models, NEW p \in Objects, NEW removed \in Seq(Objects),
           NEW remote \in BOOLEAN, ClientGraphAssumption
    PROVE  \E F : IsRemoveRun(F, m, p, removed, remote)
  <1> DEFINE N == Len(removed)
             op(a, i) == KeyChanged(RemoveParent(a, i, p, "items", remote), p, "items", remote)
             step == [n \in 1..N |-> [a \in Models |-> op(a, removed[n])]]
  <1>0. /\ N \in Nat /\ "items" \in Keys
        /\ \A n \in 1..N : removed[n] \in Objects
    BY DEF Keys
  <1>1. \A a \in Models, i \in Objects : op(a, i) \in Models
    BY <1>0, RemoveParentFacts, KeyChangedSame DEF Forgets, SameGraph
  <1>2. OnCollectionRemove(m, p, removed, remote)
          = (CHOOSE f : f = [n \in 0..N |-> IF n = 0 THEN m ELSE op(f[n - 1], removed[n])])[N]
    BY DEF OnCollectionRemove
  <1> HIDE DEF op
  <1>3. step \in [1..N -> [Models -> Models]]
    BY <1>0, <1>1
  <1>4. PICK g : IsRun(Models, m, step, N, g)
    <2> HIDE DEF step, N
    <2> QED  BY <1>0, <1>3, Iterates
  <1>5. g = [n \in 0..N |-> IF n = 0 THEN m ELSE op(g[n - 1], removed[n])]
    <2>1. \A n \in 1..N : n - 1 \in 0..N /\ g[n - 1] \in Models
      BY <1>0, <1>4 DEF IsRun
    <2>2. \A n \in 1..N : g[n] = op(g[n - 1], removed[n])
      BY <1>4, <2>1 DEF IsRun
    <2> HIDE DEF step, N
    <2>3. g \in [0..N -> Models] /\ g[0] = m
      BY <1>4 DEF IsRun
    <2>4. \A n \in 0..N : g[n] = IF n = 0 THEN m ELSE op(g[n - 1], removed[n])
      <3>1. \A n \in 0..N : n # 0 => n \in 1..N
        BY <1>0
      <3> QED  BY <2>2, <2>3, <3>1
    <2> QED  BY <2>3, <2>4
  <1> DEFINE F == CHOOSE f : f = [n \in 0..N |-> IF n = 0 THEN m ELSE op(f[n - 1], removed[n])]
  <1>6. F = [n \in 0..N |-> IF n = 0 THEN m ELSE op(F[n - 1], removed[n])]
    BY <1>5
  <1>7. OnCollectionRemove(m, p, removed, remote) = F[N]
    BY <1>2
  <1> HIDE DEF F, step
  <1> DEFINE B == {k \in 0..N : F[k] \in Models}
  <1>8. 0 \in B
    BY <1>0, <1>6
  <1>9. \A k \in 1..N : /\ k - 1 \in 0..N
                        /\ F[k] = op(F[k - 1], removed[k])
    BY <1>0, <1>6
  <1>10. \A k \in 1..N : k - 1 \in B => k \in B
    BY <1>0, <1>1, <1>9
  <1> HIDE DEF B
  <1>11. \A k \in 0..N : k \in B
    BY <1>0, <1>8, <1>10, Upwards
  <1>12. \A n \in 1..N : F[n - 1] \in Models /\ F[n] = op(F[n - 1], removed[n])
    BY <1>9, <1>11 DEF B
  <1>13. F[0] = m
    BY <1>0, <1>6
  <1> QED  BY <1>7, <1>12, <1>13 DEF op, IsRemoveRun

\* What is taken from a collection forgets it, and is let go of if it knew.
LEMMA OnCollectionRemoveFacts ==
    ASSUME NEW m \in Models, NEW p \in Objects, NEW removed \in Seq(Objects),
           NEW remote \in BOOLEAN, ClientGraphAssumption
    PROVE  LET q == OnCollectionRemove(m, p, removed, remote)
               of(r, j) == r = <<p, "items">> /\ Contains(removed, j)
           IN  /\ q \in Models
               /\ \A r \in Slots, j \in Objects :
                     /\ Knows(q, r, j) <=> Knows(m, r, j) /\ ~of(r, j)
                     /\ Holds(q, r, j) <=> Holds(m, r, j) /\ ~(of(r, j) /\ Knows(m, r, j))
  <1> DEFINE N == Len(removed)
             op(a, i) == KeyChanged(RemoveParent(a, i, p, "items", remote), p, "items", remote)
             at == <<p, "items">>
  <1>0. /\ N \in Nat /\ "items" \in Keys /\ at \in Slots
        /\ \A n \in 1..N : removed[n] \in Objects
    BY DEF Keys, Slots
  <1>1. \A a \in Models, i \in Objects : Forgets(a, op(a, i), at, i)
    <2> SUFFICES ASSUME NEW a \in Models, NEW i \in Objects
                 PROVE  Forgets(a, op(a, i), at, i)
      OBVIOUS
    <2> DEFINE b == RemoveParent(a, i, p, "items", remote)
    <2>1. Forgets(a, b, at, i)
      BY <1>0, RemoveParentFacts
    <2>2. op(a, i) = KeyChanged(b, p, "items", remote)
      OBVIOUS
    <2> HIDE DEF b
    <2>3. SameGraph(b, KeyChanged(b, p, "items", remote))
      BY <1>0, <2>1, KeyChangedSame DEF Forgets
    <2> HIDE DEF op
    <2>4. \A r, j : Holds(op(a, i), r, j) <=> Holds(b, r, j)
      BY <2>2, <2>3 DEF SameGraph, Holds
    <2> QED  BY <2>1, <2>2, <2>3, <2>4 DEF SameGraph, Forgets
  <1>a. PICK F : IsRemoveRun(F, m, p, removed, remote)
    BY OnCollectionRemoveRun
  <1>2. /\ F[0] = m
        /\ \A n \in 1..N : F[n - 1] \in Models /\ F[n] = op(F[n - 1], removed[n])
        /\ OnCollectionRemove(m, p, removed, remote) = F[N]
    BY <1>a DEF IsRemoveRun
  <1> HIDE DEF op
  <1> DEFINE of(k, r, j) == r = at /\ \E n \in 1..k : removed[n] = j
             Good(k) == /\ F[k] \in Models
                        /\ \A r \in Slots, j \in Objects :
                              /\ Knows(F[k], r, j) <=> Knows(m, r, j) /\ ~of(k, r, j)
                              /\ Holds(F[k], r, j)
                                   <=> Holds(m, r, j) /\ ~(of(k, r, j) /\ Knows(m, r, j))
             B == {k \in 0..N : Good(k)}
  <1>3. 0 \in B
    <2>1. F[0] = m
      BY <1>2
    <2> QED  BY <1>0, <2>1
  <1>4. ASSUME NEW k \in 1..N, k - 1 \in B PROVE k \in B
    <2>1. Good(k - 1)
      BY <1>4
    <2>2. F[k] = op(F[k - 1], removed[k])
      BY <1>2
    <2>3. Forgets(F[k - 1], F[k], at, removed[k])
      <3>1. F[k - 1] \in Models /\ removed[k] \in Objects
        BY <1>0, <2>1
      <3>2. Forgets(F[k - 1], op(F[k - 1], removed[k]), at, removed[k])
        BY <1>1, <3>1
      <3> QED  BY <2>2, <3>2
    <2>4. \A r \in Slots, j \in Objects :
             Knows(F[k], r, j) <=> Knows(F[k - 1], r, j) /\ ~(r = at /\ j = removed[k])
      <3>1. F[k - 1].parents \in [Objects -> SUBSET Slots]
        BY <2>1 DEF Models
      <3> QED  BY <1>0, <2>3, <3>1 DEF Knows, Forgets
    <2>5. \A r, j : of(k, r, j) <=> of(k - 1, r, j) \/ (r = at /\ j = removed[k])
      <3>1. \A n : n \in 1..k <=> n \in 1..(k - 1) \/ n = k
        BY <1>0
      <3> QED  BY <3>1
    <2> HIDE DEF of
    <2>6. Good(k)
      BY <2>1, <2>3, <2>4, <2>5 DEF Forgets
    <2> QED  BY <2>6, <1>0
  <1> HIDE DEF B
  <1>5. \A k \in 0..N : k \in B
    BY <1>0, <1>3, <1>4, Upwards
  <1>6. Good(N)
    BY <1>0, <1>5 DEF B
  <1> QED  BY <1>2, <1>6 DEF Contains

\* A finite set has a sequence of its elements.
LEMMA SetToSeqType ==
    ASSUME NEW S, IsFiniteSet(S)
    PROVE  SetToSeq(S) \in Seq(S)
  <1>1. Cardinality(S) \in Nat /\ ExistsBijection(1..Cardinality(S), S)
    BY FS_CardinalityType
  <1>2. \E f \in [1..Cardinality(S) -> S] : IsInjective(f)
    BY <1>1 DEF ExistsBijection, Bijection, Injection
  <1>3. SetToSeq(S) \in [1..Cardinality(S) -> S]
    BY <1>2 DEF SetToSeq
  <1> QED  BY <1>1, <1>3

\* The objects are finitely many,
LEMMA ObjectsFinite == IsFiniteSet(Objects)
  <1>1. IsFiniteSet({Root}) /\ IsFiniteSet(Mine) /\ IsFiniteSet(Theirs)
    BY ClientGraphAssumption, FS_Singleton DEF ClientGraphAssumption
  <1>2. IsFiniteSet({Root} \cup Mine)
    BY <1>1, FS_Union
  <1>3. IsFiniteSet({Root} \cup Mine \cup Theirs)
    BY <1>1, <1>2, FS_Union
  <1> QED  BY <1>3 DEF Objects

\* and so is what an object knows.
LEMMA SlotsFinite ==
    ASSUME NEW S \in SUBSET Slots
    PROVE  IsFiniteSet(S)
  <1>1. IsFiniteSet(Objects)
    BY ObjectsFinite
  <1>2. IsFiniteSet(Keys)
    <2>1. IsFiniteSet({"child"}) /\ IsFiniteSet({"items"})
      BY FS_Singleton
    <2>2. IsFiniteSet({"child"} \cup {"items"})
      BY <2>1, FS_Union
    <2>3. {"child"} \cup {"items"} = Keys
      BY DEF Keys
    <2> QED  BY <2>2, <2>3
  <1>3. IsFiniteSet(Slots)
    BY <1>1, <1>2, FS_Product DEF Slots
  <1> QED  BY <1>3, FS_Subset

\* What an object knows, in a sequence.
LEMMA KnownSlots ==
    ASSUME NEW m \in Models, NEW i \in Objects
    PROVE  LET known == SetToSeq(m.parents[i])
           IN  /\ Len(known) \in Nat
               /\ \A n \in 1..Len(known) : known[n] \in m.parents[i] /\ known[n] \in Slots
  <1> DEFINE S == m.parents[i]
  <1>1. S \in SUBSET Slots
    BY DEF Models
  <1> HIDE DEF S
  <1>2. IsFiniteSet(S)
    BY <1>1, SlotsFinite
  <1>3. SetToSeq(S) \in Seq(S)
    BY <1>2, SetToSeqType
  <1> DEFINE known == SetToSeq(S)
  <1>4. Len(known) \in Nat /\ \A n \in 1..Len(known) : known[n] \in S /\ known[n] \in Slots
    <2> HIDE DEF known
    <2> QED  BY <1>1, <1>3 DEF known
  <1> QED  BY <1>4 DEF S

\* detach ends one link after the other.
IsDetachRun(F, m, i) ==
    LET known == SetToSeq(m.parents[i])
    IN  /\ F[0] = m
        /\ \A n \in 1..Len(known) :
              /\ F[n - 1] \in Models
              /\ F[n] = RemoveParent(F[n - 1], i, known[n][1], known[n][2], FALSE)
        /\ Detach(m, i) = F[Len(known)]

\* The run there is, and with it what detaching comes to.
LEMMA DetachRun ==
    ASSUME NEW m \in Models, NEW i \in Objects, ClientGraphAssumption
    PROVE  \E F : IsDetachRun(F, m, i)
  <1> DEFINE known == SetToSeq(m.parents[i])
             N == Len(known)
             op(a, l) == RemoveParent(a, i, l[1], l[2], FALSE)
             step == [n \in 1..N |-> [a \in Models |-> op(a, known[n])]]
  <1>0. N \in Nat /\ \A n \in 1..N : known[n] \in Slots
    BY KnownSlots
  <1>1. \A a \in Models, l \in Slots : op(a, l) \in Models
    <2> SUFFICES ASSUME NEW a \in Models, NEW l \in Slots PROVE op(a, l) \in Models
      OBVIOUS
    <2>1. l[1] \in Objects /\ l[2] \in Keys
      BY DEF Slots
    <2> QED  BY <2>1, RemoveParentFacts DEF Forgets
  <1>2. Detach(m, i)
          = (CHOOSE f : f = [n \in 0..N |-> IF n = 0 THEN m ELSE op(f[n - 1], known[n])])[N]
    BY DEF Detach
  <1> HIDE DEF op
  <1>3. step \in [1..N -> [Models -> Models]]
    BY <1>0, <1>1
  <1>4. PICK g : IsRun(Models, m, step, N, g)
    <2> HIDE DEF step, N
    <2> QED  BY <1>0, <1>3, Iterates
  <1>5. g = [n \in 0..N |-> IF n = 0 THEN m ELSE op(g[n - 1], known[n])]
    <2>1. \A n \in 1..N : n - 1 \in 0..N /\ g[n - 1] \in Models
      BY <1>0, <1>4 DEF IsRun
    <2>2. \A n \in 1..N : g[n] = op(g[n - 1], known[n])
      BY <1>4, <2>1 DEF IsRun
    <2> HIDE DEF step, N
    <2>3. g \in [0..N -> Models] /\ g[0] = m
      BY <1>4 DEF IsRun
    <2>4. \A n \in 0..N : g[n] = IF n = 0 THEN m ELSE op(g[n - 1], known[n])
      <3>1. \A n \in 0..N : n # 0 => n \in 1..N
        BY <1>0
      <3> QED  BY <2>2, <2>3, <3>1
    <2> QED  BY <2>3, <2>4
  <1> DEFINE F == CHOOSE f : f = [n \in 0..N |-> IF n = 0 THEN m ELSE op(f[n - 1], known[n])]
  <1>6. F = [n \in 0..N |-> IF n = 0 THEN m ELSE op(F[n - 1], known[n])]
    BY <1>5
  <1>7. Detach(m, i) = F[N]
    BY <1>2
  <1> HIDE DEF F, step
  <1> DEFINE B == {k \in 0..N : F[k] \in Models}
  <1>8. 0 \in B
    BY <1>0, <1>6
  <1>9. \A k \in 1..N : /\ k - 1 \in 0..N
                        /\ F[k] = op(F[k - 1], known[k])
    BY <1>0, <1>6
  <1>10. \A k \in 1..N : k - 1 \in B => k \in B
    BY <1>0, <1>1, <1>9
  <1> HIDE DEF B
  <1>11. \A k \in 0..N : k \in B
    BY <1>0, <1>8, <1>10, Upwards
  <1>12. \A n \in 1..N : F[n - 1] \in Models /\ F[n] = op(F[n - 1], known[n])
    BY <1>9, <1>11 DEF B
  <1>13. F[0] = m
    BY <1>0, <1>6
  <1> QED  BY <1>7, <1>12, <1>13 DEF op, IsDetachRun

\* detach ends one link after the other, each on both sides.
LEMMA DetachMirror ==
    ASSUME NEW m \in Models, Mirror(m), NEW i \in Objects, ClientGraphAssumption
    PROVE  Detach(m, i) \in Models /\ Mirror(Detach(m, i))
  <1> DEFINE known == SetToSeq(m.parents[i])
             N == Len(known)
             op(a, l) == RemoveParent(a, i, l[1], l[2], FALSE)
  <1>0. N \in Nat /\ \A n \in 1..N : known[n] \in Slots
    BY KnownSlots
  <1>1. \A a \in Models, l \in Slots : Forgets(a, op(a, l), l, i)
    <2> SUFFICES ASSUME NEW a \in Models, NEW l \in Slots
                 PROVE  Forgets(a, op(a, l), l, i)
      OBVIOUS
    <2>1. l[1] \in Objects /\ l[2] \in Keys /\ l = <<l[1], l[2]>>
      BY DEF Slots
    <2> QED  BY <2>1, RemoveParentFacts
  <1>a. PICK F : IsDetachRun(F, m, i)
    BY DetachRun
  <1>2. /\ F[0] = m
        /\ \A n \in 1..N : F[n - 1] \in Models /\ F[n] = op(F[n - 1], known[n])
        /\ Detach(m, i) = F[N]
    BY <1>a DEF IsDetachRun
  <1> HIDE DEF op
  <1> DEFINE Good(k) == F[k] \in Models /\ Mirror(F[k])
             B == {k \in 0..N : Good(k)}
  <1>3. 0 \in B
    <2>1. F[0] = m
      BY <1>2
    <2> QED  BY <1>0, <2>1
  <1>4. ASSUME NEW k \in 1..N, k - 1 \in B PROVE k \in B
    <2>1. Good(k - 1)
      BY <1>4
    <2>2. F[k] = op(F[k - 1], known[k])
      BY <1>2
    <2>3. known[k] \in Slots
      BY <1>0
    <2> HIDE DEF known
    <2>4. Forgets(F[k - 1], F[k], known[k], i)
      <3>1. Forgets(F[k - 1], op(F[k - 1], known[k]), known[k], i)
        BY <1>1, <2>1, <2>3
      <3> QED  BY <2>2, <3>1
    <2>5. Good(k)
      BY <2>1, <2>3, <2>4, ForgetsMirror
    <2> QED  BY <2>5, <1>0
  <1> HIDE DEF B
  <1>5. \A k \in 0..N : k \in B
    BY <1>0, <1>3, <1>4, Upwards
  <1>6. Good(N)
    BY <1>0, <1>5 DEF B
  <1> QED  BY <1>2, <1>6
-----------------------------------------------------------------------------
\* The setters: between their first assignment and their last call the two
\* sides disagree, and agree again at the end.

\* A collection that is given another content, and announces what is new and
\* what is gone.
LEMMA NewItemsMirror ==
    ASSUME NEW m \in Models, Mirror(m), NEW p \in Objects, NEW items \in Seq(Objects),
           NEW added \in Seq(Objects), NEW removed \in Seq(Objects),
           NEW remote \in BOOLEAN, ClientGraphAssumption,
           \A j \in Objects :
              /\ Contains(items, j) => Contains(m.items[p], j) \/ Contains(added, j)
              /\ Contains(m.items[p], j) => Contains(items, j) \/ Contains(removed, j)
              /\ Contains(added, j) => Contains(items, j) \/ Contains(removed, j)
    PROVE  LET q == OnCollectionRemove(
                        OnCollectionAdd([m EXCEPT !.items[p] = items], p, added, remote),
                        p, removed, remote)
           IN  q \in Models /\ Mirror(q)
  <1> DEFINE m1 == [m EXCEPT !.items[p] = items]
             m2 == OnCollectionAdd(m1, p, added, remote)
             q  == OnCollectionRemove(m2, p, removed, remote)
             at == <<p, "items">>
  <1>1. /\ m1 \in Models /\ m1.child = m.child /\ m1.parents = m.parents
        /\ m1.items = [m.items EXCEPT ![p] = items]
    BY DEF Models
  <1> HIDE DEF m1
  <1>2. /\ m2 \in Models
        /\ m2.child = m1.child /\ m2.items = m1.items
        /\ \A r \in Slots, j \in Objects :
              Knows(m2, r, j) <=> Knows(m1, r, j) \/ (r = at /\ Contains(added, j))
    BY <1>1, OnCollectionAddFacts
  <1> HIDE DEF m2
  <1>3. /\ q \in Models
        /\ \A r \in Slots, j \in Objects :
              /\ Knows(q, r, j) <=> Knows(m2, r, j) /\ ~(r = at /\ Contains(removed, j))
              /\ Holds(q, r, j) <=> /\ Holds(m2, r, j)
                                    /\ ~(r = at /\ Contains(removed, j) /\ Knows(m2, r, j))
    BY <1>2, OnCollectionRemoveFacts
  <1> HIDE DEF q
  <1>4. \A r, j : Knows(m1, r, j) <=> Knows(m, r, j)
    BY <1>1 DEF Knows
  <1>5. \A r, j : Holds(m2, r, j) <=> Holds(m1, r, j)
    BY <1>2 DEF Holds
  <1>6. \A r \in Slots, j \in Objects : r # at => (Holds(m1, r, j) <=> Holds(m, r, j))
    <2> SUFFICES ASSUME NEW o \in Objects, NEW key \in Keys, NEW j \in Objects,
                        ~(o = p /\ key = "items")
                 PROVE  Holds(m1, <<o, key>>, j) <=> Holds(m, <<o, key>>, j)
      BY DEF Slots
    <2> QED  BY <1>1 DEF Holds, Keys, Models
  <1>7. \A j \in Objects : /\ Holds(m1, at, j) <=> Contains(items, j)
                           /\ Holds(m, at, j) <=> Contains(m.items[p], j)
    BY <1>1 DEF Holds, Models
  <1>8. at \in Slots
    BY DEF Slots, Keys
  <1> HIDE DEF at
  <1>9. Mirror(q)
    <2> SUFFICES ASSUME NEW r \in Slots, NEW j \in Objects
                 PROVE  Knows(q, r, j) <=> Holds(q, r, j)
      BY DEF Mirror
    <2>1. CASE r = at
      BY <2>1, <1>2, <1>3, <1>4, <1>5, <1>7, <1>8 DEF Mirror
    <2>2. CASE r # at
      BY <2>2, <1>2, <1>3, <1>4, <1>5, <1>6 DEF Mirror
    <2> QED  BY <2>1, <2>2
  <1> QED  BY <1>3, <1>9 DEF q, m2, m1

\* What splice leaves of a sequence, and what it puts in.
LEMMA SpliceContains ==
    ASSUME NEW S, NEW s \in Seq(S), NEW new \in Seq(S), NEW start \in Nat, NEW count \in Nat,
           start + count <= Len(s)
    PROVE  LET removed == SubSeq(s, start + 1, start + count)
               left    == SubSeq(s, start + count + 1, Len(s))
               spliced == SubSeq(s, 1, start) \o new \o left
           IN  /\ removed \in Seq(S) /\ spliced \in Seq(S)
               /\ \A x \in S :
                     /\ Contains(spliced, x) => Contains(s, x) \/ Contains(new, x)
                     /\ Contains(s, x) => Contains(spliced, x) \/ Contains(removed, x)
                     /\ Contains(new, x) => Contains(spliced, x)
  <1> DEFINE first   == SubSeq(s, 1, start)
             removed == SubSeq(s, start + 1, start + count)
             left    == SubSeq(s, start + count + 1, Len(s))
             spliced == first \o new \o left
  <1>1. /\ first \in Seq(S) /\ Len(first) = start
        /\ \A n \in 1..start : first[n] = s[n]
    OBVIOUS
  <1>2. /\ removed \in Seq(S) /\ Len(removed) = count
        /\ \A n \in 1..count : removed[n] = s[start + n]
    OBVIOUS
  <1>3. /\ left \in Seq(S) /\ Len(left) = Len(s) - start - count
        /\ \A n \in 1..Len(left) : left[n] = s[start + count + n]
    OBVIOUS
  <1> HIDE DEF first, removed, left
  <1>4. \A u, v \in Seq(S), x \in S : Contains(u \o v, x) <=> Contains(u, x) \/ Contains(v, x)
    <2> SUFFICES ASSUME NEW u \in Seq(S), NEW v \in Seq(S), NEW x \in S
                 PROVE  Contains(u \o v, x) <=> Contains(u, x) \/ Contains(v, x)
      OBVIOUS
    <2>1. /\ Len(u \o v) = Len(u) + Len(v) /\ Len(u) \in Nat /\ Len(v) \in Nat
          /\ \A n \in 1..Len(u) : (u \o v)[n] = u[n]
          /\ \A n \in 1..Len(v) : (u \o v)[Len(u) + n] = v[n]
      OBVIOUS
    <2>2. ASSUME Contains(u \o v, x) PROVE Contains(u, x) \/ Contains(v, x)
      <3>1. PICK n \in 1..(Len(u) + Len(v)) : (u \o v)[n] = x
        BY <2>1, <2>2 DEF Contains
      <3>2. CASE n \in 1..Len(u)
        BY <2>1, <3>1, <3>2 DEF Contains
      <3>3. CASE n \notin 1..Len(u)
        <4>1. n - Len(u) \in 1..Len(v) /\ n = Len(u) + (n - Len(u))
          BY <2>1, <3>3
        <4>2. v[n - Len(u)] = x
          BY <2>1, <3>1, <4>1
        <4> QED  BY <4>1, <4>2 DEF Contains
      <3> QED  BY <3>2, <3>3
    <2>3. ASSUME Contains(u, x) PROVE Contains(u \o v, x)
      <3>1. PICK n \in 1..Len(u) : u[n] = x
        BY <2>3 DEF Contains
      <3>2. n \in 1..Len(u \o v) /\ (u \o v)[n] = x
        BY <2>1, <3>1
      <3> QED  BY <3>2 DEF Contains
    <2>4. ASSUME Contains(v, x) PROVE Contains(u \o v, x)
      <3>1. PICK n \in 1..Len(v) : v[n] = x
        BY <2>4 DEF Contains
      <3>2. Len(u) + n \in 1..Len(u \o v) /\ (u \o v)[Len(u) + n] = x
        BY <2>1, <3>1
      <3> QED  BY <3>2 DEF Contains
    <2> QED  BY <2>2, <2>3, <2>4
  <1>5. first \o new \in Seq(S) /\ spliced \in Seq(S)
    BY <1>1, <1>3
  <1>6. \A x \in S : Contains(spliced, x)
                       <=> Contains(first, x) \/ Contains(new, x) \/ Contains(left, x)
    BY <1>1, <1>3, <1>4, <1>5
  <1> HIDE DEF spliced
  <1>7. \A x \in S : Contains(first, x) \/ Contains(left, x) => Contains(s, x)
    <2>0. Len(s) \in Nat
      OBVIOUS
    <2>1. ASSUME NEW n \in 1..Len(first) PROVE n \in 1..Len(s) /\ s[n] = first[n]
      BY <1>1, <2>0
    <2>2. ASSUME NEW n \in 1..Len(left)
          PROVE  start + count + n \in 1..Len(s) /\ s[start + count + n] = left[n]
      BY <1>3, <2>0
    <2> QED  BY <2>1, <2>2 DEF Contains
  <1>8. \A x \in S : Contains(s, x)
                       => Contains(first, x) \/ Contains(removed, x) \/ Contains(left, x)
    <2> SUFFICES ASSUME NEW n \in 1..Len(s)
                 PROVE  Contains(first, s[n]) \/ Contains(removed, s[n]) \/ Contains(left, s[n])
      BY DEF Contains
    <2>1. CASE n <= start
      BY <1>1, <2>1 DEF Contains
    <2>2. CASE start < n /\ n <= start + count
      <3>1. n - start \in 1..count /\ n = start + (n - start)
        BY <2>2
      <3> QED  BY <1>2, <3>1 DEF Contains
    <2>3. CASE start + count < n
      <3>1. n - (start + count) \in 1..Len(left) /\ n = start + count + (n - (start + count))
        BY <1>3, <2>3
      <3> QED  BY <1>3, <3>1 DEF Contains
    <2> QED  BY <2>1, <2>2, <2>3
  <1> QED  BY <1>2, <1>5, <1>6, <1>7, <1>8 DEF spliced, first, removed, left

\* splice, and with it push, unshift, pop and shift.
LEMMA SpliceMirror ==
    ASSUME NEW m \in Models, Mirror(m), NEW p \in Objects, NEW new \in Seq(Objects),
           NEW start \in Nat, NEW count \in Nat, start + count <= Len(m.items[p]),
           NEW remote \in BOOLEAN, ClientGraphAssumption
    PROVE  LET q == SpliceItems(m, p, start, count, new, remote)
           IN  q \in Models /\ Mirror(q)
  <1> DEFINE old     == m.items[p]
             removed == SubSeq(old, start + 1, start + count)
             spliced == SubSeq(old, 1, start) \o new \o SubSeq(old, start + count + 1, Len(old))
             q == OnCollectionRemove(
                      OnCollectionAdd([m EXCEPT !.items[p] = spliced], p, new, remote),
                      p, removed, remote)
  <1>1. SpliceItems(m, p, start, count, new, remote) = q
    BY DEF SpliceItems
  <1>2. old \in Seq(Objects)
    BY DEF Models
  <1>3. /\ removed \in Seq(Objects) /\ spliced \in Seq(Objects)
        /\ \A x \in Objects :
              /\ Contains(spliced, x) => Contains(old, x) \/ Contains(new, x)
              /\ Contains(old, x) => Contains(spliced, x) \/ Contains(removed, x)
              /\ Contains(new, x) => Contains(spliced, x)
    BY <1>2, SpliceContains
  <1> HIDE DEF removed, spliced
  <1>4. q \in Models /\ Mirror(q)
    BY <1>3, NewItemsMirror
  <1> QED  BY <1>1, <1>4

\* reset.
LEMMA ResetMirror ==
    ASSUME NEW m \in Models, Mirror(m), NEW p \in Objects, NEW new \in Seq(Objects),
           NEW remote \in BOOLEAN, ClientGraphAssumption
    PROVE  LET q == ResetItems(m, p, new, remote)
           IN  q \in Models /\ Mirror(q)
  <1> DEFINE old     == m.items[p]
             added   == Without(new, ToSet(old))
             removed == Without(old, ToSet(new))
             q == OnCollectionRemove(
                      OnCollectionAdd([m EXCEPT !.items[p] = new], p, added, remote),
                      p, removed, remote)
  <1>1. ResetItems(m, p, new, remote) = q
    BY DEF ResetItems
  <1>2. old \in Seq(Objects)
    BY DEF Models
  <1>3. \A x : /\ x \in ToSet(old) <=> Contains(old, x)
               /\ x \in ToSet(new) <=> Contains(new, x)
    BY <1>2, ToSetContains
  <1>4. /\ added \in Seq(Objects)
        /\ \A x \in Objects : Contains(added, x) <=> Contains(new, x) /\ x \notin ToSet(old)
    BY WithoutType, ContainsWithout
  <1>5. /\ removed \in Seq(Objects)
        /\ \A x \in Objects : Contains(removed, x) <=> Contains(old, x) /\ x \notin ToSet(new)
    BY <1>2, WithoutType, ContainsWithout
  <1> HIDE DEF added, removed
  <1>6. q \in Models /\ Mirror(q)
    BY <1>3, <1>4, <1>5, NewItemsMirror
  <1> QED  BY <1>1, <1>6

\* The setter of a property, unless it is set the object it has.
LEMMA SetChildMirror ==
    ASSUME NEW m \in Models, Mirror(m), NEW p \in Objects, NEW new \in Objects \cup {Null},
           new # m.child[p] \/ new = Null, NEW remote \in BOOLEAN, ClientGraphAssumption
    PROVE  LET q == SetChild(m, p, new, remote)
           IN  q \in Models /\ Mirror(q)
  <1> DEFINE old    == m.child[p]
             given  == [m EXCEPT !.child[p] = new]
             left   == IF old = Null THEN given ELSE RemoveParent(given, old, p, "child", remote)
             joined == IF new = Null THEN left ELSE AddParent(left, new, p, "child", remote)
             q  == IF old = new THEN joined ELSE KeyChanged(joined, p, "child", remote)
             at == <<p, "child">>
  <1>1. SetChild(m, p, new, remote) = q
    BY DEF SetChild
  <1>2. /\ "child" \in Keys /\ at \in Slots
        /\ old \in Objects \cup {Null} /\ Null \notin Objects
    BY DEF Keys, Slots, Models, ClientGraphAssumption
  <1>3. /\ given \in Models /\ given.parents = m.parents /\ given.items = m.items
        /\ given.child = [m.child EXCEPT ![p] = new]
    BY DEF Models
  <1> HIDE DEF given
  <1>4. \A r \in Slots, j \in Objects :
           /\ Knows(given, r, j) <=> Knows(m, r, j)
           /\ r # at => (Holds(given, r, j) <=> Holds(m, r, j))
           /\ r = at => (Holds(given, r, j) <=> j = new)
           /\ r = at => (Holds(m, r, j) <=> j = old)
    <2> SUFFICES ASSUME NEW o \in Objects, NEW key \in Keys, NEW j \in Objects
                 PROVE  LET r == <<o, key>>
                        IN  /\ Knows(given, r, j) <=> Knows(m, r, j)
                            /\ r # at => (Holds(given, r, j) <=> Holds(m, r, j))
                            /\ r = at => (Holds(given, r, j) <=> j = new)
                            /\ r = at => (Holds(m, r, j) <=> j = old)
      BY DEF Slots
    <2> QED  BY <1>3 DEF Knows, Holds, Keys, Models
  <1>5. /\ left \in Models
        /\ \A r \in Slots, j \in Objects :
              /\ Knows(left, r, j) <=> Knows(m, r, j) /\ ~(r = at /\ j = old)
              /\ Holds(left, r, j) <=> Holds(given, r, j)
    <2>1. CASE old = Null
      BY <1>2, <1>3, <1>4, <2>1
    <2>2. CASE old # Null
      <3>1. old \in Objects
        BY <1>2, <2>2
      <3>2. Forgets(given, left, at, old)
        BY <1>2, <1>3, <2>2, <3>1, RemoveParentFacts
      <3> HIDE DEF left, at
      <3>3. \A r \in Slots, j \in Objects : Knows(left, r, j) <=> Knows(given, r, j) /\ ~(r = at /\ j = old)
        BY <1>3, <3>1, <3>2 DEF Knows, Forgets, Models
      <3>4. \A r \in Slots, j \in Objects : Holds(left, r, j) <=> Holds(given, r, j)
        <4>1. new # old
          BY <2>2
        <4> HIDE DEF old
        <4> QED  BY <1>4, <3>2, <4>1 DEF Forgets
      <3>5. left \in Models
        BY <3>2 DEF Forgets
      <3> QED  BY <1>4, <3>3, <3>4, <3>5
    <2> QED  BY <2>1, <2>2
  <1> HIDE DEF left
  <1>6. /\ joined \in Models
        /\ \A r \in Slots, j \in Objects :
              /\ Knows(joined, r, j) <=> Knows(left, r, j) \/ (r = at /\ j = new)
              /\ Holds(joined, r, j) <=> Holds(left, r, j)
    <2>1. CASE new = Null
      BY <1>2, <1>5, <2>1
    <2>2. CASE new # Null
      <3>1. new \in Objects
        BY <2>2
      <3>2. Learns(left, joined, at, new)
        BY <1>2, <1>5, <2>2, <3>1, AddParentFacts
      <3> HIDE DEF joined, at
      <3>3. \A r \in Slots, j \in Objects : Knows(joined, r, j) <=> Knows(left, r, j) \/ (r = at /\ j = new)
        BY <1>5, <3>1, <3>2 DEF Knows, Learns, Models
      <3>4. \A r \in Slots, j \in Objects : Holds(joined, r, j) <=> Holds(left, r, j)
        BY <3>2 DEF Holds, Learns
      <3> QED  BY <3>2, <3>3, <3>4 DEF Learns
    <2> QED  BY <2>1, <2>2
  <1> HIDE DEF joined, at, old
  <1>7. Mirror(joined)
    <2> SUFFICES ASSUME NEW r \in Slots, NEW j \in Objects
                 PROVE  Knows(joined, r, j) <=> Holds(joined, r, j)
      BY DEF Mirror
    <2>1. Knows(m, r, j) <=> Holds(m, r, j)
      BY DEF Mirror
    <2>2. CASE r = at
      BY <1>4, <1>5, <1>6, <2>1, <2>2
    <2>3. CASE r # at
      BY <1>4, <1>5, <1>6, <2>1, <2>3
    <2> QED  BY <2>2, <2>3
  <1>8. q \in Models /\ Mirror(q)
    <2>1. SameGraph(joined, KeyChanged(joined, p, "child", remote))
      BY <1>2, <1>6, KeyChangedSame
    <2> QED  BY <1>6, <1>7, <2>1 DEF SameGraph, Mirror, Knows, Holds
  <1> QED  BY <1>1, <1>8
-----------------------------------------------------------------------------
\* Fragments applied.

\* What others' fragments say: they take children, and give none.
Remote == {f \in [Objects -> Fragments] :
              \A i \in Objects : f[i].child \in {Null, Unset}}

\* A fragment applied to an object.
LEMMA SetPropertiesMirror ==
    ASSUME NEW m \in Models, Mirror(m), NEW i \in Objects, NEW f \in Fragments,
           f.child \in {Null, Unset}, ClientGraphAssumption
    PROVE  LET q == SetProperties(m, i, f)
           IN  q \in Models /\ Mirror(q)
  <1> DEFINE child == IF f.child = Unset THEN m ELSE SetChild(m, i, f.child, TRUE)
  <1>1. child \in Models /\ Mirror(child)
    BY SetChildMirror
  <1>2. SetProperties(m, i, f)
          = IF f.items = Unset THEN child ELSE ResetItems(child, i, f.items, TRUE)
    BY DEF SetProperties
  <1> HIDE DEF child
  <1>3. CASE f.items = Unset
    BY <1>1, <1>2, <1>3
  <1>4. CASE f.items # Unset
    <2>1. f.items \in Seq(Objects)
      BY <1>4 DEF Fragments
    <2> QED  BY <1>1, <1>2, <1>4, <2>1, ResetMirror
  <1> QED  BY <1>3, <1>4

\* The objects that fragments are applied to,
NamedBy(m, fragments) == {i \in Objects :
                            \/ fragments[i].type = "add"
                            \/ fragments[i].type = "change" /\ i \in Attached(m)}

\* one after the other.
IsApplyRun(F, m, fragments) ==
    LET named == SetToSeq(NamedBy(m, fragments))
    IN  /\ F[0] = m
        /\ \A n \in 1..Len(named) :
              /\ F[n - 1] \in Models /\ Mirror(F[n - 1])
              /\ F[n] = SetProperties(F[n - 1], named[n], fragments[named[n]])
        /\ F[Len(named)] \in Models /\ Mirror(F[Len(named)])
        /\ ApplyRemote(m, fragments) = F[Len(named)]

\* The run there is, and with it what applying fragments comes to.
LEMMA ApplyRun ==
    ASSUME NEW m \in Models, Mirror(m), NEW fragments \in Remote, ClientGraphAssumption
    PROVE  \E F : IsApplyRun(F, m, fragments)
  <1> DEFINE Named == NamedBy(m, fragments)
             named == SetToSeq(Named)
             N == Len(named)
             op(a, i) == SetProperties(a, i, fragments[i])
             Good == {a \in Models : Mirror(a)}
             step == [n \in 1..N |-> [a \in Good |-> op(a, named[n])]]
  <1>0. N \in Nat /\ \A n \in 1..N : named[n] \in Objects
    <2>1. Named \in SUBSET Objects
      BY DEF NamedBy
    <2> HIDE DEF Named
    <2>2. IsFiniteSet(Named)
      BY <2>1, ObjectsFinite, FS_Subset
    <2>3. named \in Seq(Named)
      BY <2>2, SetToSeqType
    <2> HIDE DEF named
    <2> QED  BY <2>1, <2>3
  <1> HIDE DEF Named
  <1>1. \A a \in Good, i \in Objects : op(a, i) \in Good
    <2> SUFFICES ASSUME NEW a \in Good, NEW i \in Objects PROVE op(a, i) \in Good
      OBVIOUS
    <2>1. fragments[i] \in Fragments /\ fragments[i].child \in {Null, Unset}
      BY DEF Remote
    <2> QED  BY <2>1, SetPropertiesMirror
  <1>2. ApplyRemote(m, fragments)
          = (CHOOSE f : f = [n \in 0..N |-> IF n = 0 THEN m ELSE op(f[n - 1], named[n])])[N]
    BY DEF ApplyRemote, NamedBy, Named
  <1> HIDE DEF op
  <1>12. m \in Good
    OBVIOUS
  <1> HIDE DEF Good
  <1>3. step \in [1..N -> [Good -> Good]]
    BY <1>0, <1>1
  <1>4. PICK g : IsRun(Good, m, step, N, g)
    <2> HIDE DEF step, N
    <2> QED  BY <1>0, <1>12, <1>3, Iterates
  <1>5. g = [n \in 0..N |-> IF n = 0 THEN m ELSE op(g[n - 1], named[n])]
    <2>1. \A n \in 1..N : n - 1 \in 0..N /\ g[n - 1] \in Good
      BY <1>0, <1>4 DEF IsRun
    <2>2. \A n \in 1..N : g[n] = op(g[n - 1], named[n])
      BY <1>4, <2>1 DEF IsRun
    <2> HIDE DEF step, N
    <2>3. g \in [0..N -> Good] /\ g[0] = m
      BY <1>4 DEF IsRun
    <2>4. \A n \in 0..N : g[n] = IF n = 0 THEN m ELSE op(g[n - 1], named[n])
      <3>1. \A n \in 0..N : n # 0 => n \in 1..N
        BY <1>0
      <3> QED  BY <2>2, <2>3, <3>1
    <2> QED  BY <2>3, <2>4
  <1> DEFINE F == CHOOSE f : f = [n \in 0..N |-> IF n = 0 THEN m ELSE op(f[n - 1], named[n])]
  <1>6. F = [n \in 0..N |-> IF n = 0 THEN m ELSE op(F[n - 1], named[n])]
    BY <1>5
  <1>7. ApplyRemote(m, fragments) = F[N]
    BY <1>2
  <1> HIDE DEF F, step
  <1> DEFINE B == {k \in 0..N : F[k] \in Good}
  <1>8. 0 \in B
    <2>1. F[0] = m
      BY <1>0, <1>6
    <2> QED  BY <1>0, <1>12, <2>1
  <1>9. ASSUME NEW k \in 1..N, k - 1 \in B PROVE k \in B
    <2>1. F[k - 1] \in Good
      BY <1>9
    <2>2. F[k] = op(F[k - 1], named[k])
      <3>1. k \in 0..N /\ k # 0
        BY <1>0
      <3> QED  BY <1>6, <3>1
    <2>3. named[k] \in Objects
      BY <1>0
    <2> QED  BY <1>0, <1>1, <2>1, <2>2, <2>3
  <1> HIDE DEF B
  <1>10. \A k \in 0..N : k \in B
    BY <1>0, <1>8, <1>9, Upwards
  <1>11. \A k \in 0..N : F[k] \in Good
    BY <1>10 DEF B
  <1>13. \A n \in 1..N : F[n - 1] \in Good /\ F[n] = op(F[n - 1], named[n])
    <2> SUFFICES ASSUME NEW n \in 1..N PROVE F[n - 1] \in Good /\ F[n] = op(F[n - 1], named[n])
      OBVIOUS
    <2>1. n - 1 \in 0..N /\ n \in 0..N /\ n # 0
      BY <1>0
    <2> QED  BY <1>6, <1>11, <2>1
  <1>14. F[0] = m /\ F[N] \in Good
    BY <1>0, <1>6, <1>11
  <1>15. IsApplyRun(F, m, fragments)
    BY <1>7, <1>13, <1>14, Zenon DEF IsApplyRun, Good, op, Named
  <1> QED  BY <1>15

\* So the model and its parents are as they should be.
LEMMA ApplyRemoteMirror ==
    ASSUME NEW m \in Models, Mirror(m), NEW fragments \in Remote, ClientGraphAssumption
    PROVE  ApplyRemote(m, fragments) \in Models /\ Mirror(ApplyRemote(m, fragments))
  <1>1. PICK F : IsApplyRun(F, m, fragments)
    BY ApplyRun
  <1> QED  BY <1>1, Zenon DEF IsApplyRun
-----------------------------------------------------------------------------
\* The inductive invariant.  That others only take children is true of the
\* state of the scope because nothing happens to the server before it.

ServerType == /\ server.has \subseteq Objects
              /\ server.child \in [Objects -> Objects \cup {Null}]
              /\ server.items \in [Objects -> Seq(Objects)]

BoundsType == /\ stated \in BOOLEAN
              /\ arrived \subseteq Theirs
              /\ edits \in 0..MaxEdits /\ writes \in 0..MaxWrites

BeforeState == ~stated => /\ toServer = <<>> /\ ~model.changesQueued
                          /\ server \in ServerInits

IInv == /\ model \in Models /\ Mirror(model)
        /\ toServer \in Seq([Objects -> Fragments])
        /\ ServerType /\ BoundsType /\ BeforeState

\* What the server makes of a change set is a state of a server.
LEMMA AppliedType ==
    ASSUME NEW s, s.has \subseteq Objects,
           s.child \in [Objects -> Objects \cup {Null}],
           s.items \in [Objects -> Seq(Objects)],
           NEW fragments \in [Objects -> Fragments], ClientGraphAssumption
    PROVE  LET t == Applied(s, fragments)
           IN  /\ t.has \subseteq Objects
               /\ t.child \in [Objects -> Objects \cup {Null}]
               /\ t.items \in [Objects -> Seq(Objects)]
  <1> DEFINE adds   == {i \in Objects : fragments[i].type = "add"} \ s.has
             known  == s.has \cup adds
             valid  == {i \in Objects : /\ Refs(fragments[i]) \subseteq known
                                        /\ \/ i \in adds
                                           \/ fragments[i].type = "change" /\ i \in s.has}
             child  == [i \in Objects |-> IF i \in valid /\ fragments[i].child # Unset
                                          THEN fragments[i].child ELSE s.child[i]]
             items  == [i \in Objects |-> IF i \in valid /\ fragments[i].items # Unset
                                          THEN fragments[i].items ELSE s.items[i]]
             has    == Walk([child |-> child, items |-> items], Root, known)
  <1>1. Applied(s, fragments)
          = [has   |-> has,
             child |-> [i \in Objects |-> IF i \in has THEN child[i] ELSE Null],
             items |-> [i \in Objects |-> IF i \in has THEN items[i] ELSE <<>>]]
    BY DEF Applied
  <1>2. known \subseteq Objects
    OBVIOUS
  <1> HIDE DEF known, valid
  <1>3. child \in [Objects -> Objects \cup {Null}] /\ items \in [Objects -> Seq(Objects)]
    <2>1. \A i \in Objects : fragments[i].child # Unset => fragments[i].child \in Objects \cup {Null}
      BY DEF Fragments
    <2>2. \A i \in Objects : fragments[i].items # Unset => fragments[i].items \in Seq(Objects)
      BY DEF Fragments
    <2> QED  BY <2>1, <2>2
  <1> HIDE DEF child, items
  <1>4. has \subseteq Objects
    BY <1>2, WalkType
  <1> HIDE DEF has
  <1>5. <<>> \in Seq(Objects)
    OBVIOUS
  <1> QED  BY <1>1, <1>3, <1>4, <1>5

\* The initial states.
LEMMA InitIInv ==
    ASSUME ClientGraphAssumption, Init
    PROVE  IInv
  <1>1. <<>> \in Seq(Objects) /\ Root \in Objects /\ Null \notin Objects
    BY DEF Objects, ClientGraphAssumption
  <1>2. NoFragment \in Fragments
    BY DEF NoFragment, Fragments
  <1>3. model \in Models
    BY <1>1, <1>2 DEF Init, Models, NoFragments, ScopeIds
  <1>4. Mirror(model)
    BY <1>1 DEF Init, Mirror, Knows, Holds, Slots, Contains
  <1>5. ServerType /\ arrived \subseteq Theirs
    <2>1. CASE server = [has |-> {Root}, child |-> [i \in Objects |-> Null],
                         items |-> [i \in Objects |-> <<>>]]
      BY <1>1, <2>1 DEF Init, ServerType
    <2>2. ASSUME NEW x \in Theirs,
                 server = [has |-> {Root, x}, child |-> [i \in Objects |-> Null],
                           items |-> [i \in Objects |-> IF i = Root THEN <<x>> ELSE <<>>]]
          PROVE  ServerType /\ arrived \subseteq Theirs
      <3>1. x \in Objects /\ <<x>> \in Seq(Objects)
        BY DEF Objects
      <3> QED  BY <1>1, <2>2, <3>1 DEF Init, ServerType
    <2> QED  BY <2>1, <2>2 DEF Init, ServerInits
  <1>6. BoundsType
    <2>1. MaxEdits \in Nat /\ MaxWrites \in Nat
      BY DEF ClientGraphAssumption
    <2>2. edits = 0 /\ writes = 0 /\ stated = FALSE
      BY Zenon DEF Init
    <2>3. edits \in 0..MaxEdits /\ writes \in 0..MaxWrites
      BY <2>1, <2>2
    <2>4. stated \in BOOLEAN
      BY <2>2, Zenon
    <2> QED  BY <1>5, <2>3, <2>4, Zenon DEF BoundsType
  <1>7. BeforeState /\ toServer \in Seq([Objects -> Fragments])
    BY DEF Init, BeforeState
  <1> QED  BY <1>3, <1>4, <1>5, <1>6, <1>7 DEF IInv

\* The state of the scope arrives.
LEMMA OnScopeStateIInv ==
    ASSUME ClientGraphAssumption, IInv, OnScopeState
    PROVE  IInv'
  <1> DEFINE add(i) == [type |-> "add", child |-> server.child[i], items |-> server.items[i]]
             fragments == [i \in Objects |-> IF i \in server.has THEN add(i) ELSE NoFragment]
  <1>1. server \in ServerInits /\ ServerType
    BY DEF IInv, BeforeState, OnScopeState
  <1>2. \A i \in Objects : server.child[i] = Null
    BY <1>1 DEF ServerInits
  <1>3. \A i \in Objects : add(i) \in Fragments /\ add(i).child = Null
    BY <1>1, <1>2 DEF ServerType, Fragments
  <1>4. NoFragment \in Fragments /\ NoFragment.child = Unset
    BY DEF NoFragment, Fragments
  <1>5. model' = ApplyRemote(model, fragments)
    BY DEF OnScopeState
  <1> HIDE DEF add
  <1>6. fragments \in Remote
    BY <1>3, <1>4 DEF Remote
  <1> HIDE DEF fragments
  <1>7. model' \in Models /\ Mirror(model')
    BY <1>5, <1>6, ApplyRemoteMirror DEF IInv
  <1>8. stated' = TRUE /\ UNCHANGED <<toServer, server, arrived, edits, writes>>
    BY DEF OnScopeState
  <1> QED  BY <1>7, <1>8 DEF IInv, ServerType, BoundsType, BeforeState, Mirror, Knows, Holds

\* Whatever the application does: the other variables, but for the count,
\* stay.
LEMMA EditIInv ==
    ASSUME ClientGraphAssumption, IInv, NEW p, NEW puts, NEW takes, NEW after,
           Edit(p, puts, takes, after), after \in Models, Mirror(after)
    PROVE  IInv'
  <1>1. /\ model' = after /\ stated /\ edits < MaxEdits /\ edits' = edits + 1
        /\ UNCHANGED <<stated, toServer, server, arrived, writes>>
    BY DEF Edit
  <1>2. edits' \in 0..MaxEdits
    BY <1>1 DEF IInv, BoundsType, ClientGraphAssumption
  <1>3. model' \in Models /\ Mirror(model')
    <2>1. Mirror(model') <=> Mirror(after)
      BY <1>1 DEF Mirror, Knows, Holds
    <2> QED  BY <1>1, <2>1
  <1> QED  BY <1>1, <1>2, <1>3 DEF IInv, ServerType, BoundsType, BeforeState

\* It sets a property,
LEMMA EditChildIInv ==
    ASSUME ClientGraphAssumption, IInv, NEW p \in Objects, EditChild(p)
    PROVE  IInv'
  <1>1. PICK i \in Holdable(p) \cup {Null} :
           Edit(p, {i} \ {Null}, {model.child[p]} \ {Null}, SetChild(model, p, i, FALSE))
    BY DEF EditChild
  <1>2. i \in Objects \cup {Null} /\ Null \notin Objects
    BY DEF Holdable, Seen, Objects, IInv, BoundsType, ClientGraphAssumption
  <1>3. i # model.child[p] \/ i = Null
    <2> SUFFICES ASSUME i = model.child[p], i # Null PROVE FALSE
      OBVIOUS
    <2>1. ({i} \ {Null}) \cap Below(model, i) = {}
      BY <1>1 DEF Edit, Discipline
    <2> QED  BY <1>2, <2>1, BelowSelf
  <1>4. SetChild(model, p, i, FALSE) \in Models /\ Mirror(SetChild(model, p, i, FALSE))
    BY <1>2, <1>3, SetChildMirror DEF IInv
  <1> QED  BY <1>1, <1>4, EditIInv

\* or changes a collection,
LEMMA EditItemsIInv ==
    ASSUME ClientGraphAssumption, IInv, NEW p \in Objects, EditItems(p)
    PROVE  IInv'
  <1> DEFINE items == model.items[p]
  <1>1. items \in Seq(Objects) /\ Len(items) \in Nat
    BY DEF IInv, Models
  <1>2. \A i \in Holdable(p) : i \in Objects /\ <<i>> \in Seq(Objects)
    BY DEF Holdable, Seen, Objects, IInv, BoundsType
  <1>3. ASSUME NEW start \in Nat, NEW count \in Nat, start + count <= Len(items),
               NEW new \in Seq(Objects)
        PROVE  /\ SpliceItems(model, p, start, count, new, FALSE) \in Models
               /\ Mirror(SpliceItems(model, p, start, count, new, FALSE))
    BY <1>3, SpliceMirror DEF IInv
  <1>4. ASSUME NEW i \in Holdable(p), Edit(p, {i}, {}, PushItem(model, p, i)) PROVE IInv'
    <2>1. PushItem(model, p, i) \in Models /\ Mirror(PushItem(model, p, i))
      <3>1. PushItem(model, p, i) = SpliceItems(model, p, Len(items), 0, <<i>>, FALSE)
        BY DEF PushItem
      <3>2. <<i>> \in Seq(Objects) /\ Len(items) \in Nat /\ 0 \in Nat /\ Len(items) + 0 <= Len(items)
        BY <1>1, <1>2
      <3> QED  BY <1>3, <3>1, <3>2
    <2> QED  BY <1>4, <2>1, EditIInv
  <1>5. ASSUME NEW i \in Holdable(p), Edit(p, {i}, {}, UnshiftItem(model, p, i)) PROVE IInv'
    <2>1. UnshiftItem(model, p, i) \in Models /\ Mirror(UnshiftItem(model, p, i))
      <3>1. UnshiftItem(model, p, i) = SpliceItems(model, p, 0, 0, <<i>>, FALSE)
        BY DEF UnshiftItem
      <3>2. <<i>> \in Seq(Objects) /\ 0 \in Nat /\ 0 \in Nat /\ 0 + 0 <= Len(items)
        BY <1>1, <1>2
      <3> QED  BY <1>3, <3>1, <3>2
    <2> QED  BY <1>5, <2>1, EditIInv
  <1>6. ASSUME NEW i \in Holdable(p), NEW k \in DOMAIN items,
               Edit(p, {i}, {items[k]}, SpliceItems(model, p, k - 1, 1, <<i>>, FALSE))
        PROVE  IInv'
    <2>1. k - 1 \in Nat /\ (k - 1) + 1 <= Len(items)
      BY <1>1
    <2>2. /\ SpliceItems(model, p, k - 1, 1, <<i>>, FALSE) \in Models
          /\ Mirror(SpliceItems(model, p, k - 1, 1, <<i>>, FALSE))
      BY <1>2, <1>3, <2>1
    <2> QED  BY <1>6, <2>2, EditIInv
  <1>7. KeyChanged(model, p, "items", FALSE) \in Models
        /\ Mirror(KeyChanged(model, p, "items", FALSE))
    <2>1. SameGraph(model, KeyChanged(model, p, "items", FALSE))
      BY KeyChangedSame DEF IInv, Keys
    <2> QED  BY <2>1 DEF IInv, SameGraph, Mirror, Knows, Holds
  <1>8. items # <<>> => Len(items) - 1 \in Nat /\ (Len(items) - 1) + 1 <= Len(items)
                        /\ 0 + 1 <= Len(items) /\ <<>> \in Seq(Objects)
    BY <1>1
  <1>9. /\ PopItem(model, p) \in Models /\ Mirror(PopItem(model, p))
        /\ ShiftItem(model, p) \in Models /\ Mirror(ShiftItem(model, p))
    <2>1. CASE items = <<>>
      BY <1>7, <2>1 DEF PopItem, ShiftItem
    <2>2. CASE items # <<>>
      BY <1>3, <1>8, <2>2 DEF PopItem, ShiftItem
    <2> QED  BY <2>1, <2>2
  <1>10. ASSUME NEW n \in 0..2, NEW new \in [1..n -> Holdable(p)],
                Edit(p, ToSet(new) \ ToSet(items), ToSet(items) \ ToSet(new),
                     ResetItems(model, p, new, FALSE))
         PROVE  IInv'
    <2>1. new \in Seq(Objects)
      <3>1. new \in [1..n -> Objects]
        BY <1>2
      <3> QED  BY <3>1
    <2>2. ResetItems(model, p, new, FALSE) \in Models /\ Mirror(ResetItems(model, p, new, FALSE))
      BY <2>1, ResetMirror DEF IInv
    <2> QED  BY <1>10, <2>2, EditIInv
  <1>11. ASSUME NEW takes, Edit(p, {}, takes, PopItem(model, p)) PROVE IInv'
    BY <1>9, <1>11, EditIInv
  <1>12. ASSUME NEW takes, Edit(p, {}, takes, ShiftItem(model, p)) PROVE IInv'
    BY <1>9, <1>12, EditIInv
  <1> QED  BY <1>4, <1>5, <1>6, <1>10, <1>11, <1>12 DEF EditItems

\* or detaches an object.
LEMMA EditDetachIInv ==
    ASSUME ClientGraphAssumption, IInv, NEW i \in Objects, EditDetach(i)
    PROVE  IInv'
  <1>1. Detach(model, i) \in Models /\ Mirror(Detach(model, i))
    BY DetachMirror DEF IInv
  <1> QED  BY <1>1, EditIInv DEF EditDetach

\* The timer fires.
LEMMA SendChangesIInv ==
    ASSUME ClientGraphAssumption, IInv, SendChanges
    PROVE  IInv'
  <1>1. stated /\ model \in Models
    BY DEF IInv, BoundsType, BeforeState, SendChanges
  <1>2. model.fragments \in [Objects -> Fragments] /\ NoFragments \in [Objects -> Fragments]
    BY <1>1 DEF Models, NoFragments, NoFragment, Fragments
  <1>3. model' = [model EXCEPT !.changesQueued = FALSE, !.fragments = NoFragments,
                               !.removed = {}]
    BY DEF SendChanges
  <1>4. SameGraph(model, model')
    BY <1>1, <1>2, <1>3 DEF SameGraph, Models
  <1>5. model' \in Models /\ Mirror(model')
    BY <1>4 DEF IInv, SameGraph, Mirror, Knows, Holds
  <1>6. toServer' \in Seq([Objects -> Fragments])
    BY <1>2 DEF IInv, SendChanges
  <1>7. UNCHANGED <<stated, server, arrived, edits, writes>>
    BY DEF SendChanges
  <1> QED  BY <1>1, <1>5, <1>6, <1>7 DEF IInv, ServerType, BoundsType, BeforeState

\* The server takes a change set.
LEMMA ServerAppliesIInv ==
    ASSUME ClientGraphAssumption, IInv, ServerApplies
    PROVE  IInv'
  <1>1. stated /\ toServer # <<>> /\ UNCHANGED <<model, stated, arrived, edits, writes>>
    BY DEF IInv, BoundsType, BeforeState, ServerApplies
  <1>2. Head(toServer) \in [Objects -> Fragments] /\ Tail(toServer) \in Seq([Objects -> Fragments])
    BY <1>1 DEF IInv
  <1>3. server' = Applied(server, Head(toServer)) /\ toServer' = Tail(toServer)
    BY DEF ServerApplies
  <1>4. ServerType'
    BY <1>2, <1>3, AppliedType DEF IInv, ServerType
  <1> QED  BY <1>1, <1>2, <1>3, <1>4 DEF IInv, BoundsType, BeforeState, Mirror, Knows, Holds

\* What others write of an object is a fragment of theirs.
LEMMA WritesRemote ==
    ASSUME ClientGraphAssumption, ServerType, arrived \subseteq Theirs,
           NEW p \in Objects, NEW fragments \in Writes(p)
    PROVE  fragments \in Remote
  <1>1. /\ Null \notin Objects /\ NoFragment \in Fragments
        /\ NoFragment.child = Unset /\ NoFragments = [i \in Objects |-> NoFragment]
    BY DEF NoFragment, NoFragments, Fragments, ClientGraphAssumption
  <1>2. server.items[p] \in Seq(Objects)
    BY DEF ServerType
  <1> DEFINE take == [NoFragment EXCEPT !.type = "change", !.child = Null]
             fewer == [NoFragment EXCEPT !.type = "change", !.items = Tail(server.items[p])]
             more(x) == [NoFragment EXCEPT !.type = "change", !.items = Append(server.items[p], x)]
             made == [type |-> "add", child |-> Null, items |-> <<>>]
  <1>3. take \in Fragments /\ take.child = Null
    BY DEF NoFragment, Fragments
  <1>4. 1 \in DOMAIN server.items[p] => fewer \in Fragments /\ fewer.child = Unset
    <2> SUFFICES ASSUME 1 \in DOMAIN server.items[p]
                 PROVE  fewer \in Fragments /\ fewer.child = Unset
      OBVIOUS
    <2>1. Tail(server.items[p]) \in Seq(Objects)
      BY <1>2
    <2> QED  BY <2>1 DEF NoFragment, Fragments
  <1>5. \A x \in Objects : more(x) \in Fragments /\ more(x).child = Unset
    <2> SUFFICES ASSUME NEW x \in Objects PROVE more(x) \in Fragments /\ more(x).child = Unset
      OBVIOUS
    <2>1. Append(server.items[p], x) \in Seq(Objects)
      BY <1>2
    <2> QED  BY <2>1 DEF NoFragment, Fragments
  <1>6. made \in Fragments /\ made.child = Null
    BY DEF Fragments
  <1>7. \/ fragments = [NoFragments EXCEPT ![p] = take]
        \/ 1 \in DOMAIN server.items[p] /\ fragments = [NoFragments EXCEPT ![p] = fewer]
        \/ \E x \in Theirs : fragments = [NoFragments EXCEPT ![p] = more(x), ![x] = made]
    BY DEF Writes
  <1> HIDE DEF take, fewer, more, made
  <1>8. \A x \in Theirs : x \in Objects
    BY DEF Objects
  <1> QED  BY <1>1, <1>3, <1>4, <1>5, <1>6, <1>7, <1>8 DEF Remote

\* Others write, and the sync arrives.
LEMMA OnScopeSyncIInv ==
    ASSUME ClientGraphAssumption, IInv, NEW p \in Objects, NEW fragments \in Writes(p),
           OnScopeSync(p, fragments)
    PROVE  IInv'
  <1>1. /\ stated /\ writes < MaxWrites /\ writes' = writes + 1
        /\ server' = Applied(server, fragments)
        /\ arrived' = arrived \cup (server'.has \ ({Root} \cup Mine))
        /\ model' = ApplyRemote(model, fragments)
        /\ UNCHANGED <<stated, toServer, edits>>
    BY DEF OnScopeSync
  <1>2. fragments \in Remote
    BY WritesRemote DEF IInv, BoundsType
  <1>3. model' \in Models /\ Mirror(model')
    <2>1. /\ ApplyRemote(model, fragments) \in Models
          /\ Mirror(ApplyRemote(model, fragments))
      BY <1>2, ApplyRemoteMirror DEF IInv
    <2> QED  BY <1>1, <2>1 DEF Mirror, Knows, Holds
  <1>4. ServerType'
    <2>1. fragments \in [Objects -> Fragments]
      BY <1>2 DEF Remote
    <2> QED  BY <1>1, <2>1, AppliedType DEF IInv, ServerType
  <1>5. BoundsType'
    <2>1. arrived' \subseteq Theirs
      BY <1>1, <1>4 DEF IInv, BoundsType, ServerType, Objects
    <2>2. writes' \in 0..MaxWrites
      BY <1>1 DEF IInv, BoundsType, ClientGraphAssumption
    <2> QED  BY <1>1, <2>1, <2>2 DEF IInv, BoundsType
  <1> QED  BY <1>1, <1>3, <1>4, <1>5 DEF IInv, BeforeState

\* Every step keeps the invariant.
LEMMA NextIInv ==
    ASSUME ClientGraphAssumption, IInv, [Next]_vars
    PROVE  IInv'
  <1>1. Seen \subseteq Objects
    BY DEF Seen, Objects, IInv, BoundsType
  <1>2. CASE OnScopeState
    BY <1>2, OnScopeStateIInv
  <1>3. ASSUME NEW p \in Seen, EditChild(p) \/ EditItems(p) \/ EditDetach(p)
        PROVE  IInv'
    BY <1>1, <1>3, EditChildIInv, EditItemsIInv, EditDetachIInv
  <1>4. CASE SendChanges
    BY <1>4, SendChangesIInv
  <1>5. CASE ServerApplies
    BY <1>5, ServerAppliesIInv
  <1>6. ASSUME NEW p \in server.has, NEW fragments \in Writes(p), OnScopeSync(p, fragments)
        PROVE  IInv'
    <2>1. p \in Objects
      BY DEF IInv, ServerType
    <2> QED  BY <1>6, <2>1, OnScopeSyncIInv
  <1>7. CASE UNCHANGED vars
    BY <1>7 DEF vars, IInv, ServerType, BoundsType, BeforeState, Mirror, Knows, Holds
  <1> QED  BY <1>2, <1>3, <1>4, <1>5, <1>6, <1>7 DEF Next

\* The invariant holds of every state of every behaviour.
LEMMA Invariant == Spec => []IInv
  <1>1. Init => IInv
    BY InitIInv, ClientGraphAssumption
  <1>2. IInv /\ [Next]_vars => IInv'
    BY NextIInv, ClientGraphAssumption
  <1> QED  BY <1>1, <1>2, PTL DEF Spec
-----------------------------------------------------------------------------
\* The objects of the client and of the server keep their types: no property
\* is left undefined by setters, collections, detaching and fragments.
THEOREM TypeCorrect == Spec => []TypeOK
  <1>1. IInv => TypeOK
    BY DEF IInv, TypeOK, Models, ServerType, BoundsType, Links, Slots, ScopeIds
  <1> QED  BY <1>1, Invariant, PTL

\* Whatever the application sets, splices, resets and detaches and whatever
\* others take from it and add to it, an object knows as its parents exactly
\* those whose property or collection holds it.
THEOREM ParentsAgree == Spec => []ParentsMirror
  <1>1. Mirror(model) => ParentsMirror
    <2> SUFFICES ASSUME Mirror(model), NEW p \in Objects, NEW i \in Objects
                 PROVE  /\ <<p, "child">> \in model.parents[i] <=> model.child[p] = i
                        /\ <<p, "items">> \in model.parents[i] <=> Contains(model.items[p], i)
      BY DEF ParentsMirror
    <2>1. <<p, "child">> \in Slots /\ <<p, "items">> \in Slots
      BY DEF Slots, Keys
    <2> QED  BY <2>1 DEF Mirror, Knows, Holds
  <1>2. IInv => ParentsMirror
    BY <1>1 DEF IInv
  <1> QED  BY <1>2, Invariant, PTL
-----------------------------------------------------------------------------
\* Walks.

\* A walk has its beginning, and where it may go from what it has.
LEMMA WalkClosed ==
    ASSUME NEW g, NEW i, NEW W, i \in W
    PROVE  /\ i \in Walk(g, i, W)
           /\ \A k \in Walk(g, i, W), j \in W : j \in Children(g, k) => j \in Walk(g, i, W)
  <1> DEFINE links  == UNION {{k} \X (Children(g, k) \cap W) : k \in W}
             closed == {S \in SUBSET W : /\ i \in W => i \in S
                                         /\ \A l \in links : l[1] \in S => l[2] \in S}
  <1>1. Walk(g, i, W) = {j \in W : \A S \in closed : j \in S}
    BY DEF Walk
  <1>2. \A S \in closed : i \in S
    OBVIOUS
  <1>3. \A k \in W, j \in W : j \in Children(g, k) => <<k, j>> \in links
    OBVIOUS
  <1> HIDE DEF links
  <1>4. \A S \in closed, k \in W, j \in W : k \in S /\ j \in Children(g, k) => j \in S
    BY <1>3
  <1> HIDE DEF closed
  <1> QED  BY <1>1, <1>2, <1>4

\* It has nothing else: it is in any set that has that.
LEMMA WalkLeast ==
    ASSUME NEW g, NEW i, NEW W, NEW S, S \subseteq W, i \in W => i \in S,
           \A k \in S, j \in W : j \in Children(g, k) => j \in S
    PROVE  Walk(g, i, W) \subseteq S
  <1> DEFINE links  == UNION {{k} \X (Children(g, k) \cap W) : k \in W}
             closed == {T \in SUBSET W : /\ i \in W => i \in T
                                         /\ \A l \in links : l[1] \in T => l[2] \in T}
  <1>1. Walk(g, i, W) = {j \in W : \A T \in closed : j \in T}
    BY DEF Walk
  <1>2. \A l \in links : \E k \in W : l[1] = k /\ l[2] \in Children(g, k) \cap W
    OBVIOUS
  <1> HIDE DEF links
  <1>3. S \in closed
    BY <1>2
  <1> HIDE DEF closed
  <1> QED  BY <1>1, <1>3

\* The same of what is below an object.
LEMMA BelowClosed ==
    ASSUME NEW g, NEW i \in Objects
    PROVE  /\ Below(g, i) \subseteq Objects /\ i \in Below(g, i)
           /\ \A k \in Below(g, i), j \in Objects : j \in Children(g, k) => j \in Below(g, i)
  BY WalkClosed, WalkType DEF Below

\* A set that has the object and all that its members hold has all below it.
LEMMA BelowLeast ==
    ASSUME NEW g, NEW i \in Objects, NEW S, S \subseteq Objects, i \in S,
           \A k \in S, j \in Objects : j \in Children(g, k) => j \in S
    PROVE  Below(g, i) \subseteq S
  BY WalkLeast DEF Below

\* What is below an object depends on nothing else.
LEMMA BelowAlike ==
    ASSUME NEW g, NEW h, NEW i \in Objects,
           \A k \in Below(g, i) : Children(h, k) = Children(g, k)
    PROVE  Below(h, i) = Below(g, i)
  <1> DEFINE X == Below(g, i)
             Y == Below(h, i)
  <1>1. /\ X \subseteq Objects /\ i \in X
        /\ \A k \in X, j \in Objects : j \in Children(g, k) => j \in X
    BY BelowClosed
  <1>2. /\ Y \subseteq Objects /\ i \in Y
        /\ \A k \in Y, j \in Objects : j \in Children(h, k) => j \in Y
    BY BelowClosed
  <1>3. Y \subseteq X
    <2>1. \A k \in X, j \in Objects : j \in Children(h, k) => j \in X
      BY <1>1
    <2> HIDE DEF X
    <2> QED  BY <1>1, <2>1, BelowLeast
  <1>4. X \subseteq Y
    <2>1. \A k \in Y, j \in Objects : j \in Children(g, k) => j \in Y
      BY <1>2, <1>3
    <2> HIDE DEF Y
    <2> QED  BY <1>2, <2>1, BelowLeast
  <1> QED  BY <1>3, <1>4

\* Whatever is below an object but itself is held by something below it.
LEMMA BelowHeld ==
    ASSUME NEW g, NEW i \in Objects, NEW j \in Below(g, i), j # i
    PROVE  \E k \in Below(g, i) : j \in Children(g, k)
  <1> DEFINE X == Below(g, i)
  <1> SUFFICES ASSUME \A k \in X : j \notin Children(g, k) PROVE FALSE
    OBVIOUS
  <1>1. /\ X \subseteq Objects /\ i \in X
        /\ \A k \in X, l \in Objects : l \in Children(g, k) => l \in X
    BY BelowClosed
  <1>2. \A k \in X \ {j}, l \in Objects : l \in Children(g, k) => l \in X \ {j}
    BY <1>1
  <1>3. X \ {j} \subseteq Objects /\ i \in X \ {j}
    BY <1>1
  <1> DEFINE S == X \ {j}
  <1>4. Below(g, i) \subseteq S
    <2> HIDE DEF S, X
    <2> QED  BY <1>2, <1>3, BelowLeast DEF S
  <1> QED  BY <1>4

\* A walk that may go anywhere it gets to has all that is below.
LEMMA WalkIsBelow ==
    ASSUME NEW g, NEW i \in Objects, NEW W, W \subseteq Objects, Below(g, i) \subseteq W
    PROVE  Walk(g, i, W) = Below(g, i)
  <1> DEFINE X == Below(g, i)
             Y == Walk(g, i, W)
  <1>1. /\ X \subseteq Objects /\ i \in X
        /\ \A k \in X, j \in Objects : j \in Children(g, k) => j \in X
    BY BelowClosed
  <1>2. /\ i \in Y /\ Y \subseteq W
        /\ \A k \in Y, j \in W : j \in Children(g, k) => j \in Y
    BY <1>1, WalkClosed, WalkType
  <1>3. Y \subseteq X
    <2>1. \A k \in X, j \in W : j \in Children(g, k) => j \in X
      BY <1>1
    <2> HIDE DEF X
    <2> QED  BY <1>1, <2>1, WalkLeast DEF X
  <1>4. X \subseteq Y
    <2>1. \A k \in Y, j \in Objects : j \in Children(g, k) => j \in Y
      <3> SUFFICES ASSUME NEW k \in Y, NEW j \in Objects, j \in Children(g, k) PROVE j \in Y
        OBVIOUS
      <3>1. j \in X
        BY <1>1, <1>3
      <3> QED  BY <1>2, <3>1
    <2>2. Y \subseteq Objects
      BY <1>2
    <2> HIDE DEF Y
    <2> QED  BY <1>2, <2>1, <2>2, BelowLeast
  <1> QED  BY <1>3, <1>4

\* All below an object have what it has, if it is handed down.
LEMMA HandedDown ==
    ASSUME NEW g, NEW i \in Objects, NEW S, i \in S,
           \A k \in Below(g, i), j \in Objects : j \in Children(g, k) /\ k \in S => j \in S
    PROVE  Below(g, i) \subseteq S
  <1> DEFINE X == Below(g, i)
             T == X \cap S
  <1>1. /\ X \subseteq Objects /\ i \in X
        /\ \A k \in X, j \in Objects : j \in Children(g, k) => j \in X
    BY BelowClosed
  <1>2. \A k \in T, j \in Objects : j \in Children(g, k) => j \in T
    BY <1>1
  <1>3. T \subseteq Objects /\ i \in T
    BY <1>1
  <1>4. Below(g, i) \subseteq T
    <2> HIDE DEF T, X
    <2> QED  BY <1>2, <1>3, BelowLeast
  <1> QED  BY <1>4
-----------------------------------------------------------------------------
\* What setScope does to the scope.

In(m, i) == m.scope[i] = "scope"

\* In q the objects X are not in the scope: those that were leave it.
Left(m, q, X) ==
    /\ SameGraph(m, q)
    /\ \A j \in Objects : In(q, j) <=> In(m, j) /\ j \notin X
    /\ \A j \in Objects : j \in q.removed <=> j \in m.removed \/ (j \in X /\ In(m, j))
    /\ \A j \in Objects : q.fragments[j] = IF j \in X /\ In(m, j) THEN NoFragment
                                           ELSE m.fragments[j]
    /\ q.changesQueued = m.changesQueued

\* In q the objects X have joined the scope.
News(m, X, remote) == {j \in X \ m.removed : m.parents[j] # {} /\ ~remote}

Joined(m, q, X, remote) ==
    /\ SameGraph(m, q)
    /\ \A j \in Objects : In(q, j) <=> In(m, j) \/ j \in X
    /\ q.removed = m.removed \ X
    /\ \A j \in Objects : q.fragments[j] =
          IF j \in News(m, X, remote)
          THEN [type |-> "add", child |-> m.child[j], items |-> m.items[j]]
          ELSE m.fragments[j]
    /\ q.changesQueued = (m.changesQueued \/ News(m, X, remote) # {})

\* An object leaves with all below it, if these are in the scope as it is.
LEMMA Leaves ==
    ASSUME NEW m \in Models, NEW i \in Objects, NEW s \in {"none", "left"},
           NEW remote \in BOOLEAN, \A j \in Below(m, i) : In(m, j) <=> In(m, i)
    PROVE  Left(m, SetScope(m, i, s, remote), Below(m, i))
  <1> DEFINE X == Below(m, i)
             W == {j \in Objects : m.scope[j] # s}
             changed == Walk(m, i, W)
             gone    == {j \in changed : m.scope[j] = "scope"}
             left    == RemoveModel(m, gone)
             q == [left EXCEPT !.scope = [j \in Objects |-> IF j \in changed THEN s ELSE @[j]]]
  <1>0. SameGraph(m, SetScope(m, i, s, remote))
    BY SetScopeSame DEF ScopeIds
  <1>1. SetScope(m, i, s, remote) = q
    BY DEF SetScope
  <1>2. /\ X \subseteq Objects /\ i \in X
        /\ \A k \in X, j \in Objects : j \in Children(m, k) => j \in X
    BY BelowClosed
  <1>3. \A j \in Objects : In(m, j) => (j \in changed <=> j \in X)
    <2>1. CASE In(m, i)
      <3>1. X \subseteq W
        BY <1>2, <2>1 DEF In
      <3>2. changed = X
        BY <3>1, WalkIsBelow
      <3> QED  BY <3>2
    <2>2. CASE ~In(m, i)
      <3>1. changed \subseteq X \cap W
        <4> DEFINE S == X \cap W
        <4>1. S \subseteq W /\ (i \in W => i \in S)
              /\ \A k \in S, j \in W : j \in Children(m, k) => j \in S
          BY <1>2
        <4> HIDE DEF S, W, X
        <4> QED  BY <4>1, WalkLeast DEF S
      <3>2. \A j \in X : ~In(m, j)
        BY <2>2
      <3> HIDE DEF X, W, changed
      <3> QED  BY <3>1, <3>2
    <2> QED  BY <2>1, <2>2
  <1>4. changed \subseteq Objects
    BY WalkType
  <1> HIDE DEF changed, X, W
  <1>5. \A j \in Objects : j \in gone <=> j \in X /\ In(m, j)
    BY <1>3, <1>4 DEF In
  <1>6. gone \subseteq Objects
    BY <1>4
  <1> HIDE DEF gone
  <1>7. /\ left.scope = m.scope /\ left.changesQueued = m.changesQueued
        /\ left.removed = m.removed \cup gone
        /\ left.fragments = [j \in Objects |-> IF j \in gone THEN NoFragment ELSE m.fragments[j]]
        /\ left \in Models
    <2>1. left \in Models
      BY <1>6, RemoveModelSame DEF SameGraph
    <2> QED  BY <2>1 DEF RemoveModel, Models
  <1> HIDE DEF left
  <1>8. /\ q.scope = [j \in Objects |-> IF j \in changed THEN s ELSE m.scope[j]]
        /\ q.changesQueued = left.changesQueued /\ q.removed = left.removed
        /\ q.fragments = left.fragments
    BY <1>7 DEF Models
  <1> HIDE DEF q
  <1>9. \A j \in Objects : In(q, j) <=> In(m, j) /\ j \notin X
    BY <1>3, <1>8 DEF In
  <1> QED  BY <1>0, <1>1, <1>5, <1>7, <1>8, <1>9 DEF Left, X

\* An object joins with all below it, if none of these is in the scope.
LEMMA Joins ==
    ASSUME NEW m \in Models, NEW i \in Objects, NEW remote \in BOOLEAN,
           \A j \in Below(m, i) : ~In(m, j)
    PROVE  Joined(m, SetScope(m, i, "scope", remote), Below(m, i), remote)
  <1> DEFINE X == Below(m, i)
             W == {j \in Objects : m.scope[j] # "scope"}
             changed == Walk(m, i, W)
             gone    == {j \in changed : m.scope[j] = "scope"}
             left    == RemoveModel(m, gone)
             joined  == AddModel(left, changed, remote)
             q == [joined EXCEPT !.scope = [j \in Objects |-> IF j \in changed THEN "scope" ELSE @[j]]]
  <1>0. SameGraph(m, SetScope(m, i, "scope", remote))
    BY SetScopeSame DEF ScopeIds
  <1>1. SetScope(m, i, "scope", remote) = q
    BY DEF SetScope
  <1>2. X \subseteq Objects
    BY BelowClosed
  <1>3. changed = X
    <2>1. X \subseteq W
      BY <1>2 DEF In
    <2> QED  BY <2>1, WalkIsBelow
  <1>4. gone = {}
    <2> HIDE DEF changed
    <2> QED  BY <1>3 DEF In
  <1> HIDE DEF changed, X, W, gone
  <1>5. left \in Models
    BY <1>4, RemoveModelSame DEF SameGraph
  <1>6. /\ left.scope = m.scope /\ left.changesQueued = m.changesQueued
        /\ left.removed = m.removed /\ left.parents = m.parents
        /\ left.child = m.child /\ left.items = m.items
        /\ \A j \in Objects : left.fragments[j] = m.fragments[j]
    BY <1>4, <1>5 DEF RemoveModel, Models
  <1> HIDE DEF left
  <1>7. News(left, X, remote) = News(m, X, remote)
    BY <1>6 DEF News
  <1>8. /\ joined \in Models /\ joined.scope = left.scope
        /\ joined.removed = left.removed \ X
        /\ joined.changesQueued = (left.changesQueued \/ News(left, X, remote) # {})
        /\ \A j \in Objects : joined.fragments[j] =
              IF j \in News(left, X, remote)
              THEN [type |-> "add", child |-> left.child[j], items |-> left.items[j]]
              ELSE left.fragments[j]
    <2>1. joined \in Models
      BY <1>2, <1>3, <1>5, AddModelSame DEF SameGraph
    <2> QED  BY <1>3, <1>5, <2>1 DEF AddModel, News, Models
  <1> HIDE DEF joined
  <1>9. /\ q.scope = [j \in Objects |-> IF j \in X THEN "scope" ELSE m.scope[j]]
        /\ q.changesQueued = joined.changesQueued /\ q.removed = joined.removed
        /\ q.fragments = joined.fragments
    BY <1>3, <1>6, <1>8 DEF Models
  <1> HIDE DEF q
  <1>10. \A j \in Objects : In(q, j) <=> In(m, j) \/ j \in X
    BY <1>9 DEF In
  <1>11. \A j \in Objects : q.fragments[j] =
             IF j \in News(m, X, remote)
             THEN [type |-> "add", child |-> m.child[j], items |-> m.items[j]]
             ELSE m.fragments[j]
    BY <1>6, <1>7, <1>8, <1>9
  <1> QED  BY <1>0, <1>1, <1>6, <1>7, <1>8, <1>9, <1>10, <1>11 DEF Joined, X
-----------------------------------------------------------------------------
\* The scope while a setter is under way.

\* Nothing is below itself, whichever side tells of it: parents rank lower.
Sorted(m, rank) == \A r \in Slots, j \in Objects :
                      Holds(m, r, j) \/ Knows(m, r, j) => rank[r[1]] < rank[j]

\* An object is in the scope if what holds it is, and else is not: but for
\* the root, which nothing holds.
Uniform(m) ==
    /\ \A i \in Objects : \A r \in m.parents[i] : In(m, r[1]) <=> In(m, i)
    /\ \A i \in Objects \ {Root} : m.parents[i] = {} => ~In(m, i)
    /\ In(m, Root) /\ m.parents[Root] = {}

\* The two sides of links may disagree at p, which is being changed.
Settling(m, rank, p) ==
    /\ m \in Models
    /\ \A r \in Slots, j \in Objects : r[1] # p => (Knows(m, r, j) <=> Holds(m, r, j))
    /\ Sorted(m, rank) /\ Uniform(m)
    /\ \A j \in m.removed : ~In(m, j)

\* i may be put into p, and taken from what holds it.
MayHold(m, p, i) == \A j \in Below(m, i) : \A r \in m.parents[j] :
                       r[1] \in Below(m, i) \/ (In(m, r[1]) <=> In(m, p))
MayLose(m, i) == \A j \in Below(m, i) \ {i} : \A r \in m.parents[j] : r[1] \in Below(m, i)

\* The scope is the same in q, and so is what has been gathered.
Still(m, q) ==
    /\ \A j \in Objects : In(q, j) <=> In(m, j)
    /\ \A j \in Objects : q.fragments[j] = m.fragments[j]
    /\ q.removed = m.removed
    /\ q.changesQueued = m.changesQueued

\* In q the objects X have joined, all with an add fragment but for those
\* that have just been removed.
Entered(m, q, X, remote) ==
    /\ \A j \in X : ~In(m, j)
    /\ \A j \in Objects : In(q, j) <=> In(m, j) \/ j \in X
    /\ q.removed = m.removed \ X
    /\ \A j \in Objects : q.fragments[j] =
          IF j \in X \ m.removed /\ ~remote
          THEN [type |-> "add", child |-> m.child[j], items |-> m.items[j]]
          ELSE m.fragments[j]
    /\ q.changesQueued = (m.changesQueued \/ (~remote /\ X \ m.removed # {}))

\* Children are what is held.
LEMMA ChildrenHeld ==
    ASSUME NEW m \in Models, NEW k \in Objects, NEW j \in Objects
    PROVE  j \in Children(m, k) <=> \E key \in Keys : Holds(m, <<k, key>>, j)
  <1>1. /\ m.items[k] \in Seq(Objects) /\ Null \notin Objects
    BY ClientGraphAssumption DEF Models, ClientGraphAssumption
  <1>2. j \in ToSet(m.items[k]) <=> Contains(m.items[k], j)
    BY <1>1, ToSetContains
  <1> QED  BY <1>1, <1>2 DEF Children, Holds, Keys

LEMMA ChildrenAreObjects ==
    ASSUME NEW m \in Models, NEW k \in Objects
    PROVE  Children(m, k) \subseteq Objects
  <1>1. /\ m.items[k] \in Seq(Objects)
        /\ m.child[k] \in Objects \cup {Null}
    BY DEF Models
  <1>2. ToSet(m.items[k]) \subseteq Objects
    BY <1>1, ToSetContains
  <1> QED  BY <1>1, <1>2 DEF Children

\* What lies below an object that may be put into p or taken from it.
LEMMA SettlingBelow ==
    ASSUME NEW m, NEW rank \in [Objects -> Nat], NEW p \in Objects, Settling(m, rank, p),
           NEW i \in Objects, rank[p] < rank[i]
    PROVE  /\ p \notin Below(m, i)
           /\ \A j \in Below(m, i) : rank[i] <= rank[j] /\ (In(m, j) <=> In(m, i))
           /\ \A j \in Objects : \A r \in m.parents[j] : r[1] \in Below(m, i) => j \in Below(m, i)
           /\ \A k \in Below(m, i), j \in Objects :
                 j \in Children(m, k) => \E r \in m.parents[j] : r[1] = k
           /\ \A j \in Below(m, i) \ {i} : \E r \in m.parents[j] : r[1] \in Below(m, i)
  <1> DEFINE X == Below(m, i)
  <1>0. m \in Models /\ Sorted(m, rank) /\ Uniform(m)
    BY DEF Settling
  <1>1. /\ X \subseteq Objects /\ i \in X
        /\ \A k \in X, j \in Objects : j \in Children(m, k) => j \in X
    BY BelowClosed
  <1>2. \A k \in Objects, j \in Objects, key \in Keys :
           k # p => (<<k, key>> \in m.parents[j] <=> Holds(m, <<k, key>>, j))
    BY DEF Settling, Slots, Knows
  <1>3. \A k \in Objects, j \in Objects : j \in Children(m, k) => rank[k] < rank[j]
    <2> SUFFICES ASSUME NEW k \in Objects, NEW j \in Objects, j \in Children(m, k)
                 PROVE  rank[k] < rank[j]
      OBVIOUS
    <2>1. PICK key \in Keys : Holds(m, <<k, key>>, j)
      BY <1>0, ChildrenHeld
    <2>2. <<k, key>> \in Slots /\ <<k, key>>[1] = k
      BY DEF Slots
    <2> QED  BY <1>0, <2>1, <2>2 DEF Sorted
  <1>4. X \subseteq {j \in Objects : rank[i] <= rank[j]}
    <2> DEFINE S == {j \in Objects : rank[i] <= rank[j]}
    <2>1. i \in S /\ \A k \in S, j \in Objects : j \in Children(m, k) => j \in S
      BY <1>3
    <2> HIDE DEF S, X
    <2>2. S \subseteq Objects
      BY DEF S
    <2>3. X \subseteq S
      BY <2>1, <2>2, BelowLeast DEF X
    <2> QED  BY <2>3 DEF S
  <1>5. p \notin X
    BY <1>4
  <1>6. \A j \in Objects : \A r \in m.parents[j] :
           r = <<r[1], r[2]>> /\ r[1] \in Objects /\ r[2] \in Keys
    BY <1>0 DEF Models, Slots
  <1>7. \A k \in X, j \in Objects : j \in Children(m, k) => \E r \in m.parents[j] : r[1] = k
    <2> SUFFICES ASSUME NEW k \in X, NEW j \in Objects, j \in Children(m, k)
                 PROVE  \E r \in m.parents[j] : r[1] = k
      OBVIOUS
    <2>1. k \in Objects /\ k # p
      BY <1>1, <1>5
    <2>2. PICK key \in Keys : Holds(m, <<k, key>>, j)
      BY <1>0, <2>1, ChildrenHeld
    <2>3. <<k, key>> \in m.parents[j]
      BY <1>2, <2>1, <2>2
    <2> QED  BY <2>3
  <1>8. \A j \in Objects : \A r \in m.parents[j] : r[1] \in X => j \in X
    <2> SUFFICES ASSUME NEW j \in Objects, NEW r \in m.parents[j], r[1] \in X PROVE j \in X
      OBVIOUS
    <2>1. r = <<r[1], r[2]>> /\ r[1] \in Objects /\ r[2] \in Keys /\ r[1] # p
      BY <1>5, <1>6
    <2>2. Holds(m, <<r[1], r[2]>>, j)
      BY <1>2, <2>1
    <2>3. j \in Children(m, r[1])
      BY <1>0, <2>1, <2>2, ChildrenHeld
    <2> QED  BY <1>1, <2>3
  <1>9. X \subseteq {j \in Objects : In(m, j) <=> In(m, i)}
    <2> DEFINE S == {j \in Objects : In(m, j) <=> In(m, i)}
    <2>1. i \in S
      OBVIOUS
    <2>2. \A k \in X, j \in Objects : j \in Children(m, k) /\ k \in S => j \in S
      BY <1>0, <1>7 DEF Uniform
    <2> HIDE DEF S
    <2>3. X \subseteq S
      BY <2>1, <2>2, HandedDown
    <2> QED  BY <2>3 DEF S
  <1>10. \A j \in X \ {i} : \E r \in m.parents[j] : r[1] \in X
    <2> SUFFICES ASSUME NEW j \in X, j # i PROVE \E r \in m.parents[j] : r[1] \in X
      OBVIOUS
    <2>1. \E k \in X : j \in Children(m, k)
      BY BelowHeld
    <2> QED  BY <1>1, <1>7, <2>1
  <1> QED  BY <1>4, <1>5, <1>7, <1>8, <1>9, <1>10

\* Put into p, an object stays where it is in the scope, or joins if p is in
\* the scope and nothing held it.
LEMMA AddStep ==
    ASSUME NEW m, NEW rank \in [Objects -> Nat], NEW p \in Objects, Settling(m, rank, p),
           NEW i \in Objects \ {Root}, rank[p] < rank[i], MayHold(m, p, i),
           NEW key \in Keys, NEW remote \in BOOLEAN
    PROVE  LET q == AddParent(m, i, p, key, remote)
           IN  /\ Settling(q, rank, p)
               /\ Learns(m, q, <<p, key>>, i)
               /\ \/ Still(m, q)
                  \/ In(m, p) /\ Entered(m, q, Below(m, i), remote)
  <1> DEFINE X == Below(m, i)
             at == <<p, key>>
             q == AddParent(m, i, p, key, remote)
             ps == [m.parents EXCEPT ![i] = @ \cup {at}]
             known == [m EXCEPT !.parents[i] = @ \cup {<<p, key>>}]
  <1>0. m \in Models /\ Sorted(m, rank) /\ Uniform(m) /\ \A j \in m.removed : ~In(m, j)
    BY DEF Settling
  <1>1. Learns(m, q, at, i)
    BY <1>0, AddParentFacts
  <1>2. q = IF m.parents[i] = {} THEN SetScope(known, i, m.scope[p], remote) ELSE known
    BY DEF AddParent
  <1>3. /\ known \in Models
        /\ known.child = m.child /\ known.items = m.items /\ known.parents = ps
        /\ known.scope = m.scope /\ known.fragments = m.fragments
        /\ known.removed = m.removed /\ known.changesQueued = m.changesQueued
    <2>1. ps \in [Objects -> SUBSET Slots]
      BY <1>0 DEF Models, Slots
    <2>2. known = [m EXCEPT !.parents = ps]
      BY <1>0 DEF Models
    <2> HIDE DEF ps, known
    <2> QED  BY <1>0, <2>1, <2>2 DEF Models
  <1> HIDE DEF q, known
  <1>4. /\ p \notin X
        /\ \A j \in X : In(m, j) <=> In(m, i)
        /\ \A j \in Objects : \A r \in m.parents[j] : r[1] \in X => j \in X
        /\ \A j \in X \ {i} : m.parents[j] # {}
    BY SettlingBelow
  <1>5. X \subseteq Objects /\ i \in X
    BY BelowClosed
  <1>6. \A j \in Objects : In(known, j) <=> In(m, j)
    BY <1>3 DEF In
  <1>7. Below(known, i) = X
    <2>1. \A k : Children(known, k) = Children(m, k)
      BY <1>3 DEF Children
    <2> QED  BY <2>1, BelowAlike
  <1>8. \A j \in Objects : ps[j] = IF j = i THEN m.parents[j] \cup {at} ELSE m.parents[j]
    BY <1>0 DEF Models
  <1>9. \/ Still(m, q) /\ (In(m, p) <=> In(m, i))
        \/ In(m, p) /\ Entered(m, q, X, remote)
    <2>1. CASE m.parents[i] # {}
      <3>1. q = known
        BY <1>2, <2>1
      <3>2. Still(m, q)
        BY <1>3, <1>6, <3>1 DEF Still
      <3>3. PICK r \in m.parents[i] : TRUE
        BY <2>1
      <3>4. rank[r[1]] < rank[i]
        BY <1>0 DEF Sorted, Knows, Models
      <3>5. r[1] \notin X
        <4>1. \A j \in X : rank[i] <= rank[j]
          BY SettlingBelow
        <4>2. r[1] \in Objects
          BY <1>0 DEF Models, Slots
        <4> QED  BY <3>4, <4>1, <4>2
      <3>6. In(m, r[1]) <=> In(m, p)
        BY <1>5, <3>5 DEF MayHold
      <3>7. In(m, r[1]) <=> In(m, i)
        BY <1>0 DEF Uniform
      <3> QED  BY <3>2, <3>6, <3>7
    <2>2. CASE m.parents[i] = {}
      <3>1. ~In(m, i)
        BY <1>0, <2>2 DEF Uniform
      <3>2. \A j \in X : ~In(known, j)
        BY <1>4, <1>5, <1>6, <3>1
      <3>3. q = SetScope(known, i, m.scope[p], remote)
        BY <1>2, <2>2
      <3>4. CASE In(m, p)
        <4>1. Joined(known, q, X, remote)
          <5>1. q = SetScope(known, i, "scope", remote)
            BY <3>3, <3>4 DEF In
          <5>2. \A j \in Below(known, i) : ~In(known, j)
            BY <1>7, <3>2
          <5>3. Joined(known, SetScope(known, i, "scope", remote), Below(known, i), remote)
            BY <1>3, <5>2, Joins
          <5>4. Joined(known, q, Below(known, i), remote)
            BY <5>1, <5>3, Zenon
          <5> HIDE DEF X
          <5> QED  BY <1>7, <5>4
        <4>2. \A j \in X : ps[j] # {}
          <5> SUFFICES ASSUME NEW j \in X PROVE ps[j] # {}
            OBVIOUS
          <5> HIDE DEF ps, X
          <5>1. CASE j = i
            BY <1>5, <1>8, <5>1
          <5>2. CASE j # i
            BY <1>4, <1>5, <1>8, <5>2
          <5> QED  BY <5>1, <5>2
        <4>3. News(known, X, remote) = {j \in X \ m.removed : ~remote}
          BY <1>3, <4>2 DEF News
        <4> HIDE DEF X, ps
        <4>4. Entered(m, q, X, remote)
          BY <1>3, <1>5, <1>6, <3>2, <4>1, <4>3 DEF Entered, Joined
        <4> QED  BY <3>4, <4>4
      <3>5. CASE ~In(m, p)
        <4>1. m.scope[p] \in {"none", "left"}
          BY <1>0, <3>5 DEF In, Models, ScopeIds
        <4>2. Left(known, q, X)
          BY <1>3, <1>5, <1>7, <3>2, <3>3, <4>1, Leaves
        <4>3. q.removed = m.removed
          <5>1. q.removed \subseteq Objects /\ m.removed \subseteq Objects
            BY <1>0, <1>1 DEF Learns, Models
          <5> QED  BY <1>3, <1>6, <3>2, <4>2, <5>1 DEF Left
        <4> HIDE DEF X
        <4>4. Still(m, q)
          BY <1>3, <1>6, <3>2, <4>2, <4>3 DEF Left, Still
        <4> QED  BY <3>1, <3>5, <4>4
      <3> QED  BY <3>4, <3>5
    <2> QED  BY <2>1, <2>2
  <1>10. \A r \in Slots, j \in Objects :
            /\ Knows(q, r, j) <=> Knows(m, r, j) \/ (r = at /\ j = i)
            /\ Holds(q, r, j) <=> Holds(m, r, j)
    BY <1>1, <1>8 DEF Learns, Knows, Holds
  <1>11. \A r \in Slots, j \in Objects : r[1] # p => (Knows(q, r, j) <=> Holds(q, r, j))
    BY <1>10 DEF Settling
  <1>12. Sorted(q, rank)
    BY <1>0, <1>10 DEF Sorted
  <1>13. Uniform(q)
    <2>1. q.parents = ps
      BY <1>1 DEF Learns
    <2>2. ASSUME NEW j \in Objects, NEW r \in ps[j]
          PROVE  In(q, r[1]) <=> In(q, j)
      <3>0. r[1] \in Objects
        BY <1>0, <1>8 DEF Models, Slots
      <3>1. CASE Still(m, q) /\ (In(m, p) <=> In(m, i))
        BY <1>0, <1>8, <3>0, <3>1 DEF Still, Uniform
      <3>2. CASE In(m, p) /\ Entered(m, q, X, remote)
        <4>1. CASE r \in m.parents[j]
          <5>1. In(m, r[1]) <=> In(m, j)
            BY <1>0, <4>1 DEF Uniform
          <5>2. j \in X /\ r[1] \notin X => In(m, r[1])
            BY <3>2, <4>1 DEF MayHold
          <5>3. j \in X => ~In(m, j)
            BY <3>2 DEF Entered
          <5>4. r[1] \in X => j \in X
            BY <1>4, <4>1
          <5> HIDE DEF X
          <5> QED  BY <3>0, <3>2, <5>1, <5>2, <5>3, <5>4 DEF Entered
        <4>2. CASE r \notin m.parents[j]
          <5>1. j = i /\ r[1] = p
            BY <1>8, <4>2
          <5> QED  BY <1>5, <3>2, <5>1 DEF Entered
        <4> QED  BY <4>1, <4>2
      <3> QED  BY <1>9, <3>1, <3>2
    <2>3. ASSUME NEW j \in Objects \ {Root}, ps[j] = {} PROVE ~In(q, j)
      <3>1. j # i /\ m.parents[j] = {}
        <4>1. j # i
          <5>1. j = i => at \in ps[j]
            BY <1>8
          <5> HIDE DEF ps
          <5> QED  BY <2>3, <5>1
        <4>2. ps[j] = m.parents[j]
          BY <1>8, <4>1
        <4> HIDE DEF ps
        <4> QED  BY <2>3, <4>1, <4>2
      <3>2. ~In(m, j) /\ j \notin X
        BY <1>0, <1>4, <3>1 DEF Uniform
      <3> QED  BY <1>9, <3>2 DEF Still, Entered
    <2>4. In(q, Root) /\ ps[Root] = {}
      <3>1. Root \in Objects
        BY DEF Objects
      <3> QED  BY <1>0, <1>8, <1>9, <3>1 DEF Uniform, Still, Entered
    <2> HIDE DEF ps
    <2> QED  BY <2>1, <2>2, <2>3, <2>4 DEF Uniform
  <1>14. \A j \in q.removed : ~In(q, j)
    <2>1. m.removed \subseteq Objects
      BY <1>0 DEF Models
    <2> HIDE DEF X
    <2> QED  BY <1>0, <1>9, <2>1 DEF Still, Entered
  <1> QED  BY <1>1, <1>9, <1>11, <1>12, <1>13, <1>14 DEF Settling, Learns, q
-----------------------------------------------------------------------------
\* What lies below an object that leaves is below nothing else, if that does
\* not lie below it itself.
LEMMA Apart ==
    ASSUME NEW m, NEW rank \in [Objects -> Nat], NEW p \in Objects, Settling(m, rank, p),
           NEW i \in Objects, MayLose(m, i), \A r \in m.parents[i] : r[1] = p,
           NEW o \in Objects, rank[p] < rank[o], o \notin Below(m, i)
    PROVE  Below(m, o) \cap Below(m, i) = {}
  <1> DEFINE X == Below(m, i)
             Y == Below(m, o)
             S == Y \ X
  <1>1. /\ Y \subseteq Objects /\ o \in Y
        /\ \A k \in Y, j \in Objects : j \in Children(m, k) => j \in Y
    BY BelowClosed
  <1>2. /\ p \notin Y
        /\ \A k \in Y, j \in Objects : j \in Children(m, k) => \E r \in m.parents[j] : r[1] = k
    BY SettlingBelow
  <1>3. \A k \in S, j \in Objects : j \in Children(m, k) => j \in S
    <2> SUFFICES ASSUME NEW k \in S, NEW j \in Objects, j \in Children(m, k), j \in X
                 PROVE  FALSE
      BY <1>1
    <2>1. PICK r \in m.parents[j] : r[1] = k
      BY <1>2
    <2>2. CASE j = i
      BY <1>2, <2>1, <2>2
    <2>3. CASE j # i
      BY <2>1, <2>3 DEF MayLose
    <2> QED  BY <2>2, <2>3
  <1>4. S \subseteq Objects /\ o \in S
    BY <1>1
  <1>5. Y \subseteq S
    <2> HIDE DEF S
    <2> QED  BY <1>3, <1>4, BelowLeast
  <1> QED  BY <1>5

\* q has other links than m at the slot of p only, and the same scope.
Replaced(m, q, p, key) ==
    /\ q \in Models /\ Still(m, q)
    /\ \A k \in Objects \ {p} : q.child[k] = m.child[k] /\ q.items[k] = m.items[k]
    /\ key = "items" => q.child[p] = m.child[p]
    /\ key = "child" => q.items[p] = m.items[p]

\* The parts of removeParent, of what the object knew: c is what the links
\* are after it and g has what the scope noted of that.
IsRemoved(m, q, i, p, key, remote) ==
    \E c, g :
        /\ Replaced(m, c, p, key)
        /\ \/ g = c /\ c.child = m.child /\ c.items = m.items
           \/ g = KeyChanged(c, p, key, remote)
        /\ SameGraph(c, g)
        /\ g.parents = [m.parents EXCEPT ![i] = @ \ {<<p, key>>}]
        /\ q = IF g.parents[i] = {} THEN SetScope(g, i, "left", remote) ELSE g

\* So removeParent is made up of these parts.
LEMMA RemoveParentParts ==
    ASSUME NEW m \in Models, NEW i \in Objects, NEW p \in Objects, NEW key \in Keys,
           NEW remote \in BOOLEAN, <<p, key>> \in m.parents[i]
    PROVE  IsRemoved(m, RemoveParent(m, i, p, key, remote), i, p, key, remote)
  <1> DEFINE ps == [m.parents EXCEPT ![i] = @ \ {<<p, key>>}]
             known == [m EXCEPT !.parents[i] = @ \ {<<p, key>>}]
             gone == RemoveChildAtKey(known, p, key, i, remote)
  <1>1. ps \in [Objects -> SUBSET Slots]
    BY DEF Models
  <1>2. known = [m EXCEPT !.parents = ps]
    BY DEF Models
  <1>3. RemoveParent(m, i, p, key, remote)
          = IF gone.parents[i] = {} THEN SetScope(gone, i, "left", remote) ELSE gone
    BY DEF RemoveParent
  <1> HIDE DEF known, ps
  <1>4. /\ known \in Models /\ known.parents = ps
        /\ known.child = m.child /\ known.items = m.items
        /\ known.scope = m.scope /\ known.fragments = m.fragments
        /\ known.removed = m.removed /\ known.changesQueued = m.changesQueued
    BY <1>1, <1>2 DEF Models
  <1>5. \E c : /\ c \in Models /\ c.parents = ps
               /\ c.scope = m.scope /\ c.fragments = m.fragments
               /\ c.removed = m.removed /\ c.changesQueued = m.changesQueued
               /\ \A k \in Objects \ {p} : c.child[k] = m.child[k] /\ c.items[k] = m.items[k]
               /\ key = "items" => c.child[p] = m.child[p]
               /\ key = "child" => c.items[p] = m.items[p]
               /\ \/ gone = c /\ c.child = m.child /\ c.items = m.items
                  \/ gone = KeyChanged(c, p, key, remote)
    <2>1. CASE key = "child" /\ known.child[p] = i
      <3> DEFINE n == [known EXCEPT !.child[p] = Null]
      <3>1. gone = KeyChanged(n, p, key, remote)
        BY <2>1 DEF RemoveChildAtKey
      <3>2. /\ n \in Models /\ n.parents = ps /\ n.items = m.items
            /\ n.scope = m.scope /\ n.fragments = m.fragments
            /\ n.removed = m.removed /\ n.changesQueued = m.changesQueued
            /\ n.child = [m.child EXCEPT ![p] = Null]
        BY <1>4 DEF Models
      <3> HIDE DEF n
      <3>3. \A k \in Objects \ {p} : n.child[k] = m.child[k]
        BY <3>2 DEF Models
      <3> QED  BY <2>1, <3>1, <3>2, <3>3
    <2>2. CASE key = "items" /\ Contains(known.items[p], i)
      <3> DEFINE s == Without(known.items[p], {i})
                 n == [known EXCEPT !.items[p] = s]
      <3>0. s \in Seq(Objects)
        BY <1>4, WithoutType DEF Models
      <3>1. gone = KeyChanged(n, p, key, remote)
        BY <2>2 DEF RemoveChildAtKey
      <3> HIDE DEF s
      <3>2. /\ n \in Models /\ n.parents = ps /\ n.child = m.child
            /\ n.scope = m.scope /\ n.fragments = m.fragments
            /\ n.removed = m.removed /\ n.changesQueued = m.changesQueued
            /\ n.items = [m.items EXCEPT ![p] = s]
        BY <1>4, <3>0 DEF Models
      <3> HIDE DEF n
      <3>3. \A k \in Objects \ {p} : n.items[k] = m.items[k]
        BY <3>2 DEF Models
      <3> QED  BY <2>2, <3>1, <3>2, <3>3
    <2>3. CASE /\ ~(key = "child" /\ known.child[p] = i)
               /\ ~(key = "items" /\ Contains(known.items[p], i))
      <3>1. gone = known
        BY <2>3 DEF RemoveChildAtKey
      <3> QED  BY <1>4, <3>1
    <2> QED  BY <2>1, <2>2, <2>3
  <1>6. PICK c : /\ c \in Models /\ c.parents = ps
                 /\ c.scope = m.scope /\ c.fragments = m.fragments
                 /\ c.removed = m.removed /\ c.changesQueued = m.changesQueued
                 /\ \A k \in Objects \ {p} : c.child[k] = m.child[k] /\ c.items[k] = m.items[k]
                 /\ key = "items" => c.child[p] = m.child[p]
                 /\ key = "child" => c.items[p] = m.items[p]
                 /\ \/ gone = c /\ c.child = m.child /\ c.items = m.items
                    \/ gone = KeyChanged(c, p, key, remote)
    BY <1>5
  <1> HIDE DEF gone
  <1>7. Replaced(m, c, p, key)
    BY <1>6 DEF Replaced, Still, In
  <1>8. SameGraph(c, gone)
    <2>1. SameGraph(c, KeyChanged(c, p, key, remote))
      BY <1>6, KeyChangedSame
    <2> QED  BY <1>6, <2>1 DEF SameGraph
  <1>9. gone.parents = ps
    BY <1>6, <1>8 DEF SameGraph
  <1> QED  BY <1>3, <1>6, <1>7, <1>8, <1>9 DEF ps, IsRemoved

\* What the scope notes of a change leaves the scope as it is.
LEMMA KeyChangedIn ==
    ASSUME NEW m \in Models, NEW p \in Objects, NEW key \in Keys, NEW remote \in BOOLEAN
    PROVE  LET q == KeyChanged(m, p, key, remote)
           IN  /\ \A j : In(q, j) <=> In(m, j)
               /\ q.removed = m.removed
  BY DEF KeyChanged, In, Models
-----------------------------------------------------------------------------
\* A setter under way at p: P are those it may still put there and T those
\* it may still take away.
Underway(m, rank, p, P, T) ==
    /\ Settling(m, rank, p)
    /\ \A i \in P : i # Root /\ rank[p] < rank[i] /\ MayHold(m, p, i)
    /\ \A i \in T : rank[p] < rank[i] /\ MayLose(m, i) /\ P \cap Below(m, i) = {}

\* Where p is not below an object, that has the same below it in q.
Elsewhere(m, q, p) ==
    \A k \in Objects \ {p} : q.child[k] = m.child[k] /\ q.items[k] = m.items[k]

\* Nothing changes there.
LEMMA BelowElsewhere ==
    ASSUME NEW m, NEW q, NEW p, Elsewhere(m, q, p), NEW i \in Objects, p \notin Below(m, i)
    PROVE  Below(q, i) = Below(m, i)
  <1>1. \A k \in Below(m, i) : Children(q, k) = Children(m, k)
    BY BelowClosed DEF Elsewhere, Children
  <1> QED  BY <1>1, BelowAlike

\* What putting one of P into p leaves of that.
LEMMA AddUnderway ==
    ASSUME NEW m, NEW rank \in [Objects -> Nat], NEW p \in Objects,
           NEW P \in SUBSET Objects, NEW T \in SUBSET Objects, Underway(m, rank, p, P, T),
           NEW i \in P, NEW key \in Keys, NEW remote \in BOOLEAN
    PROVE  LET q == AddParent(m, i, p, key, remote)
           IN  /\ Underway(q, rank, p, P, T)
               /\ Learns(m, q, <<p, key>>, i)
               /\ \/ Still(m, q)
                  \/ In(m, p) /\ Entered(m, q, Below(m, i), remote)
  <1> DEFINE q == AddParent(m, i, p, key, remote)
             X == Below(m, i)
             at == <<p, key>>
  <1>1. /\ Settling(m, rank, p) /\ i \in Objects \ {Root}
        /\ rank[p] < rank[i] /\ MayHold(m, p, i)
    BY DEF Underway
  <1>2. /\ Settling(q, rank, p) /\ Learns(m, q, at, i)
        /\ Still(m, q) \/ (In(m, p) /\ Entered(m, q, X, remote))
    BY <1>1, AddStep
  <1> HIDE DEF q
  <1>3. m.parents \in [Objects -> SUBSET Slots]
    BY <1>1 DEF Settling, Models
  <1>4. \A j \in Objects : \A r \in q.parents[j] :
           /\ r[1] \in Objects
           /\ r \in m.parents[j] \/ (r[1] = p /\ j = i)
    BY <1>2, <1>3 DEF Learns, Slots
  <1>5. Elsewhere(m, q, p)
    BY <1>2 DEF Learns, Elsewhere
  <1>6. p \notin X
    BY <1>1, SettlingBelow
  <1>7. \A o \in P \cup T : Below(q, o) = Below(m, o) /\ Below(m, o) \subseteq Objects
    <2> SUFFICES ASSUME NEW o \in P \cup T
                 PROVE  Below(q, o) = Below(m, o) /\ Below(m, o) \subseteq Objects
      OBVIOUS
    <2>1. rank[p] < rank[o] /\ o \in Objects
      BY DEF Underway
    <2>2. p \notin Below(m, o)
      BY <1>1, <2>1, SettlingBelow
    <2> QED  BY <1>5, <2>1, <2>2, BelowElsewhere, BelowClosed
  <1>8. ASSUME NEW o \in P PROVE MayHold(q, p, o)
    <2> DEFINE Y == Below(m, o)
    <2>1. Below(q, o) = Y /\ Y \subseteq Objects
      BY <1>7
    <2>2. \A j \in Y : \A r \in m.parents[j] : r[1] \in Y \/ (In(m, r[1]) <=> In(m, p))
      BY DEF Underway, MayHold
    <2> HIDE DEF Y, X
    <2>3. \A j \in Y : \A r \in q.parents[j] : r[1] \in Y \/ (In(q, r[1]) <=> In(q, p))
      <3> SUFFICES ASSUME NEW j \in Y, NEW r \in q.parents[j], r[1] \notin Y
                   PROVE  In(q, r[1]) <=> In(q, p)
        OBVIOUS
      <3>1. CASE r \in m.parents[j]
        <4>1. In(m, r[1]) <=> In(m, p)
          BY <2>2, <3>1
        <4>2. r[1] \in Objects
          BY <1>4, <2>1
        <4> QED  BY <1>2, <1>6, <4>1, <4>2 DEF Still, Entered
      <3>2. CASE r \notin m.parents[j]
        <4>1. r[1] = p
          BY <1>4, <2>1, <3>2
        <4> QED  BY <4>1
      <3> QED  BY <3>1, <3>2
    <2> QED  BY <2>1, <2>3 DEF MayHold
  <1>9. ASSUME NEW o \in T PROVE MayLose(q, o) /\ P \cap Below(q, o) = {}
    <2> DEFINE Y == Below(m, o)
    <2>1. Below(q, o) = Y /\ Y \subseteq Objects
      BY <1>7
    <2>2. P \cap Y = {} /\ \A j \in Y \ {o} : \A r \in m.parents[j] : r[1] \in Y
      BY DEF Underway, MayLose
    <2> HIDE DEF Y
    <2>3. \A j \in Y \ {o} : \A r \in q.parents[j] : r[1] \in Y
      BY <1>4, <2>1, <2>2
    <2> QED  BY <2>1, <2>2, <2>3 DEF MayLose
  <1> QED  BY <1>2, <1>8, <1>9 DEF Underway, q

\* What a change the scope notes leaves of it.
LEMMA KeyUnderway ==
    ASSUME NEW m, NEW rank \in [Objects -> Nat], NEW p \in Objects,
           NEW P \in SUBSET Objects, NEW T \in SUBSET Objects, Underway(m, rank, p, P, T),
           NEW key \in Keys, NEW remote \in BOOLEAN
    PROVE  LET q == KeyChanged(m, p, key, remote)
           IN  Underway(q, rank, p, P, T) /\ SameGraph(m, q)
  <1> DEFINE q == KeyChanged(m, p, key, remote)
  <1>1. m \in Models
    BY DEF Underway, Settling
  <1>2. SameGraph(m, q) /\ (\A j : In(q, j) <=> In(m, j)) /\ q.removed = m.removed
    BY <1>1, KeyChangedSame, KeyChangedIn
  <1> HIDE DEF q
  <1>3. \A i : Below(q, i) = Below(m, i)
    BY <1>2 DEF SameGraph, Below, Walk, Children
  <1>4. Settling(q, rank, p)
    <2>1. \A r, j : (Knows(q, r, j) <=> Knows(m, r, j)) /\ (Holds(q, r, j) <=> Holds(m, r, j))
      BY <1>2 DEF SameGraph, Knows, Holds
    <2>2. Sorted(q, rank)
      BY <2>1 DEF Underway, Settling, Sorted
    <2>3. Uniform(q)
      BY <1>2 DEF Underway, Settling, Uniform, SameGraph
    <2> QED  BY <1>2, <2>1, <2>2, <2>3 DEF Underway, Settling, SameGraph
  <1>5. \A i \in P : MayHold(q, p, i)
    BY <1>2, <1>3 DEF Underway, MayHold, SameGraph
  <1>6. \A i \in T : MayLose(q, i) /\ P \cap Below(q, i) = {}
    BY <1>2, <1>3 DEF Underway, MayLose, SameGraph
  <1> QED  BY <1>2, <1>4, <1>5, <1>6 DEF Underway, q

\* How a model got to q by an object's leaving p: the links at p, what the
\* scope notes of them, and X that leave the scope, if any do.
Released(m, q, p, key, X, remote) ==
    \E c, g :
        /\ Replaced(m, c, p, key)
        /\ \/ g = c /\ c.child = m.child /\ c.items = m.items
           \/ g = KeyChanged(c, p, key, remote)
        /\ SameGraph(c, g)
        /\ q = g \/ Left(g, q, X)

\* Some left, and below none of P lies one of them.
IsReleased(m, q, p, key, P, remote) ==
    \E X \in SUBSET Objects :
        /\ Released(m, q, p, key, X, remote)
        /\ p \notin X
        /\ \A o \in P : Below(m, o) \cap X = {}

\* What taking one of T from p leaves of it.
LEMMA RemoveUnderway ==
    ASSUME NEW m, NEW rank \in [Objects -> Nat], NEW p \in Objects,
           NEW P \in SUBSET Objects, NEW T \in SUBSET Objects, Underway(m, rank, p, P, T),
           NEW i \in T, NEW key \in Keys, NEW remote \in BOOLEAN
    PROVE  LET q == RemoveParent(m, i, p, key, remote)
           IN  /\ Underway(q, rank, p, P, T)
               /\ Forgets(m, q, <<p, key>>, i)
               /\ Elsewhere(m, q, p)
               /\ IsReleased(m, q, p, key, P, remote)
  <1> DEFINE q == RemoveParent(m, i, p, key, remote)
             X == Below(m, i)
             at == <<p, key>>
             Done == /\ Underway(q, rank, p, P, T)
                     /\ Forgets(m, q, at, i)
                     /\ Elsewhere(m, q, p)
                     /\ IsReleased(m, q, p, key, P, remote)
  <1>0. /\ Settling(m, rank, p) /\ m \in Models /\ Sorted(m, rank) /\ Uniform(m)
        /\ i \in Objects /\ rank[p] < rank[i] /\ MayLose(m, i)
        /\ m.parents \in [Objects -> SUBSET Slots]
    BY DEF Underway, Settling, Models
  <1>1. Forgets(m, q, at, i)
    BY <1>0, RemoveParentFacts, ClientGraphAssumption
  <1>2. ASSUME at \notin m.parents[i] PROVE Done
    <2>1. q = m
      BY <1>2 DEF RemoveParent
    <2>2. Released(m, m, p, key, {}, remote)
      <3>1. Replaced(m, m, p, key) /\ SameGraph(m, m)
        BY <1>0 DEF Replaced, Still, SameGraph
      <3> QED  BY <3>1 DEF Released
    <2>3. IsReleased(m, m, p, key, P, remote)
      BY <2>2 DEF IsReleased
    <2> QED  BY <1>1, <2>1, <2>3 DEF Elsewhere
  <1>3. ASSUME at \in m.parents[i] PROVE Done
    <2> HIDE DEF q, at, X
    <2>a. IsRemoved(m, q, i, p, key, remote)
      BY <1>0, <1>3, RemoveParentParts DEF q, at
    <2>1. PICK c, g :
              /\ Replaced(m, c, p, key)
              /\ \/ g = c /\ c.child = m.child /\ c.items = m.items
                 \/ g = KeyChanged(c, p, key, remote)
              /\ SameGraph(c, g)
              /\ g.parents = [m.parents EXCEPT ![i] = @ \ {at}]
              /\ q = IF g.parents[i] = {} THEN SetScope(g, i, "left", remote) ELSE g
      BY <2>a DEF IsRemoved, at
    <2> USE DEF X, at
    <2>2. (\A j \in Objects : In(g, j) <=> In(m, j)) /\ g.removed = m.removed
      <3>1. (\A j \in Objects : In(g, j) <=> In(c, j)) /\ g.removed = c.removed
        BY <2>1, KeyChangedIn DEF Replaced
      <3> QED  BY <2>1, <3>1 DEF Replaced, Still
    <2>3. Elsewhere(m, g, p)
      BY <2>1 DEF Replaced, SameGraph, Elsewhere
    <2>4. /\ p \notin X /\ X \subseteq Objects /\ i \in X
          /\ \A j \in X : In(m, j) <=> In(m, i)
          /\ \A j \in Objects : \A r \in m.parents[j] : r[1] \in X => j \in X
          /\ \A j \in X \ {i} : \E r \in m.parents[j] : r[1] \in X
      BY <1>0, SettlingBelow, BelowClosed
    <2>5. Below(g, i) = X
      BY <1>0, <2>3, <2>4, BelowElsewhere
    <2>6. g \in Models
      BY <2>1 DEF SameGraph
    <2>7. \/ q = g /\ g.parents[i] # {}
          \/ g.parents[i] = {} /\ Left(g, q, X)
      <3>1. CASE g.parents[i] = {}
        <4>1. \A j \in Below(g, i) : In(g, j) <=> In(g, i)
          BY <1>0, <2>2, <2>4, <2>5
        <4>2. Left(g, SetScope(g, i, "left", remote), Below(g, i))
          BY <1>0, <2>6, <4>1, Leaves
        <4>3. q = SetScope(g, i, "left", remote)
          BY <2>1, <3>1
        <4>4. Left(g, q, Below(g, i))
          BY <4>2, <4>3, Zenon
        <4> HIDE DEF X
        <4> QED  BY <2>5, <3>1, <4>4
      <3>2. CASE g.parents[i] # {}
        BY <2>1, <3>2
      <3> QED  BY <3>1, <3>2
    <2>8. Released(m, q, p, key, X, remote)
      BY <2>1, <2>7 DEF Released
    <2>9. q.child = g.child /\ q.items = g.items /\ q.parents = g.parents
      BY <2>7 DEF Left, SameGraph
    <2>10. Elsewhere(m, q, p)
      BY <2>3, <2>9 DEF Elsewhere
    <2>11. \A j \in Objects : /\ q.parents[j] \subseteq m.parents[j]
                              /\ j # i => q.parents[j] = m.parents[j]
                              /\ j = i => q.parents[j] = m.parents[j] \ {at}
      BY <1>0, <2>1, <2>9
    <2>12. \/ \A j \in Objects : In(q, j) <=> In(m, j)
           \/ /\ q.parents[i] = {}
              /\ \A j \in Objects : In(q, j) <=> In(m, j) /\ j \notin X
      BY <2>2, <2>7, <2>9 DEF Left
    <2>13. \A o \in P \cup T : Below(q, o) = Below(m, o) /\ Below(m, o) \subseteq Objects
      <3> SUFFICES ASSUME NEW o \in P \cup T
                   PROVE  Below(q, o) = Below(m, o) /\ Below(m, o) \subseteq Objects
        OBVIOUS
      <3>1. rank[p] < rank[o] /\ o \in Objects
        BY DEF Underway
      <3>2. p \notin Below(m, o)
        BY <1>0, <3>1, SettlingBelow
      <3> QED  BY <2>10, <3>1, <3>2, BelowElsewhere, BelowClosed
    <2>14. q.parents[i] = {} => \A o \in P : Below(m, o) \cap X = {}
      <3> SUFFICES ASSUME q.parents[i] = {}, NEW o \in P PROVE Below(m, o) \cap X = {}
        OBVIOUS
      <3>1. \A r \in m.parents[i] : r[1] = p
        BY <1>0, <2>11
      <3>2. rank[p] < rank[o] /\ o \notin X /\ o \in Objects
        BY DEF Underway
      <3> QED  BY <1>0, <3>1, <3>2, Apart
    <2> HIDE DEF X
    <2>15. Uniform(q)
      <3>1. ASSUME NEW j \in Objects, NEW r \in q.parents[j]
            PROVE  In(q, r[1]) <=> In(q, j)
        <4>1. r \in m.parents[j] /\ r[1] \in Objects
          BY <1>0, <2>11 DEF Slots
        <4>2. In(m, r[1]) <=> In(m, j)
          BY <1>0, <4>1 DEF Uniform
        <4>3. r[1] \in X => j \in X
          BY <2>4, <4>1
        <4>4. q.parents[i] = {} /\ j \in X => r[1] \in X
          BY <1>0, <3>1, <4>1 DEF MayLose, X
        <4> QED  BY <2>12, <4>1, <4>2, <4>3, <4>4
      <3>2. ASSUME NEW j \in Objects \ {Root}, q.parents[j] = {}
            PROVE  ~In(q, j)
        <4>1. CASE j = i
          BY <2>4, <2>7, <2>9, <3>2, <4>1 DEF Left
        <4>2. CASE j # i
          BY <1>0, <2>11, <2>12, <3>2, <4>2 DEF Uniform
        <4> QED  BY <4>1, <4>2
      <3>3. In(q, Root) /\ q.parents[Root] = {}
        <4>1. Root \in Objects /\ m.parents[Root] = {} /\ In(m, Root)
          BY <1>0 DEF Uniform, Objects
        <4>2. Root # i
          BY <1>3, <4>1
        <4>3. Root \notin X
          BY <2>4, <4>1, <4>2
        <4> QED  BY <2>11, <2>12, <4>1, <4>3
      <3> QED  BY <3>1, <3>2, <3>3 DEF Uniform
    <2>16. \A j \in q.removed : ~In(q, j)
      <3>1. \A j \in m.removed : ~In(m, j) /\ j \in Objects
        BY <1>0 DEF Settling, Models
      <3>2. \A j \in q.removed : j \in Objects
        BY <1>1 DEF Forgets, Models
      <3> QED  BY <2>2, <2>7, <3>1, <3>2 DEF Left
    <2>17. Settling(q, rank, p)
      <3>1. \A r \in Slots, j \in Objects :
               /\ Knows(q, r, j) <=> Knows(m, r, j) /\ ~(r = at /\ j = i)
               /\ Holds(q, r, j) <=> Holds(m, r, j) /\ ~(r = at /\ j = i /\ Knows(m, r, j))
        BY <1>0, <1>1 DEF Forgets, Knows
      <3>2. \A r \in Slots, j \in Objects : r[1] # p => (Knows(q, r, j) <=> Holds(q, r, j))
        BY <1>0, <3>1 DEF Settling
      <3>3. Sorted(q, rank)
        BY <1>0, <3>1 DEF Sorted
      <3> QED  BY <1>1, <2>15, <2>16, <3>2, <3>3 DEF Settling, Forgets
    <2>18. ASSUME NEW o \in P PROVE MayHold(q, p, o)
      <3> DEFINE Y == Below(m, o)
      <3>1. Below(q, o) = Y /\ Y \subseteq Objects
        BY <2>13
      <3>2. \A j \in Y : \A r \in m.parents[j] : r[1] \in Y \/ (In(m, r[1]) <=> In(m, p))
        BY DEF Underway, MayHold
      <3>3. q.parents[i] = {} => Y \cap X = {}
        BY <2>14
      <3> HIDE DEF Y
      <3>4. \A j \in Y : \A r \in q.parents[j] : r[1] \in Y \/ (In(q, r[1]) <=> In(q, p))
        <4> SUFFICES ASSUME NEW j \in Y, NEW r \in q.parents[j], r[1] \notin Y
                     PROVE  In(q, r[1]) <=> In(q, p)
          OBVIOUS
        <4>1. r \in m.parents[j] /\ j \in Objects /\ r[1] \in Objects
          BY <1>0, <2>11, <3>1 DEF Slots
        <4>2. In(m, r[1]) <=> In(m, p)
          BY <3>2, <4>1
        <4>3. r[1] \in X => j \in X
          BY <2>4, <4>1
        <4> QED  BY <2>4, <2>12, <3>3, <4>1, <4>2, <4>3
      <3> QED  BY <3>1, <3>4 DEF MayHold
    <2>19. ASSUME NEW o \in T PROVE MayLose(q, o) /\ P \cap Below(q, o) = {}
      <3> DEFINE Y == Below(m, o)
      <3>1. Below(q, o) = Y /\ Y \subseteq Objects
        BY <2>13
      <3>2. P \cap Y = {} /\ \A j \in Y \ {o} : \A r \in m.parents[j] : r[1] \in Y
        BY DEF Underway, MayLose
      <3> HIDE DEF Y
      <3>3. \A j \in Y \ {o} : \A r \in q.parents[j] : r[1] \in Y
        BY <2>11, <3>1, <3>2
      <3> QED  BY <3>1, <3>2, <3>3 DEF MayLose
    <2>20. Underway(q, rank, p, P, T)
      BY <2>17, <2>18, <2>19 DEF Underway
    <2>21. ASSUME q.parents[i] = {} PROVE Done
      <3>1. X \in SUBSET Objects /\ \A o \in P : Below(m, o) \cap X = {}
        BY <2>4, <2>14, <2>21
      <3>2. IsReleased(m, q, p, key, P, remote)
        BY <2>4, <2>8, <3>1 DEF IsReleased
      <3> QED  BY <1>1, <2>10, <2>20, <3>2
    <2>22. ASSUME q.parents[i] # {} PROVE Done
      <3>1. Released(m, q, p, key, {}, remote)
        BY <2>1, <2>7, <2>9, <2>22 DEF Released
      <3>2. {} \in SUBSET Objects /\ p \notin {} /\ \A o \in P : Below(m, o) \cap {} = {}
        OBVIOUS
      <3>3. IsReleased(m, q, p, key, P, remote)
        BY <3>1, <3>2 DEF IsReleased
      <3> QED  BY <1>1, <2>10, <2>20, <3>3
    <2> QED  BY <2>21, <2>22
  <1> QED  BY <1>1, <1>2, <1>3
-----------------------------------------------------------------------------
\* What the fragments say of an object: with the server at s, they tell all
\* that it does not know of the keys K.
Same(s, m, j) == j \in s.has /\ s.child[j] = m.child[j] /\ s.items[j] = m.items[j]

Told(m, s, j, K) ==
    LET f == m.fragments[j]
    IN  IF In(m, j)
        THEN /\ f.type = "add" <=> j \notin s.has
             /\ f.type = "none" => f = NoFragment
             /\ "child" \in K => \/ f.child = m.child[j]
                                 \/ f.child = Unset /\ j \in s.has /\ s.child[j] = m.child[j]
             /\ "items" \in K => \/ f.items = m.items[j]
                                 \/ f.items = Unset /\ j \in s.has /\ s.items[j] = m.items[j]
        ELSE /\ f = NoFragment
             /\ j \in s.has => j \in m.removed

\* The same of all objects, but for the keys of p that are not in K.
Gathered(m, s, p, K) ==
    /\ m.changesQueued \/ \A j \in Objects : m.fragments[j] = NoFragment
    /\ \A j \in Objects : Told(m, s, j, IF j = p THEN K ELSE Keys)

\* If i is put into p again, it is as the server has it.
Returns(m, s, p, i) ==
    In(m, p) => \A j \in Below(m, i) : j \in m.removed => Same(s, m, j)

\* A change of others' is not gathered.
Silent(m) == ~m.changesQueued /\ \A j \in Objects : m.fragments[j] = NoFragment

Notes(m, s, p, K, P, remote) ==
    IF remote THEN Silent(m)
    ELSE Gathered(m, s, p, K) /\ \A i \in P : Returns(m, s, p, i)

\* Where p is not below what may be put there or taken away.
LEMMA UnderwayBelow ==
    ASSUME NEW m, NEW rank \in [Objects -> Nat], NEW p \in Objects,
           NEW P \in SUBSET Objects, NEW T \in SUBSET Objects, Underway(m, rank, p, P, T)
    PROVE  \A i \in P \cup T : p \notin Below(m, i) /\ Below(m, i) \subseteq Objects
  <1> SUFFICES ASSUME NEW i \in P \cup T
               PROVE  p \notin Below(m, i) /\ Below(m, i) \subseteq Objects
    OBVIOUS
  <1>1. Settling(m, rank, p) /\ rank[p] < rank[i] /\ i \in Objects
    BY DEF Underway
  <1> QED  BY <1>1, SettlingBelow, BelowClosed

\* What is gathered as an object joins.
LEMMA AddNotes ==
    ASSUME NEW m \in Models, NEW q \in Models, NEW s, NEW p \in Objects, NEW K,
           NEW P \in SUBSET Objects, NEW i \in P, NEW remote \in BOOLEAN,
           Notes(m, s, p, K, P, remote),
           \A o \in P : p \notin Below(m, o) /\ Below(m, o) \subseteq Objects,
           q.child = m.child, q.items = m.items,
           \/ Still(m, q)
           \/ In(m, p) /\ Entered(m, q, Below(m, i), remote)
    PROVE  Notes(q, s, p, K, P, remote)
  <1> DEFINE X == Below(m, i)
  <1>1. \A o : Below(q, o) = Below(m, o)
    BY DEF Below, Walk, Children
  <1>2. p \notin X /\ X \subseteq Objects
    OBVIOUS
  <1>3. CASE remote
    <2>1. Silent(m)
      BY <1>3 DEF Notes
    <2> HIDE DEF X
    <2>2. Silent(q)
      BY <1>3, <2>1 DEF Silent, Still, Entered, X
    <2> QED  BY <1>3, <2>2 DEF Notes
  <1>4. CASE ~remote
    <2>1. Gathered(m, s, p, K) /\ \A o \in P : Returns(m, s, p, o)
      BY <1>4 DEF Notes
    <2>2. \A o \in P : Returns(q, s, p, o)
      <3> SUFFICES ASSUME NEW o \in P, In(q, p), NEW j \in Below(m, o), j \in q.removed
                   PROVE  Same(s, q, j)
        BY <1>1 DEF Returns
      <3>1. In(m, p) /\ j \in m.removed
        BY <1>2 DEF Still, Entered
      <3>2. Same(s, m, j)
        BY <2>1, <3>1 DEF Returns
      <3> QED  BY <3>2 DEF Same
    <2>3. CASE Still(m, q)
      <3>1. \A L : \A j \in Objects : Told(m, s, j, L) => Told(q, s, j, L)
        BY <2>3 DEF Told, Still
      <3>2. q.changesQueued \/ \A j \in Objects : q.fragments[j] = NoFragment
        BY <2>1, <2>3 DEF Gathered, Still
      <3> QED  BY <1>4, <2>1, <2>2, <3>1, <3>2 DEF Notes, Gathered
    <2>4. CASE In(m, p) /\ Entered(m, q, X, remote)
      <3> HIDE DEF X
      <3>1. ASSUME NEW j \in Objects \ X, NEW L, Told(m, s, j, L) PROVE Told(q, s, j, L)
        <4>1. /\ In(q, j) <=> In(m, j)
              /\ q.fragments[j] = m.fragments[j]
              /\ j \in q.removed <=> j \in m.removed
          BY <2>4, <3>1 DEF Entered
        <4> QED  BY <3>1, <4>1 DEF Told
      <3>2. ASSUME NEW j \in X PROVE Told(q, s, j, Keys)
        <4>1. Told(m, s, j, Keys) /\ j \in Objects
          BY <1>2, <2>1 DEF Gathered
        <4>2. m.fragments[j] = NoFragment /\ (j \in s.has => j \in m.removed)
          BY <2>4, <4>1 DEF Told, Entered
        <4>3. In(q, j)
          BY <2>4, <4>1 DEF Entered
        <4>4. CASE j \in m.removed
          <5>1. Same(s, m, j)
            BY <2>1, <2>4, <4>4 DEF Returns, X
          <5>2. q.fragments[j] = NoFragment
            BY <2>4, <4>1, <4>2, <4>4 DEF Entered
          <5> QED  BY <4>3, <5>1, <5>2 DEF Told, Same, NoFragment
        <4>5. CASE j \notin m.removed
          <5>1. q.fragments[j] = [type |-> "add", child |-> m.child[j], items |-> m.items[j]]
            BY <1>4, <2>4, <4>1, <4>5 DEF Entered
          <5> QED  BY <4>2, <4>3, <4>5, <5>1 DEF Told
        <4> QED  BY <4>4, <4>5
      <3>3. q.changesQueued \/ \A j \in Objects : q.fragments[j] = NoFragment
        <4>1. CASE m.changesQueued
          BY <2>4, <4>1 DEF Entered
        <4>2. CASE X \ m.removed # {}
          BY <1>4, <2>4, <4>2 DEF Entered
        <4>3. CASE ~m.changesQueued /\ X \ m.removed = {}
          BY <2>1, <2>4, <4>3 DEF Entered, Gathered
        <4> QED  BY <4>1, <4>2, <4>3
      <3>4. Gathered(q, s, p, K)
        BY <1>2, <2>1, <3>1, <3>2, <3>3 DEF Gathered
      <3> QED  BY <1>4, <2>2, <3>4 DEF Notes
    <2> QED  BY <2>3, <2>4
  <1> QED  BY <1>3, <1>4

\* What is gathered as a change is noted.
LEMMA KeyNotes ==
    ASSUME NEW m \in Models, NEW s, NEW p \in Objects, NEW key \in Keys, NEW K,
           Keys \ {key} \subseteq K, NEW P \in SUBSET Objects, NEW remote \in BOOLEAN,
           Notes(m, s, p, K, P, remote)
    PROVE  Notes(KeyChanged(m, p, key, remote), s, p, Keys, P, remote)
  <1> DEFINE q == KeyChanged(m, p, key, remote)
  <1>1. CASE remote
    BY <1>1 DEF Notes, KeyChanged
  <1>2. CASE ~remote
    <2>1. SameGraph(m, q) /\ (\A j : In(q, j) <=> In(m, j)) /\ q.removed = m.removed
      BY KeyChangedSame, KeyChangedIn
    <2>2. Gathered(m, s, p, K) /\ \A o \in P : Returns(m, s, p, o)
      BY <1>2 DEF Notes
    <2>3. CASE ~In(m, p)
      <3>1. q = m
        BY <2>3 DEF KeyChanged, In
      <3>2. Told(m, s, p, Keys)
        BY <2>2, <2>3 DEF Gathered, Told
      <3>3. Gathered(m, s, p, Keys)
        BY <2>2, <3>2 DEF Gathered
      <3> QED  BY <1>2, <2>2, <3>1, <3>3 DEF Notes
    <2>4. CASE In(m, p)
      <3> DEFINE old == m.fragments[p]
                 f == [type  |-> IF old.type = "none" THEN "change" ELSE old.type,
                       child |-> IF key = "child" THEN m.child[p] ELSE old.child,
                       items |-> IF key = "items" THEN m.items[p] ELSE old.items]
      <3>1. /\ q.fragments = [m.fragments EXCEPT ![p] = f]
            /\ q.changesQueued = TRUE
        BY <1>2, <2>4 DEF KeyChanged, In, Models
      <3>2. Told(m, s, p, K)
        BY <2>2 DEF Gathered
      <3> HIDE DEF f, q
      <3>3. q.fragments[p] = f /\ \A j \in Objects \ {p} : q.fragments[j] = m.fragments[j]
        BY <3>1 DEF Models
      <3>4. Told(q, s, p, Keys)
        <4>1. /\ f.type = "add" <=> old.type = "add"
              /\ f.type # "none"
              /\ f.child = IF key = "child" THEN m.child[p] ELSE old.child
              /\ f.items = IF key = "items" THEN m.items[p] ELSE old.items
          BY DEF f
        <4>2. "child" \in K \/ key = "child"
          BY DEF Keys
        <4>3. "items" \in K \/ key = "items"
          BY DEF Keys
        <4>4. /\ old.type = "add" <=> p \notin s.has
              /\ "child" \in K => \/ old.child = m.child[p]
                                  \/ old.child = Unset /\ p \in s.has /\ s.child[p] = m.child[p]
              /\ "items" \in K => \/ old.items = m.items[p]
                                  \/ old.items = Unset /\ p \in s.has /\ s.items[p] = m.items[p]
          BY <2>4, <3>2 DEF Told
        <4>5. In(q, p) /\ q.child[p] = m.child[p] /\ q.items[p] = m.items[p]
          BY <2>1, <2>4 DEF SameGraph
        <4> HIDE DEF old
        <4> QED  BY <3>3, <4>1, <4>2, <4>3, <4>4, <4>5 DEF Told
      <3>5. ASSUME NEW j \in Objects, j # p PROVE Told(q, s, j, Keys)
        <4>1. Told(m, s, j, Keys)
          BY <2>2, <3>5 DEF Gathered
        <4>2. q.fragments[j] = m.fragments[j]
          BY <3>3, <3>5
        <4> QED  BY <2>1, <4>1, <4>2 DEF Told, SameGraph
      <3>6. Gathered(q, s, p, Keys)
        BY <3>1, <3>4, <3>5 DEF Gathered
      <3>7. \A o \in P : Returns(q, s, p, o)
        <4>1. \A o : Below(q, o) = Below(m, o)
          BY <2>1 DEF SameGraph, Below, Walk, Children
        <4> QED  BY <2>1, <2>2, <4>1 DEF Returns, Same, SameGraph
      <3> QED  BY <1>2, <3>6, <3>7 DEF Notes, q
    <2> QED  BY <2>3, <2>4
  <1> QED  BY <1>1, <1>2

\* What is gathered says less of fewer keys.
LEMMA NotesFewer ==
    ASSUME NEW m, NEW s, NEW p, NEW K, NEW L \in SUBSET K, K \subseteq Keys, NEW P, NEW remote \in BOOLEAN,
           Notes(m, s, p, K, P, remote)
    PROVE  Notes(m, s, p, L, P, remote)
  <1>1. \A j \in Objects : Told(m, s, j, K) => Told(m, s, j, L)
    BY DEF Told
  <1> QED  BY <1>1 DEF Notes, Gathered

\* As the links of p change it says nothing of their key.
LEMMA ReplacedNotes ==
    ASSUME NEW m \in Models, NEW q, NEW s, NEW p \in Objects, NEW key \in Keys,
           NEW K \in SUBSET Keys, NEW P \in SUBSET Objects, NEW remote \in BOOLEAN,
           Notes(m, s, p, K, P, remote), Replaced(m, q, p, key),
           \A o \in P : p \notin Below(m, o) /\ Below(m, o) \subseteq Objects
    PROVE  Notes(q, s, p, K \ {key}, P, remote)
  <1>1. CASE remote
    BY <1>1 DEF Notes, Silent, Replaced, Still
  <1>2. CASE ~remote
    <2>1. Gathered(m, s, p, K) /\ \A o \in P : Returns(m, s, p, o)
      BY <1>2 DEF Notes
    <2>2. ASSUME NEW o \in P PROVE Returns(q, s, p, o)
      <3>1. Elsewhere(m, q, p)
        BY DEF Replaced, Elsewhere
      <3>2. Below(q, o) = Below(m, o)
        BY <3>1, BelowElsewhere
      <3> SUFFICES ASSUME In(q, p), NEW j \in Below(m, o), j \in q.removed
                   PROVE  Same(s, q, j)
        BY <3>2 DEF Returns
      <3>3. Same(s, m, j) /\ j \in Objects \ {p}
        BY <2>1 DEF Returns, Replaced, Still
      <3> QED  BY <3>1, <3>3 DEF Same, Elsewhere
    <2>3. ASSUME NEW j \in Objects, j # p PROVE Told(q, s, j, Keys)
      <3>1. Told(m, s, j, Keys)
        BY <2>1, <2>3 DEF Gathered
      <3>2. /\ In(q, j) <=> In(m, j)
            /\ q.fragments[j] = m.fragments[j] /\ q.removed = m.removed
            /\ q.child[j] = m.child[j] /\ q.items[j] = m.items[j]
        BY <2>3 DEF Replaced, Still
      <3> QED  BY <3>1, <3>2 DEF Told
    <2>4. Told(q, s, p, K \ {key})
      <3>1. Told(m, s, p, K)
        BY <2>1 DEF Gathered
      <3>2. /\ In(q, p) <=> In(m, p)
            /\ q.fragments[p] = m.fragments[p] /\ q.removed = m.removed
            /\ key # "child" => q.child[p] = m.child[p]
            /\ key # "items" => q.items[p] = m.items[p]
        BY DEF Replaced, Still, Keys
      <3> QED  BY <3>1, <3>2 DEF Told
    <2>5. q.changesQueued \/ \A j \in Objects : q.fragments[j] = NoFragment
      BY <2>1 DEF Gathered, Replaced, Still
    <2> QED  BY <1>2, <2>2, <2>3, <2>4, <2>5 DEF Notes, Gathered
  <1> QED  BY <1>1, <1>2

\* What is gathered as an object leaves p.
LEMMA RemoveNotes ==
    ASSUME NEW m \in Models, NEW q \in Models, NEW s, NEW p \in Objects, NEW key \in Keys,
           NEW K \in SUBSET Keys, Keys \ {key} \subseteq K,
           NEW P \in SUBSET Objects, NEW X \in SUBSET Objects, NEW remote \in BOOLEAN,
           Notes(m, s, p, K, P, remote), Released(m, q, p, key, X, remote), p \notin X,
           \A o \in P : /\ p \notin Below(m, o) /\ Below(m, o) \subseteq Objects
                        /\ Below(m, o) \cap X = {}
    PROVE  Notes(q, s, p, K, P, remote)
  <1>1. PICK c, g :
           /\ Replaced(m, c, p, key)
           /\ \/ g = c /\ c.child = m.child /\ c.items = m.items
              \/ g = KeyChanged(c, p, key, remote)
           /\ SameGraph(c, g)
           /\ q = g \/ Left(g, q, X)
    BY DEF Released
  <1>2. c \in Models /\ g \in Models
    BY <1>1 DEF Replaced, SameGraph
  <1>3. Notes(g, s, p, K, P, remote)
    <2>1. CASE g = KeyChanged(c, p, key, remote)
      <3>1. Notes(c, s, p, K \ {key}, P, remote)
        BY <1>1, ReplacedNotes
      <3>2. Notes(g, s, p, Keys, P, remote)
        BY <1>2, <2>1, <3>1, KeyNotes
      <3> QED  BY <3>2, NotesFewer
    <2>2. CASE g = c /\ c.child = m.child /\ c.items = m.items
      <3>1. Still(m, g) /\ g.child = m.child /\ g.items = m.items
        BY <1>1, <2>2 DEF Replaced
      <3>2. CASE remote
        BY <3>1, <3>2 DEF Notes, Silent, Still
      <3>3. CASE ~remote
        <4>1. Gathered(m, s, p, K) /\ \A o \in P : Returns(m, s, p, o)
          BY <3>3 DEF Notes
        <4>2. \A L : \A j \in Objects : Told(m, s, j, L) => Told(g, s, j, L)
          BY <3>1 DEF Told, Still
        <4>3. g.changesQueued \/ \A j \in Objects : g.fragments[j] = NoFragment
          BY <3>1, <4>1 DEF Gathered, Still
        <4>4. \A o \in P : Returns(g, s, p, o)
          <5>1. \A o : Below(g, o) = Below(m, o)
            BY <3>1 DEF Below, Walk, Children
          <5> QED  BY <3>1, <4>1, <5>1 DEF Returns, Same, Still
        <4> QED  BY <3>3, <4>1, <4>2, <4>3, <4>4 DEF Notes, Gathered
      <3> QED  BY <3>2, <3>3
    <2> QED  BY <1>1, <2>1, <2>2
  <1>4. ASSUME NEW o \in P PROVE Below(g, o) = Below(m, o)
    <2>1. Elsewhere(m, g, p)
      BY <1>1 DEF Replaced, SameGraph, Elsewhere
    <2> QED  BY <2>1, BelowElsewhere
  <1>5. CASE Left(g, q, X)
    <2>1. CASE remote
      <3>1. Silent(g)
        BY <1>3, <2>1 DEF Notes
      <3>2. Silent(q)
        BY <1>5, <3>1 DEF Silent, Left
      <3> QED  BY <2>1, <3>2 DEF Notes
    <2>2. CASE ~remote
      <3>1. Gathered(g, s, p, K) /\ \A o \in P : Returns(g, s, p, o)
        BY <1>3, <2>2 DEF Notes
      <3>2. ASSUME NEW j \in Objects, NEW L, Told(g, s, j, L) PROVE Told(q, s, j, L)
        <4>1. /\ In(q, j) <=> In(g, j) /\ j \notin X
              /\ j \in q.removed <=> j \in g.removed \/ (j \in X /\ In(g, j))
              /\ q.fragments[j] = IF j \in X /\ In(g, j) THEN NoFragment ELSE g.fragments[j]
              /\ q.child[j] = g.child[j] /\ q.items[j] = g.items[j]
          BY <1>5 DEF Left, SameGraph
        <4> QED  BY <3>2, <4>1 DEF Told
      <3>3. q.changesQueued \/ \A j \in Objects : q.fragments[j] = NoFragment
        BY <1>5, <3>1 DEF Gathered, Left
      <3>4. ASSUME NEW o \in P PROVE Returns(q, s, p, o)
        <4>1. Below(q, o) = Below(m, o)
          <5>1. Below(q, o) = Below(g, o)
            BY <1>5 DEF Left, SameGraph, Below, Walk, Children
          <5> QED  BY <1>4, <5>1
        <4> SUFFICES ASSUME In(q, p), NEW j \in Below(m, o), j \in q.removed
                     PROVE  Same(s, q, j)
          BY <4>1 DEF Returns
        <4>2. j \in Objects /\ j \notin X
          OBVIOUS
        <4>3. In(g, p) /\ j \in g.removed
          BY <1>5, <4>2 DEF Left
        <4>4. Same(s, g, j)
          BY <1>4, <3>1, <4>3 DEF Returns
        <4> QED  BY <1>5, <4>4 DEF Same, Left, SameGraph
      <3> QED  BY <2>2, <3>1, <3>2, <3>3, <3>4 DEF Notes, Gathered
    <2> QED  BY <2>1, <2>2
  <1> QED  BY <1>1, <1>3, <1>5
-----------------------------------------------------------------------------
\* All keys but perhaps this one.
AllBut(key, K) == K \in SUBSET Keys /\ Keys \ {key} \subseteq K

\* Both: what may still be done, and what is gathered.
Going(m, s, rank, p, P, T, K, remote) ==
    /\ rank \in [Objects -> Nat] /\ p \in Objects /\ remote \in BOOLEAN
    /\ P \in SUBSET Objects /\ T \in SUBSET Objects
    /\ Underway(m, rank, p, P, T) /\ Notes(m, s, p, K, P, remote)

\* Only p has other links, and only objects of P know more parents: p.
Moved(m, q, p, P) ==
    /\ Elsewhere(m, q, p)
    /\ \A j \in Objects : \A r \in q.parents[j] : r \in m.parents[j] \/ (r[1] = p /\ j \in P)

\* One after the other, two such changes are one.
LEMMA MovedOn ==
    ASSUME NEW m, NEW g, NEW q, NEW p, NEW P, Moved(m, g, p, P), Moved(g, q, p, P)
    PROVE  Moved(m, q, p, P)
  BY DEF Moved, Elsewhere

\* One is put into p,
LEMMA AddGoes ==
    ASSUME NEW m, NEW s, NEW rank, NEW p, NEW P, NEW T, NEW K, NEW remote,
           Going(m, s, rank, p, P, T, K, remote),
           NEW i \in P, NEW key \in Keys
    PROVE  LET q == AddParent(m, i, p, key, remote)
           IN  Going(q, s, rank, p, P, T, K, remote) /\ Moved(m, q, p, P)
  <1> DEFINE q == AddParent(m, i, p, key, remote)
  <1>t. /\ rank \in [Objects -> Nat] /\ p \in Objects /\ remote \in BOOLEAN
        /\ P \in SUBSET Objects /\ T \in SUBSET Objects
    BY DEF Going
  <1>1. Underway(m, rank, p, P, T) /\ Notes(m, s, p, K, P, remote) /\ m \in Models
    BY DEF Going, Underway, Settling
  <1>2. /\ Underway(q, rank, p, P, T)
        /\ Learns(m, q, <<p, key>>, i)
        /\ Still(m, q) \/ (In(m, p) /\ Entered(m, q, Below(m, i), remote))
    BY <1>t, <1>1, AddUnderway
  <1>3. \A o \in P : p \notin Below(m, o) /\ Below(m, o) \subseteq Objects
    BY <1>t, <1>1, UnderwayBelow
  <1> HIDE DEF q
  <1>4. q \in Models /\ q.child = m.child /\ q.items = m.items
    BY <1>2 DEF Learns
  <1>5. Notes(q, s, p, K, P, remote)
    BY <1>t, <1>1, <1>2, <1>3, <1>4, AddNotes
  <1>6. Moved(m, q, p, P)
    <2>1. \A j \in Objects : q.parents[j] = IF j = i THEN m.parents[j] \cup {<<p, key>>}
                                          ELSE m.parents[j]
      BY <1>1, <1>2 DEF Learns, Models
    <2>2. ASSUME NEW j \in Objects, NEW r \in q.parents[j], r \notin m.parents[j]
          PROVE  r[1] = p /\ j \in P
      <3>1. j = i /\ r = <<p, key>>
        BY <2>1, <2>2
      <3> QED  BY <3>1
    <2>3. Elsewhere(m, q, p)
      BY <1>4 DEF Elsewhere
    <2> QED  BY <2>2, <2>3 DEF Moved
  <1> QED  BY <1>t, <1>2, <1>5, <1>6 DEF Going, q

\* one is taken from it,
LEMMA RemoveGoes ==
    ASSUME NEW m, NEW s, NEW rank, NEW p, NEW P, NEW T,
           NEW key \in Keys, NEW K, AllBut(key, K),
           NEW remote, Going(m, s, rank, p, P, T, K, remote),
           NEW i \in T
    PROVE  LET q == RemoveParent(m, i, p, key, remote)
           IN  Going(q, s, rank, p, P, T, K, remote) /\ Moved(m, q, p, P)
  <1> DEFINE q == RemoveParent(m, i, p, key, remote)
  <1>t. /\ rank \in [Objects -> Nat] /\ p \in Objects /\ remote \in BOOLEAN
        /\ P \in SUBSET Objects /\ T \in SUBSET Objects
    BY DEF Going
  <1>1. Underway(m, rank, p, P, T) /\ Notes(m, s, p, K, P, remote) /\ m \in Models
    BY DEF Going, Underway, Settling
  <1>2. /\ Underway(q, rank, p, P, T)
        /\ Forgets(m, q, <<p, key>>, i)
        /\ Elsewhere(m, q, p)
        /\ IsReleased(m, q, p, key, P, remote)
    <2>1. Underway(m, rank, p, P, T)
      BY <1>1
    <2> QED  BY <1>t, <2>1, RemoveUnderway, ZenonT(40)
  <1>3. \A o \in P : p \notin Below(m, o) /\ Below(m, o) \subseteq Objects
    BY <1>t, <1>1, UnderwayBelow
  <1> HIDE DEF q
  <1>4. q \in Models
    BY <1>2 DEF Underway, Settling
  <1>5. PICK X \in SUBSET Objects :
           /\ Released(m, q, p, key, X, remote)
           /\ p \notin X
           /\ \A o \in P : Below(m, o) \cap X = {}
    BY <1>2 DEF IsReleased
  <1>6. Notes(q, s, p, K, P, remote)
    BY <1>t, <1>1, <1>3, <1>4, <1>5, RemoveNotes DEF AllBut
  <1>7. Moved(m, q, p, P)
    <2>1. \A j \in Objects : q.parents[j] \subseteq m.parents[j]
      BY <1>1, <1>2 DEF Forgets, Models
    <2> QED  BY <1>2, <2>1 DEF Moved
  <1> QED  BY <1>t, <1>2, <1>6, <1>7 DEF Going, q

\* or the change is noted.
LEMMA KeyGoes ==
    ASSUME NEW m, NEW s, NEW rank, NEW p, NEW P, NEW T,
           NEW key \in Keys, NEW K, AllBut(key, K),
           NEW remote, Going(m, s, rank, p, P, T, K, remote)
    PROVE  LET q == KeyChanged(m, p, key, remote)
           IN  Going(q, s, rank, p, P, T, Keys, remote) /\ Moved(m, q, p, P)
  <1>t. /\ rank \in [Objects -> Nat] /\ p \in Objects /\ remote \in BOOLEAN
        /\ P \in SUBSET Objects /\ T \in SUBSET Objects
    BY DEF Going
  <1>1. Underway(m, rank, p, P, T) /\ Notes(m, s, p, K, P, remote) /\ m \in Models
    BY DEF Going, Underway, Settling
  <1>2. Underway(KeyChanged(m, p, key, remote), rank, p, P, T)
        /\ SameGraph(m, KeyChanged(m, p, key, remote))
    BY <1>t, <1>1, KeyUnderway
  <1>3. Notes(KeyChanged(m, p, key, remote), s, p, Keys, P, remote)
    BY <1>t, <1>1, KeyNotes DEF AllBut
  <1>4. Moved(m, KeyChanged(m, p, key, remote), p, P)
    BY <1>2 DEF SameGraph, Moved, Elsewhere
  <1> QED  BY <1>t, <1>2, <1>3, <1>4 DEF Going

\* All that is added to the collection of p.
LEMMA AddAllGo ==
    ASSUME NEW m, NEW s, NEW rank, NEW p, NEW P, NEW T,
           NEW K, AllBut("items", K),
           NEW remote, Going(m, s, rank, p, P, T, K, remote),
           NEW added \in Seq(P), ClientGraphAssumption
    PROVE  LET q == OnCollectionAdd(m, p, added, remote)
           IN  /\ Going(q, s, rank, p, P, T, IF added = <<>> THEN K ELSE Keys, remote)
               /\ Moved(m, q, p, P)
  <1> DEFINE N == Len(added)
             op(a, i) == KeyChanged(AddParent(a, i, p, "items", remote), p, "items", remote)
  <1>t. /\ rank \in [Objects -> Nat] /\ p \in Objects /\ remote \in BOOLEAN
        /\ P \in SUBSET Objects /\ T \in SUBSET Objects
    BY DEF Going
  <1>0. /\ m \in Models /\ "items" \in Keys /\ N \in Nat /\ added \in Seq(Objects)
        /\ \A n \in 1..N : added[n] \in P
        /\ N = 0 => added = <<>>
    BY DEF Going, Underway, Settling, Keys
  <1>1. ASSUME NEW a, NEW L, AllBut("items", L), NEW i \in P,
               Going(a, s, rank, p, P, T, L, remote)
        PROVE  Going(op(a, i), s, rank, p, P, T, Keys, remote) /\ Moved(a, op(a, i), p, P)
    <2> DEFINE b == AddParent(a, i, p, "items", remote)
    <2>1. Going(b, s, rank, p, P, T, L, remote) /\ Moved(a, b, p, P)
      BY <1>0, <1>1, AddGoes
    <2>2. op(a, i) = KeyChanged(b, p, "items", remote)
      OBVIOUS
    <2> HIDE DEF b, op
    <2>3. /\ Going(KeyChanged(b, p, "items", remote), s, rank, p, P, T, Keys, remote)
          /\ Moved(b, KeyChanged(b, p, "items", remote), p, P)
      <3>1. Going(b, s, rank, p, P, T, L, remote) /\ AllBut("items", L)
        BY <1>1, <2>1
      <3> QED  BY <1>0, <3>1, KeyGoes, Zenon
    <2> QED  BY <2>1, <2>2, <2>3, MovedOn
  <1>a. PICK F : IsAddRun(F, m, p, added, remote)
    BY <1>0, <1>t, OnCollectionAddRun
  <1>2. /\ F[0] = m
        /\ \A n \in 1..N : F[n] = op(F[n - 1], added[n])
        /\ OnCollectionAdd(m, p, added, remote) = F[N]
    BY <1>a DEF IsAddRun
  <1> HIDE DEF op
  <1> DEFINE Good(k) == /\ Going(F[k], s, rank, p, P, T, IF k = 0 THEN K ELSE Keys, remote)
                        /\ Moved(m, F[k], p, P)
             B == {k \in 0..N : Good(k)}
  <1>3. 0 \in B
    BY <1>0, <1>2 DEF Moved, Elsewhere
  <1>4. ASSUME NEW k \in 1..N, k - 1 \in B PROVE k \in B
    <2>1. Good(k - 1)
      BY <1>4
    <2>2. F[k] = op(F[k - 1], added[k]) /\ added[k] \in P
      BY <1>0, <1>2
    <2> DEFINE L == IF k - 1 = 0 THEN K ELSE Keys
    <2>3. AllBut("items", L)
      BY DEF AllBut
    <2>4. Going(F[k - 1], s, rank, p, P, T, L, remote)
      BY <2>1
    <2> HIDE DEF L
    <2>5. Going(F[k], s, rank, p, P, T, Keys, remote) /\ Moved(F[k - 1], F[k], p, P)
      BY <1>1, <2>2, <2>3, <2>4
    <2>6. Good(k)
      BY <2>1, <2>5, MovedOn
    <2> QED  BY <1>0, <2>6
  <1> HIDE DEF B
  <1>5. \A k \in 0..N : k \in B
    BY <1>0, <1>3, <1>4, Upwards
  <1>6. Good(N)
    BY <1>0, <1>5 DEF B
  <1>7. (N = 0) <=> (added = <<>>)
    BY <1>0
  <1> HIDE DEF N
  <1> QED  BY <1>2, <1>6, <1>7

\* All that is removed from it.
LEMMA RemoveAllGo ==
    ASSUME NEW m, NEW s, NEW rank, NEW p, NEW P, NEW T,
           NEW K, AllBut("items", K),
           NEW remote, Going(m, s, rank, p, P, T, K, remote),
           NEW removed \in Seq(T), ClientGraphAssumption
    PROVE  LET q == OnCollectionRemove(m, p, removed, remote)
           IN  /\ Going(q, s, rank, p, P, T, IF removed = <<>> THEN K ELSE Keys, remote)
               /\ Moved(m, q, p, P)
  <1> DEFINE N == Len(removed)
             op(a, i) == KeyChanged(RemoveParent(a, i, p, "items", remote), p, "items", remote)
  <1>t. /\ rank \in [Objects -> Nat] /\ p \in Objects /\ remote \in BOOLEAN
        /\ P \in SUBSET Objects /\ T \in SUBSET Objects
    BY DEF Going
  <1>0. /\ m \in Models /\ "items" \in Keys /\ N \in Nat /\ removed \in Seq(Objects)
        /\ \A n \in 1..N : removed[n] \in T
        /\ N = 0 => removed = <<>>
    BY DEF Going, Underway, Settling, Keys
  <1>1. ASSUME NEW a, NEW L, AllBut("items", L), NEW i \in T,
               Going(a, s, rank, p, P, T, L, remote)
        PROVE  Going(op(a, i), s, rank, p, P, T, Keys, remote) /\ Moved(a, op(a, i), p, P)
    <2> DEFINE b == RemoveParent(a, i, p, "items", remote)
    <2>1. Going(b, s, rank, p, P, T, L, remote) /\ Moved(a, b, p, P)
      <3>1. Going(a, s, rank, p, P, T, L, remote) /\ AllBut("items", L)
        BY <1>1
      <3> QED  BY <1>0, <3>1, RemoveGoes, Zenon
    <2>2. op(a, i) = KeyChanged(b, p, "items", remote)
      OBVIOUS
    <2> HIDE DEF b, op
    <2>3. /\ Going(KeyChanged(b, p, "items", remote), s, rank, p, P, T, Keys, remote)
          /\ Moved(b, KeyChanged(b, p, "items", remote), p, P)
      <3>1. Going(b, s, rank, p, P, T, L, remote) /\ AllBut("items", L)
        BY <1>1, <2>1
      <3> QED  BY <1>0, <3>1, KeyGoes, Zenon
    <2> QED  BY <2>1, <2>2, <2>3, MovedOn
  <1>a. PICK F : IsRemoveRun(F, m, p, removed, remote)
    BY <1>0, <1>t, OnCollectionRemoveRun
  <1>2. /\ F[0] = m
        /\ \A n \in 1..N : F[n] = op(F[n - 1], removed[n])
        /\ OnCollectionRemove(m, p, removed, remote) = F[N]
    BY <1>a DEF IsRemoveRun
  <1> HIDE DEF op
  <1> DEFINE Good(k) == /\ Going(F[k], s, rank, p, P, T, IF k = 0 THEN K ELSE Keys, remote)
                        /\ Moved(m, F[k], p, P)
             B == {k \in 0..N : Good(k)}
  <1>3. 0 \in B
    BY <1>0, <1>2 DEF Moved, Elsewhere
  <1>4. ASSUME NEW k \in 1..N, k - 1 \in B PROVE k \in B
    <2>1. Good(k - 1)
      BY <1>4
    <2>2. F[k] = op(F[k - 1], removed[k]) /\ removed[k] \in T
      BY <1>0, <1>2
    <2> DEFINE L == IF k - 1 = 0 THEN K ELSE Keys
    <2>3. AllBut("items", L)
      BY DEF AllBut
    <2>4. Going(F[k - 1], s, rank, p, P, T, L, remote)
      BY <2>1
    <2> HIDE DEF L
    <2>5. Going(F[k], s, rank, p, P, T, Keys, remote) /\ Moved(F[k - 1], F[k], p, P)
      BY <1>1, <2>2, <2>3, <2>4
    <2>6. Good(k)
      BY <2>1, <2>5, MovedOn
    <2> QED  BY <1>0, <2>6
  <1> HIDE DEF B
  <1>5. \A k \in 0..N : k \in B
    BY <1>0, <1>3, <1>4, Upwards
  <1>6. Good(N)
    BY <1>0, <1>5 DEF B
  <1>7. (N = 0) <=> (removed = <<>>)
    BY <1>0
  <1> HIDE DEF N
  <1> QED  BY <1>2, <1>6, <1>7
-----------------------------------------------------------------------------
\* Between steps: the two sides agree, nothing lies below itself, the scope
\* has what its objects hold and nothing of what was removed from it.
Settled(m, rank) ==
    /\ rank \in [Objects -> Nat] /\ m \in Models /\ Mirror(m)
    /\ Sorted(m, rank) /\ Uniform(m)
    /\ \A j \in m.removed : ~In(m, j)

\* What a setter of p may be given, P, and may let go of, T.
Careful(m, p, P, T) ==
    /\ p \in Objects /\ P \in SUBSET (Objects \ {Root}) /\ T \in SUBSET Objects
    /\ \A i \in P : p \notin Below(m, i) /\ MayHold(m, p, i)
    /\ \A i \in T : i \in Children(m, p) /\ MayLose(m, i) /\ P \cap Below(m, i) = {}

\* With what is below P ranked above p, p may hold that.
IsLift(m, rank, p, P, T) ==
    /\ rank \in [Objects -> Nat] /\ Sorted(m, rank)
    /\ \A i \in P \cup T : rank[p] < rank[i]

\* There are such ranks: what is below P is moved above p.
LEMMA Lifted ==
    ASSUME NEW m, NEW old, Settled(m, old), NEW p, NEW P, NEW T, Careful(m, p, P, T)
    PROVE  \E rank : IsLift(m, rank, p, P, T)
  <1> DEFINE U == {j \in Objects : \E i \in P : j \in Below(m, i)}
             rank == [j \in Objects |-> IF j \in U THEN old[j] + old[p] + 1 ELSE old[j]]
  <1>1. /\ old \in [Objects -> Nat] /\ m \in Models /\ Mirror(m) /\ Sorted(m, old)
        /\ p \in Objects /\ P \subseteq Objects /\ T \subseteq Objects
        /\ p \notin U /\ P \subseteq U
    BY BelowClosed DEF Settled, Careful
  <1>2. ASSUME NEW r \in Slots, NEW j \in Objects, Holds(m, r, j) \/ Knows(m, r, j), r[1] \in U
        PROVE  j \in U
    <2>1. r[1] \in Objects /\ r[2] \in Keys /\ r = <<r[1], r[2]>>
      BY DEF Slots
    <2>2. Holds(m, <<r[1], r[2]>>, j)
      BY <1>1, <1>2, <2>1 DEF Mirror
    <2>3. j \in Children(m, r[1])
      BY <1>1, <2>1, <2>2, ChildrenHeld
    <2> QED  BY <1>1, <1>2, <2>1, <2>3, BelowClosed
  <1>3. rank \in [Objects -> Nat]
    BY <1>1
  <1>4. \A j \in Objects : rank[j] = IF j \in U THEN old[j] + old[p] + 1 ELSE old[j]
    OBVIOUS
  <1> HIDE DEF rank, U
  <1>5. Sorted(m, rank)
    <2> SUFFICES ASSUME NEW r \in Slots, NEW j \in Objects, Holds(m, r, j) \/ Knows(m, r, j)
                 PROVE  rank[r[1]] < rank[j]
      BY DEF Sorted
    <2>1. old[r[1]] < old[j] /\ r[1] \in Objects
      BY <1>1 DEF Sorted, Slots
    <2>2. r[1] \in U => j \in U
      BY <1>2
    <2>3. old[r[1]] \in Nat /\ old[j] \in Nat /\ old[p] \in Nat
      BY <1>1, <2>1
    <2> QED  BY <1>4, <2>1, <2>2, <2>3
  <1>6. ASSUME NEW i \in P PROVE rank[p] < rank[i]
    <2>1. old[i] \in Nat /\ old[p] \in Nat /\ i \in U /\ i \in Objects
      BY <1>1
    <2> QED  BY <1>1, <1>4, <2>1
  <1>7. ASSUME NEW i \in T PROVE rank[p] < rank[i]
    <2>1. i \in Children(m, p) /\ i \in Objects
      BY <1>1 DEF Careful
    <2>2. PICK key \in Keys : Holds(m, <<p, key>>, i)
      BY <1>1, <2>1, ChildrenHeld
    <2>3. <<p, key>> \in Slots
      BY <1>1 DEF Slots
    <2> QED  BY <1>5, <2>1, <2>2, <2>3 DEF Sorted
  <1> QED  BY <1>3, <1>5, <1>6, <1>7 DEF IsLift

\* A setter starts: the new links are in place and nobody is told yet.
Begun(m, g, s, rank, p, P, T, key, remote) ==
    /\ Going(g, s, rank, p, P, T, Keys \ {key}, remote)
    /\ Moved(m, g, p, P)

\* So starts any setter that is given P only.
LEMMA Begins ==
    ASSUME NEW m, NEW old, Settled(m, old), NEW p, NEW P, NEW T, Careful(m, p, P, T),
           NEW s, NEW remote \in BOOLEAN, Notes(m, s, p, Keys, P, remote),
           NEW key \in Keys, NEW g, Replaced(m, g, p, key), g.parents = m.parents,
           \A j \in Objects : Holds(g, <<p, key>>, j) => Holds(m, <<p, key>>, j) \/ j \in P
    PROVE  \E rank : Begun(m, g, s, rank, p, P, T, key, remote)
  <1>1. PICK rank : IsLift(m, rank, p, P, T)
    BY Lifted
  <1>2. /\ m \in Models /\ Mirror(m) /\ Uniform(m) /\ \A j \in m.removed : ~In(m, j)
        /\ p \in Objects /\ P \in SUBSET Objects /\ T \in SUBSET Objects
        /\ rank \in [Objects -> Nat] /\ Sorted(m, rank)
        /\ m.parents \in [Objects -> SUBSET Slots]
    BY <1>1 DEF Settled, Careful, IsLift, Models
  <1>3. Settling(m, rank, p)
    BY <1>2 DEF Settling, Mirror
  <1>4. \A i \in P \cup T : p \notin Below(m, i) /\ Below(m, i) \subseteq Objects
    <2> SUFFICES ASSUME NEW i \in P \cup T
                 PROVE  p \notin Below(m, i) /\ Below(m, i) \subseteq Objects
      OBVIOUS
    <2>1. rank[p] < rank[i] /\ i \in Objects
      BY <1>1, <1>2 DEF IsLift
    <2> QED  BY <1>2, <1>3, <2>1, SettlingBelow, BelowClosed
  <1>5. Elsewhere(m, g, p)
    BY DEF Replaced, Elsewhere
  <1>6. \A i \in P \cup T : Below(g, i) = Below(m, i)
    BY <1>2, <1>4, <1>5, BelowElsewhere
  <1>7. g \in Models /\ (\A j \in Objects : In(g, j) <=> In(m, j)) /\ g.removed = m.removed
    BY DEF Replaced, Still
  <1>8. \A r \in Slots, j \in Objects : r[1] # p => (Holds(g, r, j) <=> Holds(m, r, j))
    BY <1>5 DEF Elsewhere, Holds, Slots
  <1>9. \A r \in Slots, j \in Objects : Holds(g, r, j) => Holds(m, r, j) \/ (r[1] = p /\ j \in P)
    <2> SUFFICES ASSUME NEW r \in Slots, NEW j \in Objects, Holds(g, r, j), r[1] = p
                 PROVE  Holds(m, r, j) \/ j \in P
      BY <1>8
    <2>1. r = <<p, r[2]>> /\ r[2] \in Keys
      BY DEF Slots
    <2>2. CASE r[2] = key
      BY <2>1, <2>2
    <2>3. CASE r[2] # key
      BY <2>1, <2>3 DEF Holds, Replaced, Keys
    <2> QED  BY <2>2, <2>3
  <1>10. Settling(g, rank, p)
    <2>1. \A r \in Slots, j \in Objects : r[1] # p => (Knows(g, r, j) <=> Holds(g, r, j))
      BY <1>2, <1>8 DEF Mirror, Knows
    <2>2. Sorted(g, rank)
      <3> SUFFICES ASSUME NEW r \in Slots, NEW j \in Objects, Holds(g, r, j) \/ Knows(g, r, j)
                   PROVE  rank[r[1]] < rank[j]
        BY DEF Sorted
      <3>1. CASE Holds(m, r, j) \/ Knows(m, r, j)
        BY <1>2, <3>1 DEF Sorted
      <3>2. CASE r[1] = p /\ j \in P
        BY <1>1, <3>2 DEF IsLift
      <3> QED  BY <1>9, <3>1, <3>2 DEF Knows
    <2>3. Uniform(g)
      <3>1. \A i \in Objects : \A r \in m.parents[i] : r[1] \in Objects
        BY <1>2 DEF Slots
      <3>2. Root \in Objects
        BY DEF Objects
      <3> QED  BY <1>2, <1>7, <3>1, <3>2 DEF Uniform
    <2>4. \A j \in g.removed : ~In(g, j)
      BY <1>2, <1>7 DEF Models
    <2> QED  BY <1>7, <2>1, <2>2, <2>3, <2>4 DEF Settling
  <1>11. ASSUME NEW i \in P PROVE i # Root /\ rank[p] < rank[i] /\ MayHold(g, p, i)
    <2>1. i # Root /\ rank[p] < rank[i] /\ MayHold(m, p, i)
      BY <1>1 DEF IsLift, Careful
    <2>2. Below(g, i) = Below(m, i) /\ Below(m, i) \subseteq Objects
      BY <1>4, <1>6
    <2>3. \A j \in Objects : \A r \in m.parents[j] : r[1] \in Objects
      BY <1>2 DEF Slots
    <2> QED  BY <1>2, <1>7, <2>1, <2>2, <2>3 DEF MayHold
  <1>12. ASSUME NEW i \in T PROVE rank[p] < rank[i] /\ MayLose(g, i) /\ P \cap Below(g, i) = {}
    <2>1. rank[p] < rank[i] /\ MayLose(m, i) /\ P \cap Below(m, i) = {}
      BY <1>1 DEF IsLift, Careful
    <2> QED  BY <1>6, <2>1 DEF MayLose
  <1>13. Underway(g, rank, p, P, T)
    BY <1>10, <1>11, <1>12 DEF Underway
  <1>14. Notes(g, s, p, Keys \ {key}, P, remote)
    BY <1>2, <1>4, ReplacedNotes
  <1>15. Moved(m, g, p, P)
    BY <1>5 DEF Moved
  <1> QED  BY <1>2, <1>13, <1>14, <1>15 DEF Begun, Going

\* It ends: the two sides agree again, and all that it did is gathered.
Ended(m, q, s, p, P, remote) ==
    /\ \E rank : Settled(q, rank)
    /\ Notes(q, s, p, Keys, {}, remote)
    /\ Moved(m, q, p, P)

\* So it ends once both sides of its links agree.
LEMMA Ends ==
    ASSUME NEW m, NEW q, NEW s, NEW rank, NEW p, NEW P, NEW T, NEW remote,
           Going(q, s, rank, p, P, T, Keys, remote), Mirror(q), Moved(m, q, p, P)
    PROVE  Ended(m, q, s, p, P, remote)
  <1>1. Settled(q, rank)
    BY DEF Going, Underway, Settling, Settled
  <1>2. Notes(q, s, p, Keys, {}, remote)
    BY DEF Going, Notes
  <1> QED  BY <1>1, <1>2 DEF Ended

\* A setter may start.
Ready(m, s, p, P, T, remote) ==
    /\ remote \in BOOLEAN /\ \E rank : Settled(m, rank)
    /\ Careful(m, p, P, T) /\ Notes(m, s, p, Keys, P, remote)

\* What is added to a content and removed from it to make another one.
Contents(had, items, added, removed) ==
    \A j \in Objects :
        /\ Contains(items, j) => Contains(had, j) \/ Contains(added, j)
        /\ Contains(had, j) => Contains(items, j) \/ Contains(removed, j)
        /\ Contains(added, j) => Contains(items, j) \/ Contains(removed, j)

NewItems(m, p, items, added, removed, remote) ==
    OnCollectionRemove(OnCollectionAdd([m EXCEPT !.items[p] = items], p, added, remote),
                       p, removed, remote)

\* A collection is given another content.
LEMMA NewItemsEnd ==
    ASSUME NEW m, NEW s, NEW p, NEW P, NEW T, NEW remote, Ready(m, s, p, P, T, remote),
           NEW items \in Seq(Objects), NEW added \in Seq(P), NEW removed \in Seq(T),
           remote \/ added # <<>> \/ removed # <<>>, ClientGraphAssumption,
           Contents(m.items[p], items, added, removed)
    PROVE  Ended(m, NewItems(m, p, items, added, removed, remote), s, p, P, remote)
  <1> DEFINE m1 == [m EXCEPT !.items[p] = items]
             m2 == OnCollectionAdd(m1, p, added, remote)
             q  == OnCollectionRemove(m2, p, removed, remote)
  <1>r. PICK old : Settled(m, old)
    BY DEF Ready
  <1>c. remote \in BOOLEAN /\ Careful(m, p, P, T) /\ Notes(m, s, p, Keys, P, remote)
    BY DEF Ready
  <1>1. /\ m \in Models /\ Mirror(m) /\ p \in Objects
        /\ P \in SUBSET Objects /\ T \in SUBSET Objects
        /\ added \in Seq(Objects) /\ removed \in Seq(Objects)
        /\ \A j \in Objects : Contains(added, j) => j \in P
        /\ "items" \in Keys
    BY <1>r, <1>c DEF Settled, Careful, Contains, Keys
  <1>2. Mirror(q)
    BY <1>1, <1>c, NewItemsMirror DEF Contents
  <1>3. /\ m1 \in Models /\ m1.child = m.child /\ m1.parents = m.parents
        /\ m1.items = [m.items EXCEPT ![p] = items]
        /\ m1.scope = m.scope /\ m1.fragments = m.fragments /\ m1.removed = m.removed
        /\ m1.changesQueued = m.changesQueued
    BY <1>1 DEF Models
  <1> HIDE DEF m1
  <1>4. Replaced(m, m1, p, "items")
    <2>1. Still(m, m1)
      BY <1>3 DEF Still, In
    <2>2. \A k \in Objects \ {p} : m1.items[k] = m.items[k]
      BY <1>1, <1>3 DEF Models
    <2> QED  BY <1>3, <2>1, <2>2 DEF Replaced
  <1>5. \A j \in Objects : Holds(m1, <<p, "items">>, j) => Holds(m, <<p, "items">>, j) \/ j \in P
    <2>1. m1.items[p] = items
      BY <1>1, <1>3 DEF Models
    <2> QED  BY <1>1, <2>1 DEF Holds, Contents
  <1>6. PICK rank : Begun(m, m1, s, rank, p, P, T, "items", remote)
    BY <1>r, <1>c, <1>1, <1>3, <1>4, <1>5, Begins
  <1>7. Going(m1, s, rank, p, P, T, Keys \ {"items"}, remote) /\ Moved(m, m1, p, P)
    BY <1>6 DEF Begun
  <1> DEFINE K == IF added = <<>> THEN Keys \ {"items"} ELSE Keys
  <1>8. AllBut("items", Keys \ {"items"}) /\ AllBut("items", K)
    BY DEF AllBut
  <1>9. Going(m2, s, rank, p, P, T, K, remote) /\ Moved(m1, m2, p, P)
    BY <1>7, <1>8, AddAllGo, Zenon
  <1> DEFINE L == IF removed = <<>> THEN K ELSE Keys
  <1> HIDE DEF m2, K
  <1>10. Going(q, s, rank, p, P, T, L, remote) /\ Moved(m2, q, p, P)
    BY <1>8, <1>9, RemoveAllGo, Zenon
  <1>11. Moved(m, q, p, P)
    <2> HIDE DEF q
    <2> QED  BY <1>7, <1>9, <1>10, MovedOn
  <1> HIDE DEF q
  <1>12. Going(q, s, rank, p, P, T, Keys, remote)
    <2>1. CASE remote
      BY <1>10, <2>1 DEF Going, Notes
    <2>2. CASE added # <<>> \/ removed # <<>>
      <3>1. L = Keys
        BY <2>2 DEF K
      <3> QED  BY <1>10, <3>1
    <2> QED  BY <2>1, <2>2
  <1>13. Ended(m, q, s, p, P, remote)
    BY <1>2, <1>11, <1>12, Ends
  <1>14. NewItems(m, p, items, added, removed, remote) = q
    BY DEF NewItems, q, m2, m1
  <1> QED  BY <1>13, <1>14

\* The setter of a property.
LEMMA SetChildEnds ==
    ASSUME NEW m, NEW s, NEW p, NEW remote, NEW new \in Objects \cup {Null},
           Ready(m, s, p, {new} \ {Null}, {m.child[p]} \ {Null}, remote),
           ClientGraphAssumption
    PROVE  Ended(m, SetChild(m, p, new, remote), s, p, {new} \ {Null}, remote)
  <1> DEFINE had    == m.child[p]
             P      == {new} \ {Null}
             T      == {had} \ {Null}
             given  == [m EXCEPT !.child[p] = new]
             left   == IF had = Null THEN given ELSE RemoveParent(given, had, p, "child", remote)
             joined == IF new = Null THEN left ELSE AddParent(left, new, p, "child", remote)
             q      == IF had = new THEN joined ELSE KeyChanged(joined, p, "child", remote)
  <1>r. PICK old : Settled(m, old)
    BY DEF Ready
  <1>c. p \in Objects /\ remote \in BOOLEAN
    BY DEF Ready, Careful
  <1>1. SetChild(m, p, new, remote) = q
    BY DEF SetChild
  <1>2. /\ m \in Models /\ Mirror(m)
        /\ P \in SUBSET Objects /\ T \in SUBSET Objects
        /\ "child" \in Keys /\ had \in Objects \cup {Null} /\ Null \notin Objects
    BY <1>r DEF Ready, Settled, Careful, Keys, Models, ClientGraphAssumption
  <1>3. new # had \/ new = Null
    <2> SUFFICES ASSUME new = had, new # Null PROVE FALSE
      OBVIOUS
    <2>1. new \in T /\ new \in P
      OBVIOUS
    <2>2. P \cap Below(m, new) = {}
      BY <2>1 DEF Ready, Careful
    <2>3. new \in Below(m, new)
      BY BelowClosed
    <2> QED  BY <2>1, <2>2, <2>3
  <1>4. Mirror(q)
    BY <1>c, <1>1, <1>2, <1>3, SetChildMirror
  <1>5. /\ given \in Models /\ given.items = m.items /\ given.parents = m.parents
        /\ given.child = [m.child EXCEPT ![p] = new]
        /\ given.scope = m.scope /\ given.fragments = m.fragments /\ given.removed = m.removed
        /\ given.changesQueued = m.changesQueued
    BY <1>c, <1>2 DEF Models
  <1> HIDE DEF given
  <1>6. Replaced(m, given, p, "child")
    <2>1. Still(m, given)
      BY <1>5 DEF Still, In
    <2>2. \A k \in Objects \ {p} : given.child[k] = m.child[k]
      BY <1>c, <1>2, <1>5 DEF Models
    <2> QED  BY <1>5, <2>1, <2>2 DEF Replaced
  <1>7. \A j \in Objects : Holds(given, <<p, "child">>, j) => Holds(m, <<p, "child">>, j) \/ j \in P
    <2>1. given.child[p] = new
      BY <1>c, <1>2, <1>5 DEF Models
    <2> QED  BY <1>2, <2>1 DEF Holds
  <1>a. Careful(m, p, P, T) /\ Notes(m, s, p, Keys, P, remote)
    BY DEF Ready
  <1> HIDE DEF P, T
  <1>8. PICK rank : Begun(m, given, s, rank, p, P, T, "child", remote)
    BY <1>r, <1>c, <1>a, <1>2, <1>5, <1>6, <1>7, Begins
  <1> DEFINE K == Keys \ {"child"}
  <1>9. Going(given, s, rank, p, P, T, K, remote) /\ Moved(m, given, p, P)
    BY <1>8 DEF Begun
  <1>10. AllBut("child", K)
    BY DEF AllBut
  <1> HIDE DEF K
  <1>11. Going(left, s, rank, p, P, T, K, remote) /\ Moved(m, left, p, P)
    <2>1. CASE had = Null
      BY <1>9, <2>1
    <2>2. CASE had # Null
      <3>1. had \in T /\ left = RemoveParent(given, had, p, "child", remote)
        BY <2>2 DEF T
      <3> HIDE DEF left, had
      <3>2. /\ Going(RemoveParent(given, had, p, "child", remote), s, rank, p, P, T, K, remote)
            /\ Moved(given, RemoveParent(given, had, p, "child", remote), p, P)
        BY <1>2, <1>9, <1>10, <3>1, RemoveGoes, Zenon
      <3> QED  BY <1>9, <3>1, <3>2, MovedOn
    <2> QED  BY <2>1, <2>2
  <1> HIDE DEF left
  <1>12. Going(joined, s, rank, p, P, T, K, remote) /\ Moved(m, joined, p, P)
    <2>1. CASE new = Null
      BY <1>11, <2>1
    <2>2. CASE new # Null
      <3>1. new \in P /\ joined = AddParent(left, new, p, "child", remote)
        BY <2>2 DEF P
      <3> HIDE DEF joined
      <3>2. /\ Going(AddParent(left, new, p, "child", remote), s, rank, p, P, T, K, remote)
            /\ Moved(left, AddParent(left, new, p, "child", remote), p, P)
        BY <1>2, <1>11, <3>1, AddGoes, Zenon
      <3> QED  BY <1>11, <3>1, <3>2, MovedOn
    <2> QED  BY <2>1, <2>2
  <1>13. ASSUME had # new PROVE Ended(m, q, s, p, P, remote)
    <2>1. q = KeyChanged(joined, p, "child", remote)
      BY <1>13
    <2> HIDE DEF joined, q, had
    <2>2. /\ Going(KeyChanged(joined, p, "child", remote), s, rank, p, P, T, Keys, remote)
          /\ Moved(joined, KeyChanged(joined, p, "child", remote), p, P)
      BY <1>2, <1>10, <1>12, KeyGoes, Zenon
    <2>3. Moved(m, q, p, P)
      BY <1>12, <2>1, <2>2, MovedOn
    <2> QED  BY <1>4, <2>1, <2>2, <2>3, Ends
  <1>14. ASSUME had = new PROVE Ended(m, q, s, p, P, remote)
    <2>1. new = Null
      BY <1>3, <1>14
    <2>2. q = given
      BY <1>14, <2>1 DEF left
    <2>3. given.child = m.child
      BY <1>c, <1>2, <1>5, <1>14 DEF Models
    <2> HIDE DEF q
    <2>4. \A j \in Objects : Told(m, s, j, Keys) => Told(given, s, j, Keys)
      BY <1>5, <2>3 DEF Told, In
    <2>5. Notes(given, s, p, Keys, {}, remote)
      <3>1. CASE remote
        BY <1>a, <1>5, <3>1 DEF Notes, Silent
      <3>2. CASE ~remote
        BY <1>a, <1>5, <2>4, <3>2 DEF Notes, Gathered
      <3> QED  BY <3>1, <3>2
    <2>6. Going(given, s, rank, p, {}, {}, Keys, remote)
      <3>1. Settling(given, rank, p)
        BY <1>9 DEF Going, Underway
      <3> QED  BY <1>9, <2>5, <3>1 DEF Going, Underway
    <2>7. Mirror(given)
      BY <1>4, <2>2
    <2>8. Ended(m, given, s, p, P, remote)
      <3>1. Moved(m, given, p, P)
        BY <1>9
      <3>2. \E k : Settled(given, k)
        <4>1. Settled(given, rank)
          BY <2>6, <2>7 DEF Going, Underway, Settling, Settled
        <4> QED  BY <4>1
      <3> QED  BY <2>5, <3>1, <3>2 DEF Ended
    <2> QED  BY <2>2, <2>8
  <1> QED  BY <1>1, <1>13, <1>14 DEF P
-----------------------------------------------------------------------------
\* A sequence is one of all sets that have its elements.
LEMMA SeqTo ==
    ASSUME NEW S, NEW s \in Seq(S), NEW P, \A x \in S : Contains(s, x) => x \in P
    PROVE  s \in Seq(P)
  <1>1. Len(s) \in Nat /\ DOMAIN s = 1..Len(s) /\ \A n \in 1..Len(s) : s[n] \in S
    OBVIOUS
  <1>2. \A n \in 1..Len(s) : s[n] \in P
    BY <1>1 DEF Contains
  <1>3. s = [n \in 1..Len(s) |-> s[n]]
    OBVIOUS
  <1> DEFINE f == [n \in 1..Len(s) |-> s[n]]
  <1>4. f \in Seq(P)
    BY <1>1, <1>2
  <1> QED  BY <1>3, <1>4

\* The elements of a collection are children.
LEMMA ItemsAreChildren ==
    ASSUME NEW m \in Models, NEW p \in Objects
    PROVE  \A i \in Objects : Contains(m.items[p], i) => i \in Children(m, p)
  BY ToSetContains DEF Children, Models

\* splice, and with it push, unshift, pop and shift.
LEMMA SpliceEnds ==
    ASSUME NEW m, NEW s, NEW p, NEW P, NEW T, NEW remote, Ready(m, s, p, P, T, remote),
           NEW new \in Seq(P), NEW start \in Nat, NEW count \in Nat,
           start + count <= Len(m.items[p]), ClientGraphAssumption,
           SubSeq(m.items[p], start + 1, start + count) \in Seq(T),
           remote \/ new # <<>> \/ SubSeq(m.items[p], start + 1, start + count) # <<>>
    PROVE  Ended(m, SpliceItems(m, p, start, count, new, remote), s, p, P, remote)
  <1> DEFINE had     == m.items[p]
             removed == SubSeq(had, start + 1, start + count)
             spliced == SubSeq(had, 1, start) \o new \o SubSeq(had, start + count + 1, Len(had))
             q == NewItems(m, p, spliced, new, removed, remote)
  <1>1. SpliceItems(m, p, start, count, new, remote) = q
    BY DEF SpliceItems, NewItems
  <1>2. had \in Seq(Objects) /\ new \in Seq(Objects)
    BY DEF Ready, Settled, Careful, Models
  <1>3. /\ removed \in Seq(T) /\ spliced \in Seq(Objects)
        /\ \A x \in Objects :
              /\ Contains(spliced, x) => Contains(had, x) \/ Contains(new, x)
              /\ Contains(had, x) => Contains(spliced, x) \/ Contains(removed, x)
              /\ Contains(new, x) => Contains(spliced, x)
    BY <1>2, SpliceContains
  <1>4. remote \/ new # <<>> \/ removed # <<>>
    OBVIOUS
  <1> HIDE DEF removed, spliced
  <1>5. Contents(m.items[p], spliced, new, removed)
    BY <1>3 DEF Contents
  <1>6. removed \in Seq(T) /\ spliced \in Seq(Objects)
    BY <1>3
  <1>7. Ended(m, q, s, p, P, remote)
    BY <1>4, <1>5, <1>6, NewItemsEnd, Zenon
  <1> QED  BY <1>1, <1>7

\* reset.
LEMMA ResetEnds ==
    ASSUME NEW m, NEW s, NEW p, NEW remote, NEW new \in Seq(Objects),
           Ready(m, s, p, ToSet(new) \ ToSet(m.items[p]),
                 ToSet(m.items[p]) \ ToSet(new), remote),
           remote \/ ToSet(new) # ToSet(m.items[p]), ClientGraphAssumption
    PROVE  Ended(m, ResetItems(m, p, new, remote), s, p, ToSet(new) \ ToSet(m.items[p]), remote)
  <1> DEFINE had     == m.items[p]
             P       == ToSet(new) \ ToSet(had)
             T       == ToSet(had) \ ToSet(new)
             added   == Without(new, ToSet(had))
             removed == Without(had, ToSet(new))
             q == NewItems(m, p, new, added, removed, remote)
  <1>1. ResetItems(m, p, new, remote) = q
    BY DEF ResetItems, NewItems
  <1>2. had \in Seq(Objects)
    BY DEF Ready, Settled, Careful, Models
  <1>3. /\ \A x : /\ x \in ToSet(had) <=> Contains(had, x)
                  /\ x \in ToSet(new) <=> Contains(new, x)
        /\ ToSet(had) \subseteq Objects /\ ToSet(new) \subseteq Objects
    BY <1>2, ToSetContains
  <1>4. /\ added \in Seq(Objects)
        /\ \A x \in Objects : Contains(added, x) <=> Contains(new, x) /\ x \notin ToSet(had)
    BY WithoutType, ContainsWithout
  <1>5. /\ removed \in Seq(Objects)
        /\ \A x \in Objects : Contains(removed, x) <=> Contains(had, x) /\ x \notin ToSet(new)
    BY <1>2, WithoutType, ContainsWithout
  <1> HIDE DEF added, removed
  <1>6. added \in Seq(P)
    BY <1>3, <1>4, SeqTo
  <1>7. removed \in Seq(T)
    BY <1>3, <1>5, SeqTo
  <1>8. remote \/ added # <<>> \/ removed # <<>>
    <2> SUFFICES ASSUME ~remote, added = <<>>, removed = <<>> PROVE FALSE
      OBVIOUS
    <2>1. \A x : ~Contains(added, x) /\ ~Contains(removed, x)
      BY DEF Contains
    <2>2. ToSet(new) = ToSet(had)
      BY <1>3, <1>4, <1>5, <2>1
    <2> QED  BY <2>2
  <1>9. Ready(m, s, p, P, T, remote)
    OBVIOUS
  <1>10. Contents(m.items[p], new, added, removed)
    BY <1>3, <1>4, <1>5 DEF Contents
  <1> HIDE DEF P, T
  <1>11. Ended(m, q, s, p, P, remote)
    BY <1>6, <1>7, <1>8, <1>9, <1>10, NewItemsEnd, Zenon
  <1> QED  BY <1>1, <1>11 DEF P

\* pop and shift of nothing.
LEMMA KeyEnds ==
    ASSUME NEW m, NEW old, Settled(m, old), NEW p \in Objects, NEW key \in Keys,
           NEW s, NEW remote \in BOOLEAN, Notes(m, s, p, Keys, {}, remote)
    PROVE  Ended(m, KeyChanged(m, p, key, remote), s, p, {}, remote)
  <1> DEFINE q == KeyChanged(m, p, key, remote)
  <1>1. m \in Models /\ Mirror(m)
    BY DEF Settled
  <1>2. Settling(m, old, p)
    BY DEF Settled, Settling, Mirror
  <1>3. Going(m, s, old, p, {}, {}, Keys, remote)
    BY <1>2 DEF Going, Underway, Settled
  <1>4. AllBut(key, Keys)
    BY DEF AllBut
  <1>5. Going(q, s, old, p, {}, {}, Keys, remote) /\ Moved(m, q, p, {})
    BY <1>3, <1>4, KeyGoes, Zenon
  <1>6. Mirror(q)
    <2>1. SameGraph(m, q)
      BY <1>1, KeyChangedSame
    <2> QED  BY <1>1, <2>1 DEF SameGraph, Mirror, Knows, Holds
  <1> QED  BY <1>5, <1>6, Ends

\* All that the application did is gathered.
All(m, s) ==
    /\ m.changesQueued \/ \A j \in Objects : m.fragments[j] = NoFragment
    /\ \A j \in Objects : Told(m, s, j, Keys)

\* Only objects of P know more parents: p.
Grown(m, q, p, P) ==
    \A j \in Objects : \A r \in q.parents[j] : r \in m.parents[j] \/ (r[1] = p /\ j \in P)

\* Between the steps.
Well(m, s) == (\E rank : Settled(m, rank)) /\ All(m, s)

\* A setter of the application leaves it so.
LEMMA EndsWell ==
    ASSUME NEW m, NEW q, NEW s, NEW p, NEW P, Ended(m, q, s, p, P, FALSE)
    PROVE  Well(q, s) /\ Grown(m, q, p, P)
  BY DEF Ended, Well, Grown, Moved, Notes, Gathered, All

\* detach lets go of one parent after the other.
LEMMA DetachEnds ==
    ASSUME NEW m, NEW s, Well(m, s), NEW i \in Objects, MayLose(m, i), ClientGraphAssumption
    PROVE  LET q == Detach(m, i)
           IN  Well(q, s) /\ Grown(m, q, i, {})
  <1>1. PICK rank : Settled(m, rank)
    BY DEF Well
  <1>2. m \in Models /\ Mirror(m) /\ All(m, s) /\ Sorted(m, rank)
    BY <1>1 DEF Settled, Well
  <1> DEFINE known == SetToSeq(m.parents[i])
             N == Len(known)
             op(a, l) == RemoveParent(a, i, l[1], l[2], FALSE)
  <1>3. N \in Nat /\ \A n \in 1..N : known[n] \in m.parents[i] /\ known[n] \in Slots
    BY <1>2, KnownSlots
  <1>4. PICK F : IsDetachRun(F, m, i)
    BY <1>2, DetachRun
  <1>5. /\ F[0] = m
        /\ \A n \in 1..N : F[n - 1] \in Models /\ F[n] = op(F[n - 1], known[n])
        /\ Detach(m, i) = F[N]
    BY <1>4 DEF IsDetachRun
  <1>6. ASSUME NEW a, Settled(a, rank), All(a, s), MayLose(a, i), NEW l \in Slots, l \in m.parents[i]
        PROVE  /\ Settled(op(a, l), rank) /\ All(op(a, l), s) /\ MayLose(op(a, l), i)
               /\ Grown(a, op(a, l), i, {})
    <2> DEFINE p == l[1]
               key == l[2]
    <2>1. p \in Objects /\ key \in Keys /\ l = <<p, key>>
      BY DEF Slots
    <2>2. rank[p] < rank[i]
      BY <1>2, <1>6 DEF Sorted, Knows
    <2>3. Going(a, s, rank, p, {}, {i}, Keys, FALSE)
      <3>1. Settling(a, rank, p)
        BY <1>6 DEF Settled, Settling, Mirror
      <3>2. Underway(a, rank, p, {}, {i})
        BY <1>6, <2>2, <3>1 DEF Underway
      <3>3. Notes(a, s, p, Keys, {}, FALSE)
        BY <1>6 DEF All, Notes, Gathered
      <3> QED  BY <1>6, <2>1, <3>2, <3>3 DEF Going, Settled
    <2>4. AllBut(key, Keys) /\ i \in {i}
      BY DEF AllBut
    <2> HIDE DEF p, key
    <2> DEFINE q == RemoveParent(a, i, p, key, FALSE)
    <2>5. Going(q, s, rank, p, {}, {i}, Keys, FALSE) /\ Moved(a, q, p, {})
      BY <2>1, <2>3, <2>4, RemoveGoes, Zenon
    <2>6. Mirror(q)
      <3>1. Forgets(a, q, l, i)
        BY <1>6, <2>1, RemoveParentFacts DEF Settled
      <3> QED  BY <1>6, <3>1, ForgetsMirror DEF Settled
    <2>7. op(a, l) = q
      BY DEF p, key
    <2> HIDE DEF q, op
    <2>8. Settled(q, rank) /\ All(q, s) /\ MayLose(q, i)
      BY <2>5, <2>6 DEF Going, Underway, Settling, Settled, Notes, Gathered, All
    <2>9. Grown(a, q, i, {})
      BY <2>5 DEF Moved, Grown
    <2> QED  BY <2>7, <2>8, <2>9
  <1> HIDE DEF op
  <1> DEFINE Good(k) == /\ Settled(F[k], rank) /\ All(F[k], s) /\ MayLose(F[k], i)
                        /\ Grown(m, F[k], i, {})
             B == {k \in 0..N : Good(k)}
  <1>7. 0 \in B
    BY <1>1, <1>2, <1>3, <1>5 DEF Grown
  <1>8. ASSUME NEW k \in 1..N, k - 1 \in B PROVE k \in B
    <2>1. Good(k - 1)
      BY <1>8
    <2>2. F[k] = op(F[k - 1], known[k])
      BY <1>5
    <2>3. known[k] \in Slots /\ known[k] \in m.parents[i]
      BY <1>3
    <2> HIDE DEF known
    <2>4. /\ Settled(F[k], rank) /\ All(F[k], s) /\ MayLose(F[k], i)
          /\ Grown(F[k - 1], F[k], i, {})
      BY <1>6, <2>1, <2>2, <2>3
    <2>5. Good(k)
      BY <2>1, <2>4 DEF Grown
    <2> QED  BY <2>5, <1>3
  <1> HIDE DEF B
  <1>9. \A k \in 0..N : k \in B
    BY <1>3, <1>7, <1>8, Upwards
  <1>10. Good(N)
    BY <1>3, <1>9 DEF B
  <1> QED  BY <1>5, <1>10 DEF Well
-----------------------------------------------------------------------------
\* What the scope has is what can be reached from its root: what holds an
\* object of the scope is in it too, and that leads up to the root.
LEMMA Reached ==
    ASSUME NEW m, NEW rank, Settled(m, rank)
    PROVE  Attached(m) = Below(m, Root)
  <1> DEFINE X == Below(m, Root)
  <1>1. /\ m \in Models /\ Mirror(m) /\ Sorted(m, rank) /\ Uniform(m)
        /\ rank \in [Objects -> Nat] /\ Root \in Objects
        /\ m.parents \in [Objects -> SUBSET Slots]
    BY DEF Settled, Models, Objects
  <1>2. X \subseteq Objects /\ Root \in X /\ \A k \in X, j \in Objects : j \in Children(m, k) => j \in X
    BY <1>1, BelowClosed
  <1>3. \A k \in Objects, j \in Objects :
           j \in Children(m, k) <=> \E key \in Keys : Knows(m, <<k, key>>, j)
    <2> SUFFICES ASSUME NEW k \in Objects, NEW j \in Objects
                 PROVE  j \in Children(m, k) <=> \E key \in Keys : Knows(m, <<k, key>>, j)
      OBVIOUS
    <2>1. j \in Children(m, k) <=> \E key \in Keys : Holds(m, <<k, key>>, j)
      BY <1>1, ChildrenHeld
    <2>2. \A key \in Keys : Knows(m, <<k, key>>, j) <=> Holds(m, <<k, key>>, j)
      BY <1>1 DEF Mirror, Slots
    <2> QED  BY <2>1, <2>2
  <1>4. X \subseteq Attached(m)
    <2> DEFINE S == Attached(m)
    <2>1. Root \in S
      BY <1>1 DEF Attached, Uniform, In
    <2>2. \A k \in X, j \in Objects : j \in Children(m, k) /\ k \in S => j \in S
      <3> SUFFICES ASSUME NEW k \in X, NEW j \in Objects, j \in Children(m, k), k \in S
                   PROVE  j \in S
        OBVIOUS
      <3>1. PICK key \in Keys : <<k, key>> \in m.parents[j]
        BY <1>2, <1>3 DEF Knows
      <3>2. In(m, k) <=> In(m, j)
        BY <1>1, <3>1 DEF Uniform
      <3> QED  BY <3>2 DEF Attached, In
    <2> HIDE DEF S
    <2>3. X \subseteq S
      BY <1>1, <2>1, <2>2, HandedDown
    <2> QED  BY <2>3 DEF S
  <1> HIDE DEF X
  <1>5. ASSUME NEW i \in Objects, In(m, i) PROVE i \in X
    <2> DEFINE n == rank[i]
               B == {k \in 0..n : \A o \in Objects : In(m, o) /\ rank[o] <= k => o \in X}
    <2>0. n \in Nat
      BY <1>1
    <2>1. ASSUME NEW o \in Objects, In(m, o), o # Root
          PROVE  \E k \in Objects : In(m, k) /\ rank[k] < rank[o] /\ o \in Children(m, k)
      <3>1. m.parents[o] # {}
        BY <1>1, <2>1 DEF Uniform
      <3>2. PICK r \in m.parents[o] : TRUE
        BY <3>1
      <3>3. r \in Slots /\ r[1] \in Objects /\ r[2] \in Keys /\ r = <<r[1], r[2]>>
        BY <1>1, <3>2 DEF Slots
      <3>4. In(m, r[1])
        BY <1>1, <2>1, <3>2 DEF Uniform
      <3>5. Knows(m, r, o)
        BY <3>2 DEF Knows
      <3>6. rank[r[1]] < rank[o]
        BY <1>1, <3>3, <3>5 DEF Sorted
      <3>7. o \in Children(m, r[1])
        BY <1>3, <3>3, <3>5
      <3> QED  BY <3>3, <3>4, <3>6, <3>7
    <2>2. 0 \in B
      <3> SUFFICES ASSUME NEW o \in Objects, In(m, o), rank[o] <= 0 PROVE o \in X
        BY <2>0
      <3>1. CASE o = Root
        BY <1>2, <3>1
      <3>2. CASE o # Root
        <4>1. PICK k \in Objects : rank[k] < rank[o]
          BY <2>1, <3>2
        <4> QED  BY <1>1, <4>1
      <3> QED  BY <3>1, <3>2
    <2>3. ASSUME NEW k \in 1..n, k - 1 \in B PROVE k \in B
      <3> SUFFICES ASSUME NEW o \in Objects, In(m, o), rank[o] <= k PROVE o \in X
        BY <2>0
      <3>1. CASE o = Root
        BY <1>2, <3>1
      <3>2. CASE o # Root
        <4>1. PICK l \in Objects : In(m, l) /\ rank[l] < rank[o] /\ o \in Children(m, l)
          BY <2>1, <3>2
        <4>2. rank[l] <= k - 1
          BY <1>1, <2>0, <4>1
        <4>3. l \in X
          BY <2>3, <4>1, <4>2
        <4> QED  BY <1>2, <4>1, <4>3
      <3> QED  BY <3>1, <3>2
    <2> HIDE DEF B
    <2>4. \A k \in 0..n : k \in B
      BY <2>0, <2>2, <2>3, Upwards
    <2>5. n \in B /\ rank[i] <= n
      BY <2>0, <2>4
    <2> QED  BY <1>5, <2>5 DEF B
  <1> QED  BY <1>4, <1>5 DEF X, Attached, In
-----------------------------------------------------------------------------
\* What the server makes of a change set.

Servers == [has   : SUBSET Objects,
            child : [Objects -> Objects \cup {Null}],
            items : [Objects -> Seq(Objects)]]

KnownTo(s, f) == s.has \cup {i \in Objects : f[i].type = "add"}

Takes(s, f, i) ==
    /\ Refs(f[i]) \subseteq KnownTo(s, f)
    /\ \/ f[i].type = "add" /\ i \notin s.has
       \/ f[i].type = "change" /\ i \in s.has

LinksAfter(s, f) ==
    [child |-> [i \in Objects |-> IF Takes(s, f, i) /\ f[i].child # Unset
                                  THEN f[i].child ELSE s.child[i]],
     items |-> [i \in Objects |-> IF Takes(s, f, i) /\ f[i].items # Unset
                                  THEN f[i].items ELSE s.items[i]]]

\* The parts of what the server applies.
LEMMA AppliedParts ==
    ASSUME NEW s \in Servers, NEW f \in [Objects -> Fragments]
    PROVE  LET d == Applied(s, f)
               g == LinksAfter(s, f)
           IN  /\ d \in Servers
               /\ d.has = Walk(g, Root, KnownTo(s, f))
               /\ \A i \in d.has : d.child[i] = g.child[i] /\ d.items[i] = g.items[i]
  <1> DEFINE adds   == {i \in Objects : f[i].type = "add"} \ s.has
             known  == s.has \cup adds
             valid  == {i \in Objects : /\ Refs(f[i]) \subseteq known
                                        /\ \/ i \in adds
                                           \/ f[i].type = "change" /\ i \in s.has}
             child  == [i \in Objects |-> IF i \in valid /\ f[i].child # Unset
                                          THEN f[i].child ELSE s.child[i]]
             items  == [i \in Objects |-> IF i \in valid /\ f[i].items # Unset
                                          THEN f[i].items ELSE s.items[i]]
             has    == Walk([child |-> child, items |-> items], Root, known)
             d      == Applied(s, f)
  <1>1. d = [has   |-> has,
             child |-> [i \in Objects |-> IF i \in has THEN child[i] ELSE Null],
             items |-> [i \in Objects |-> IF i \in has THEN items[i] ELSE <<>>]]
    BY DEF Applied
  <1>2. known = KnownTo(s, f)
    BY DEF KnownTo
  <1> HIDE DEF known
  <1>3. \A i \in Objects : i \in valid <=> Takes(s, f, i)
    BY <1>2 DEF Takes
  <1> HIDE DEF valid
  <1>4. [child |-> child, items |-> items] = LinksAfter(s, f)
    BY <1>3 DEF LinksAfter
  <1>5. child = LinksAfter(s, f).child /\ items = LinksAfter(s, f).items
    <2>1. /\ [child |-> child, items |-> items].child = child
          /\ [child |-> child, items |-> items].items = items
      <3> HIDE DEF child, items
      <3> QED  OBVIOUS
    <2> QED  BY <1>4, <2>1, Zenon
  <1>6. has = Walk(LinksAfter(s, f), Root, KnownTo(s, f))
    BY <1>2, <1>4
  <1>7. /\ d.has \subseteq Objects
        /\ d.child \in [Objects -> Objects \cup {Null}]
        /\ d.items \in [Objects -> Seq(Objects)]
    BY ClientGraphAssumption, AppliedType DEF Servers
  <1> HIDE DEF child, items, has, d
  <1>8. d.has = has /\ has \subseteq Objects
    BY <1>1, <1>7
  <1>9. \A i \in has : d.child[i] = child[i] /\ d.items[i] = items[i]
    BY <1>1, <1>8
  <1>10. d \in Servers
    <2>1. d = [has |-> d.has, child |-> d.child, items |-> d.items]
      BY <1>1
    <2> QED  BY <1>7, <2>1 DEF Servers
  <1> QED  BY <1>5, <1>6, <1>8, <1>9, <1>10 DEF d

\* A server has what a client's scope has.
HasAll(s, m) ==
    /\ s.has = Below(m, Root)
    /\ \A i \in s.has : s.child[i] = m.child[i] /\ s.items[i] = m.items[i]

\* It will have that after a change set if the links are then the client's.
Fits(s, f, m) ==
    /\ s \in Servers /\ f \in [Objects -> Fragments]
    /\ Below(m, Root) \subseteq KnownTo(s, f)
    /\ \A i \in Below(m, Root) : /\ LinksAfter(s, f).child[i] = m.child[i]
                                  /\ LinksAfter(s, f).items[i] = m.items[i]

\* It will have all the client has.
LEMMA Matches ==
    ASSUME NEW s, NEW f, NEW m, Fits(s, f, m)
    PROVE  HasAll(Applied(s, f), m)
  <1> DEFINE g == LinksAfter(s, f)
             d == Applied(s, f)
             W == KnownTo(s, f)
  <1>1. /\ d.has = Walk(g, Root, W)
        /\ \A i \in d.has : d.child[i] = g.child[i] /\ d.items[i] = g.items[i]
    BY AppliedParts DEF Fits
  <1>2. W \subseteq Objects /\ Root \in Objects
    BY DEF KnownTo, Servers, Objects, Fits
  <1>a. /\ \A i \in Below(m, Root) : g.child[i] = m.child[i] /\ g.items[i] = m.items[i]
        /\ Below(m, Root) \subseteq W
    BY DEF Fits
  <1> HIDE DEF g, d, W
  <1>3. Below(g, Root) = Below(m, Root)
    <2>1. \A i \in Below(m, Root) : Children(g, i) = Children(m, i)
      BY <1>a DEF Children
    <2> QED  BY <1>2, <2>1, BelowAlike
  <1>4. Walk(g, Root, W) = Below(g, Root)
    BY <1>2, <1>3, <1>a, WalkIsBelow
  <1> QED  BY <1>1, <1>3, <1>4, <1>a DEF HasAll, d

\* What the client gathered is what the server lacks.
LEMMA Caught ==
    ASSUME NEW m, NEW s \in Servers, Well(m, s), ClientGraphAssumption
    PROVE  HasAll(Applied(s, m.fragments), m)
  <1> DEFINE f == m.fragments
             X == Below(m, Root)
  <1>1. PICK rank : Settled(m, rank)
    BY DEF Well
  <1>2. /\ m \in Models /\ f \in [Objects -> Fragments] /\ Root \in Objects
        /\ \A j \in Objects : Told(m, s, j, Keys)
        /\ m.child \in [Objects -> Objects \cup {Null}] /\ m.items \in [Objects -> Seq(Objects)]
    BY <1>1 DEF Settled, Models, Well, All, Objects
  <1>3. X \subseteq Objects /\ (\A j \in Objects : j \in X <=> In(m, j))
        /\ \A k \in X, j \in Objects : j \in Children(m, k) => j \in X
    BY <1>1, <1>2, Reached, BelowClosed DEF Attached, In
  <1> HIDE DEF X
  <1>4. ASSUME NEW j \in X
        PROVE  /\ f[j].type = "add" <=> j \notin s.has
               /\ f[j].type = "none" => f[j] = NoFragment
               /\ \/ f[j].child = m.child[j]
                  \/ f[j].child = Unset /\ j \in s.has /\ s.child[j] = m.child[j]
               /\ \/ f[j].items = m.items[j]
                  \/ f[j].items = Unset /\ j \in s.has /\ s.items[j] = m.items[j]
    <2>1. Told(m, s, j, Keys) /\ In(m, j)
      BY <1>2, <1>3
    <2>2. "child" \in Keys /\ "items" \in Keys
      BY DEF Keys
    <2> QED  BY <2>1, <2>2 DEF Told
  <1>5. X \subseteq KnownTo(s, f)
    BY <1>3, <1>4 DEF KnownTo
  <1>6. ASSUME NEW j \in X PROVE Refs(f[j]) \subseteq X
    <2>1. \A k \in Children(m, j) : k \in X
      <3>1. Children(m, j) \subseteq Objects
        <4>1. m.items[j] \in Seq(Objects) /\ m.child[j] \in Objects \cup {Null}
          BY <1>2, <1>3
        <4> QED  BY <4>1, ToSetContains DEF Children
      <3> QED  BY <1>3, <3>1
    <2>2. Refs(f[j]) \subseteq Children(m, j)
      BY <1>4 DEF Refs, Children
    <2> QED  BY <2>1, <2>2
  <1>7. ASSUME NEW j \in X
        PROVE  /\ LinksAfter(s, f).child[j] = m.child[j]
               /\ LinksAfter(s, f).items[j] = m.items[j]
    <2>1. /\ LinksAfter(s, f).child[j] = IF Takes(s, f, j) /\ f[j].child # Unset
                                         THEN f[j].child ELSE s.child[j]
          /\ LinksAfter(s, f).items[j] = IF Takes(s, f, j) /\ f[j].items # Unset
                                         THEN f[j].items ELSE s.items[j]
      BY <1>3 DEF LinksAfter
    <2>2. f[j].type \in {"none", "add", "change"}
      BY <1>2, <1>3 DEF Fragments
    <2>3. f[j].type # "none" => Takes(s, f, j)
      BY <1>4, <1>5, <1>6, <2>2 DEF Takes
    <2>4. f[j].type = "none" => f[j].child = Unset /\ f[j].items = Unset
      BY <1>4 DEF NoFragment
    <2>5. m.child[j] # Unset /\ m.items[j] # Unset
      BY <1>2, <1>3 DEF ClientGraphAssumption
    <2> QED  BY <1>4, <2>1, <2>3, <2>4, <2>5
  <1> HIDE DEF f
  <1>8. HasAll(Applied(s, f), m)
    <2>1. Fits(s, f, m)
      BY <1>2, <1>5, <1>7 DEF X, Fits
    <2> QED  BY <2>1, Matches
  <1> QED  BY <1>8 DEF f

\* Where nothing is gathered, a server that has all has been told all.
LEMMA SilentWell ==
    ASSUME NEW m, NEW rank, Settled(m, rank), Silent(m), NEW s, HasAll(s, m)
    PROVE  Well(m, s)
  <1>1. \A j \in Objects : j \in s.has <=> In(m, j)
    BY Reached DEF HasAll, Attached, In
  <1>2. ASSUME NEW j \in Objects PROVE Told(m, s, j, Keys)
    <2>1. m.fragments[j] = NoFragment
      BY DEF Silent
    <2> QED  BY <1>1, <2>1 DEF Told, HasAll, NoFragment
  <1> QED  BY <1>2 DEF Well, All, Silent

\* The server's scope is what can be reached from its root, too.
Compact(s) == Root \in s.has /\ s.has = Walk(s, Root, s.has)

\* A change set leaves it so.
LEMMA AppliedCompact ==
    ASSUME NEW s \in Servers, Root \in s.has, NEW f \in [Objects -> Fragments]
    PROVE  Compact(Applied(s, f))
  <1> DEFINE g == LinksAfter(s, f)
             d == Applied(s, f)
             W == KnownTo(s, f)
             X == d.has
             S == Walk(d, Root, X)
  <1>1. /\ d.has = Walk(g, Root, W)
        /\ \A i \in d.has : d.child[i] = g.child[i] /\ d.items[i] = g.items[i]
    BY AppliedParts
  <1>2. Root \in W
    BY DEF KnownTo
  <1> HIDE DEF g, d, W
  <1>3. /\ Root \in X /\ X \subseteq W
        /\ \A k \in X, j \in W : j \in Children(g, k) => j \in X
    BY <1>1, <1>2, WalkClosed, WalkType
  <1>4. \A k \in X : Children(d, k) = Children(g, k)
    BY <1>1 DEF Children
  <1> HIDE DEF X
  <1>5. /\ S \subseteq X /\ Root \in S
        /\ \A k \in S, j \in X : j \in Children(d, k) => j \in S
    BY <1>3, WalkClosed, WalkType
  <1> HIDE DEF S
  <1>6. S \subseteq W /\ \A k \in S, j \in W : j \in Children(g, k) => j \in S
    BY <1>3, <1>4, <1>5
  <1>7. Walk(g, Root, W) \subseteq S
    BY <1>5, <1>6, WalkLeast
  <1>8. X = S
    BY <1>1, <1>5, <1>7 DEF X
  <1> QED  BY <1>3, <1>8 DEF Compact, S, X, d

\* If all there is to say has been said, the server has all.
LEMMA NothingToSay ==
    ASSUME NEW m, NEW s \in Servers, Well(m, s), Compact(s),
           \A j \in Objects : m.fragments[j] = NoFragment
    PROVE  HasAll(s, m)
  <1>1. PICK rank : Settled(m, rank)
    BY DEF Well
  <1>2. Root \in Objects
    BY DEF Objects
  <1>3. \A j \in Objects : j \in Below(m, Root) <=> In(m, j)
    BY <1>1, Reached DEF Attached, In
  <1>4. Below(m, Root) \subseteq Objects
    BY <1>2, BelowClosed
  <1>5. ASSUME NEW j \in Below(m, Root)
        PROVE  j \in s.has /\ s.child[j] = m.child[j] /\ s.items[j] = m.items[j]
    <2>1. Told(m, s, j, Keys) /\ m.fragments[j] = NoFragment /\ In(m, j) /\ m \in Models
      BY <1>1, <1>3, <1>4, <1>5 DEF Well, All, Settled
    <2>2. m.child[j] # Unset /\ m.items[j] # Unset
      BY <1>4, <2>1, ClientGraphAssumption DEF Models, ClientGraphAssumption
    <2> QED  BY <2>1, <2>2 DEF Told, NoFragment, Keys
  <1>6. Below(s, Root) = Below(m, Root)
    <2>1. \A k \in Below(m, Root) : Children(s, k) = Children(m, k)
      BY <1>5 DEF Children
    <2> QED  BY <1>2, <2>1, BelowAlike
  <1>7. Walk(s, Root, s.has) = Below(s, Root)
    BY <1>2, <1>5, <1>6, WalkIsBelow DEF Servers
  <1>8. s.has = Below(m, Root)
    BY <1>6, <1>7 DEF Compact
  <1> QED  BY <1>5, <1>8 DEF HasAll
-----------------------------------------------------------------------------
\* The server once it has taken what is on its way.
ComingOf(ts, sv) ==
    LET after[n \in 0..Len(ts)] == IF n = 0 THEN sv ELSE Applied(after[n - 1], ts[n])
    IN  after[Len(ts)]

ChangeSets == [Objects -> Fragments]

IsComing(F, ts, sv) ==
    /\ \A n \in 0..Len(ts) : F[n] \in Servers
    /\ F[0] = sv
    /\ \A n \in 1..Len(ts) : F[n] = Applied(F[n - 1], ts[n])
    /\ ComingOf(ts, sv) = F[Len(ts)]

\* The change sets can be taken one after the other.
LEMMA ComingRun ==
    ASSUME NEW ts \in Seq(ChangeSets), NEW sv \in Servers
    PROVE  \E F : IsComing(F, ts, sv)
  <1> DEFINE N == Len(ts)
             op(a, f) == Applied(a, f)
             step == [n \in 1..N |-> [a \in Servers |-> op(a, ts[n])]]
  <1>0. N \in Nat /\ \A n \in 1..N : ts[n] \in ChangeSets
    OBVIOUS
  <1>1. \A a \in Servers, f \in ChangeSets : op(a, f) \in Servers
    BY AppliedParts DEF ChangeSets
  <1>2. ComingOf(ts, sv)
          = (CHOOSE f : f = [n \in 0..N |-> IF n = 0 THEN sv ELSE op(f[n - 1], ts[n])])[N]
    BY DEF ComingOf
  <1> HIDE DEF op
  <1>3. step \in [1..N -> [Servers -> Servers]]
    BY <1>0, <1>1
  <1>4. PICK g : IsRun(Servers, sv, step, N, g)
    <2> HIDE DEF step, N
    <2> QED  BY <1>0, <1>3, Iterates
  <1>5. g = [n \in 0..N |-> IF n = 0 THEN sv ELSE op(g[n - 1], ts[n])]
    <2>1. \A n \in 1..N : n - 1 \in 0..N /\ g[n - 1] \in Servers
      BY <1>0, <1>4 DEF IsRun
    <2>2. \A n \in 1..N : g[n] = op(g[n - 1], ts[n])
      BY <1>4, <2>1 DEF IsRun
    <2> HIDE DEF step, N
    <2>3. g \in [0..N -> Servers] /\ g[0] = sv
      BY <1>4 DEF IsRun
    <2>4. \A n \in 0..N : g[n] = IF n = 0 THEN sv ELSE op(g[n - 1], ts[n])
      <3>1. \A n \in 0..N : n # 0 => n \in 1..N
        BY <1>0
      <3> QED  BY <2>2, <2>3, <3>1
    <2> QED  BY <2>3, <2>4
  <1> DEFINE F == CHOOSE f : f = [n \in 0..N |-> IF n = 0 THEN sv ELSE op(f[n - 1], ts[n])]
  <1>6. F = [n \in 0..N |-> IF n = 0 THEN sv ELSE op(F[n - 1], ts[n])]
    BY <1>5
  <1>7. ComingOf(ts, sv) = F[N]
    BY <1>2
  <1> HIDE DEF F, step
  <1> DEFINE B == {k \in 0..N : F[k] \in Servers}
  <1>8. F[0] = sv
    BY <1>0, <1>6
  <1>9. \A k \in 1..N : /\ k - 1 \in 0..N
                        /\ F[k] = op(F[k - 1], ts[k])
    BY <1>0, <1>6
  <1>10. 0 \in B
    BY <1>0, <1>8
  <1>11. \A k \in 1..N : k - 1 \in B => k \in B
    BY <1>0, <1>1, <1>9
  <1> HIDE DEF B
  <1>12. \A k \in 0..N : k \in B
    BY <1>0, <1>10, <1>11, Upwards
  <1>13. \A n \in 0..N : F[n] \in Servers
    BY <1>12 DEF B
  <1> QED  BY <1>7, <1>8, <1>9, <1>13 DEF op, IsComing

\* Nothing on its way: the server as it is.
LEMMA ComingNone ==
    ASSUME NEW sv \in Servers
    PROVE  ComingOf(<<>>, sv) = sv
  <1>1. <<>> \in Seq(ChangeSets)
    OBVIOUS
  <1>2. PICK F : IsComing(F, <<>>, sv)
    BY <1>1, ComingRun
  <1> QED  BY <1>2 DEF IsComing

\* One change set more on its way.
LEMMA ComingMore ==
    ASSUME NEW ts \in Seq(ChangeSets), NEW sv \in Servers, NEW f \in ChangeSets
    PROVE  ComingOf(Append(ts, f), sv) = Applied(ComingOf(ts, sv), f)
  <1> DEFINE us == Append(ts, f)
             N == Len(ts)
  <1>1. /\ us \in Seq(ChangeSets) /\ N \in Nat /\ Len(us) = N + 1 /\ us[N + 1] = f
        /\ \A n \in 1..N : us[n] = ts[n]
    OBVIOUS
  <1>2. PICK F : IsComing(F, ts, sv)
    BY ComingRun
  <1>3. PICK G : IsComing(G, us, sv)
    BY <1>1, ComingRun
  <1> HIDE DEF us, N
  <1>4. /\ F[0] = sv /\ G[0] = sv
        /\ \A n \in 1..N : F[n] = Applied(F[n - 1], ts[n])
        /\ \A n \in 1..(N + 1) : G[n] = Applied(G[n - 1], us[n])
        /\ ComingOf(ts, sv) = F[N] /\ ComingOf(us, sv) = G[N + 1]
    BY <1>1, <1>2, <1>3 DEF IsComing, N
  <1> DEFINE B == {k \in 0..N : G[k] = F[k]}
  <1>5. 0 \in B
    BY <1>1, <1>4
  <1>6. ASSUME NEW k \in 1..N, k - 1 \in B PROVE k \in B
    <2>1. G[k - 1] = F[k - 1] /\ k \in 0..N /\ k \in 1..(N + 1)
      BY <1>1, <1>6
    <2>2. G[k] = F[k]
      BY <1>1, <1>4, <2>1
    <2> QED  BY <2>1, <2>2
  <1> HIDE DEF B
  <1>7. \A k \in 0..N : k \in B
    BY <1>1, <1>5, <1>6, Upwards
  <1>8. G[N] = F[N]
    BY <1>1, <1>7 DEF B
  <1>9. G[N + 1] = Applied(G[N], f)
    <2>1. N + 1 \in 1..(N + 1) /\ (N + 1) - 1 = N
      BY <1>1
    <2> QED  BY <1>1, <1>4, <2>1
  <1> QED  BY <1>4, <1>8, <1>9 DEF us

\* The server takes the first change set.
LEMMA ComingLess ==
    ASSUME NEW ts \in Seq(ChangeSets), ts # <<>>, NEW sv \in Servers
    PROVE  ComingOf(Tail(ts), Applied(sv, Head(ts))) = ComingOf(ts, sv)
  <1> DEFINE us == Tail(ts)
             tv == Applied(sv, Head(ts))
             N == Len(us)
  <1>1. /\ us \in Seq(ChangeSets) /\ N \in Nat /\ Len(ts) = N + 1 /\ ts[1] = Head(ts)
        /\ \A n \in 1..N : us[n] = ts[n + 1]
        /\ Head(ts) \in ChangeSets
    OBVIOUS
  <1>2. tv \in Servers
    BY <1>1, AppliedParts DEF ChangeSets
  <1>3. PICK F : IsComing(F, ts, sv)
    BY ComingRun
  <1> HIDE DEF us, tv
  <1>4. PICK G : IsComing(G, us, tv)
    BY <1>1, <1>2, ComingRun
  <1> HIDE DEF N
  <1>5. /\ F[0] = sv /\ G[0] = tv
        /\ \A n \in 1..(N + 1) : F[n] = Applied(F[n - 1], ts[n])
        /\ \A n \in 1..N : G[n] = Applied(G[n - 1], us[n])
        /\ ComingOf(ts, sv) = F[N + 1] /\ ComingOf(us, tv) = G[N]
    BY <1>1, <1>3, <1>4 DEF IsComing, N
  <1> DEFINE B == {k \in 0..N : G[k] = F[k + 1]}
  <1>6. 0 \in B
    <2>1. 1 \in 1..(N + 1) /\ 0 \in 0..N
      BY <1>1
    <2>2. F[1] = Applied(F[1 - 1], ts[1])
      BY <1>5, <2>1
    <2>3. F[0 + 1] = tv
      BY <1>1, <1>5, <2>2 DEF tv
    <2> QED  BY <1>5, <2>1, <2>3
  <1>7. ASSUME NEW k \in 1..N, k - 1 \in B PROVE k \in B
    <2>1. G[k - 1] = F[(k - 1) + 1] /\ (k - 1) + 1 = k /\ (k + 1) - 1 = k
          /\ k \in 0..N /\ k + 1 \in 1..(N + 1)
      BY <1>1, <1>7
    <2>2. F[k + 1] = Applied(F[(k + 1) - 1], ts[k + 1])
      BY <1>5, <2>1
    <2>3. G[k] = Applied(G[k - 1], ts[k + 1])
      BY <1>1, <1>5
    <2>4. G[k] = F[k + 1]
      BY <2>1, <2>2, <2>3
    <2> QED  BY <2>1, <2>4
  <1> HIDE DEF B
  <1>8. \A k \in 0..N : k \in B
    BY <1>1, <1>6, <1>7, Upwards
  <1>9. G[N] = F[N + 1]
    BY <1>1, <1>8 DEF B
  <1> QED  BY <1>5, <1>9 DEF us, tv

\* It is a server's state, and all of it can be reached.
LEMMA ComingCompact ==
    ASSUME NEW ts \in Seq(ChangeSets), NEW sv \in Servers, Compact(sv)
    PROVE  ComingOf(ts, sv) \in Servers /\ Compact(ComingOf(ts, sv))
  <1> DEFINE N == Len(ts)
  <1>1. PICK F : IsComing(F, ts, sv)
    BY ComingRun
  <1>2. /\ N \in Nat /\ F[0] = sv /\ ComingOf(ts, sv) = F[N]
        /\ \A n \in 0..N : F[n] \in Servers
        /\ \A n \in 1..N : F[n] = Applied(F[n - 1], ts[n]) /\ ts[n] \in [Objects -> Fragments]
    BY <1>1 DEF IsComing, ChangeSets
  <1> HIDE DEF N
  <1> DEFINE B == {k \in 0..N : Compact(F[k])}
  <1>3. 0 \in B
    BY <1>2
  <1>4. ASSUME NEW k \in 1..N, k - 1 \in B PROVE k \in B
    <2>1. F[k - 1] \in Servers /\ Root \in F[k - 1].has /\ k \in 0..N
      BY <1>2, <1>4 DEF Compact
    <2>2. F[k] = Applied(F[k - 1], ts[k]) /\ ts[k] \in [Objects -> Fragments]
      BY <1>2
    <2>3. Compact(F[k])
      BY <2>1, <2>2, AppliedCompact
    <2> QED  BY <2>1, <2>3
  <1> HIDE DEF B
  <1>5. \A k \in 0..N : k \in B
    BY <1>2, <1>3, <1>4, Upwards
  <1>6. Compact(F[N])
    BY <1>2, <1>5 DEF B
  <1> QED  BY <1>2, <1>6
-----------------------------------------------------------------------------
\* The invariant that says what the scope has and what has been gathered.

\* An object others have yet to make.
Untouched(m, x) == m.child[x] = Null /\ m.items[x] = <<>> /\ m.parents[x] = {}

\* The client before the state of the scope arrives.
Unstated ==
    [child         |-> [i \in Objects |-> Null],
     items         |-> [i \in Objects |-> <<>>],
     parents       |-> [i \in Objects |-> {}],
     scope         |-> [i \in Objects |-> IF i = Root THEN "scope" ELSE "none"],
     fragments     |-> NoFragments,
     removed       |-> {},
     changesQueued |-> FALSE]

SInv ==
    /\ server \in Servers /\ Compact(server)
    /\ stated => Well(model, ComingOf(toServer, server))
    /\ \A x \in Theirs \ arrived : Untouched(model, x)
    /\ ~stated => model = Unstated /\ arrived = server.has \ {Root}

\* An object stays untouched unless it is given or given something.
LEMMA StaysUntouched ==
    ASSUME NEW m \in Models, Mirror(m), NEW q \in Models, Mirror(q), NEW p, NEW P,
           Grown(m, q, p, P), NEW x \in Objects, x # p, x \notin P, Untouched(m, x)
    PROVE  Untouched(q, x)
  <1>1. q.parents[x] = {}
    BY DEF Grown, Untouched
  <1>2. \A key \in Keys, j \in Objects : ~Holds(q, <<x, key>>, j)
    <2> SUFFICES ASSUME NEW key \in Keys, NEW j \in Objects, Holds(q, <<x, key>>, j) PROVE FALSE
      OBVIOUS
    <2>1. <<x, key>> \in Slots
      BY DEF Slots
    <2>2. <<x, key>> \in q.parents[j]
      BY <2>1 DEF Mirror, Knows
    <2>3. <<x, key>> \in m.parents[j]
      BY <2>2 DEF Grown
    <2>4. Holds(m, <<x, key>>, j)
      BY <2>1, <2>3 DEF Mirror, Knows
    <2>5. m.child[x] = Null /\ m.items[x] = <<>> /\ Null \notin Objects
      BY ClientGraphAssumption DEF Untouched, ClientGraphAssumption
    <2> QED  BY <2>4, <2>5 DEF Holds, Contains
  <1>3. q.child[x] = Null
    <2>1. q.child[x] \in Objects \cup {Null}
      BY DEF Models
    <2>2. \A j \in Objects : q.child[x] # j
      BY <1>2 DEF Holds, Keys
    <2> QED  BY <2>1, <2>2
  <1>4. q.items[x] = <<>>
    <2>1. q.items[x] \in Seq(Objects)
      BY DEF Models
    <2>2. \A j \in Objects : ~Contains(q.items[x], j)
      BY <1>2 DEF Holds, Keys
    <2> DEFINE t == q.items[x]
    <2>3. t \in Seq(Objects) /\ \A j \in Objects : ~Contains(t, j)
      BY <2>1, <2>2
    <2> HIDE DEF t
    <2>4. \A n \in 1..Len(t) : t[n] \in Objects
      BY <2>3
    <2>5. Len(t) = 0
      <3> SUFFICES ASSUME Len(t) # 0 PROVE FALSE
        OBVIOUS
      <3>1. 1 \in 1..Len(t)
        BY <2>3
      <3>2. Contains(t, t[1])
        BY <3>1 DEF Contains
      <3> QED  BY <2>3, <2>4, <3>1, <3>2
    <2>6. t = <<>>
      BY <2>3, <2>5
    <2> QED  BY <2>6 DEF t
  <1> QED  BY <1>1, <1>3, <1>4 DEF Untouched

\* What the discipline lets the application do, a setter may start.
LEMMA EditReady ==
    ASSUME IInv, SInv, NEW p \in Objects, NEW puts, NEW takes, NEW after,
           Edit(p, puts, takes, after),
           puts \subseteq Holdable(p), \A i \in takes : i \in Children(model, p)
    PROVE  Ready(model, ComingOf(toServer, server), p, puts, takes, FALSE)
  <1> DEFINE s == ComingOf(toServer, server)
  <1>1. /\ stated /\ Discipline(p, puts, takes) /\ model \in Models
        /\ Well(model, s)
    BY DEF Edit, SInv, IInv
  <1>2. PICK rank : Settled(model, rank)
    BY <1>1 DEF Well
  <1>3. \A i \in Objects : Below(model, i) \subseteq Objects
    BY BelowClosed
  <1>4. puts \in SUBSET (Objects \ {Root})
    BY DEF Holdable, Seen, Objects, IInv, BoundsType
  <1>5. takes \in SUBSET Objects
    <2> SUFFICES ASSUME NEW i \in takes PROVE i \in Objects
      OBVIOUS
    <2>1. i \in Children(model, p)
      OBVIOUS
    <2> QED  BY <1>1, <2>1, ChildrenAreObjects
  <1>6. \A i \in puts : p \notin Below(model, i)
    BY DEF Holdable
  <1>7. \A i \in puts : MayHold(model, p, i)
    BY <1>1 DEF Discipline, MayPut, Inside, MayHold, In
  <1>8. \A i \in takes : MayLose(model, i) /\ puts \cap Below(model, i) = {}
    BY <1>1 DEF Discipline, MayTake, MayLose
  <1>9. Careful(model, p, puts, takes)
    BY <1>4, <1>5, <1>6, <1>7, <1>8 DEF Careful
  <1>10. ASSUME NEW i \in puts PROVE Returns(model, s, p, i)
    <2> SUFFICES ASSUME In(model, p), NEW j \in Below(model, i), j \in model.removed
                 PROVE  Same(s, model, j)
      BY DEF Returns
    <2>1. ~In(model, j)
      BY <1>2 DEF Settled
    <2>2. Inside(j) \/ Unchanged(j)
      BY <1>1 DEF Discipline, MayPut, Inside, In
    <2>3. Unchanged(j)
      BY <2>1, <2>2 DEF Inside, In
    <2>4. Coming = s
      BY DEF Coming, ComingOf
    <2> HIDE DEF s
    <2> QED  BY <2>3, <2>4 DEF Unchanged, Same
  <1> HIDE DEF s
  <1>11. Notes(model, s, p, Keys, puts, FALSE)
    BY <1>1, <1>10 DEF Notes, Gathered, Well, All
  <1>12. \E k : Settled(model, k)
    BY <1>2
  <1> QED  BY <1>9, <1>11, <1>12 DEF Ready, s

\* Whatever the application does.
LEMMA EditSInv ==
    ASSUME IInv, SInv, NEW p \in Seen, NEW puts, NEW takes, NEW after,
           Edit(p, puts, takes, after), puts \subseteq Seen,
           Well(after, ComingOf(toServer, server)), Grown(model, after, p, puts)
    PROVE  SInv'
  <1>1. /\ model' = after /\ stated
        /\ UNCHANGED <<stated, toServer, server, arrived>>
    BY DEF Edit
  <1>2. model \in Models /\ Mirror(model) /\ after \in Models /\ Mirror(after)
    BY DEF IInv, Well, Settled
  <1>3. ASSUME NEW x \in Theirs \ arrived PROVE Untouched(after, x)
    <2>1. x \in Objects /\ x \notin Seen
      BY ClientGraphAssumption DEF Objects, Seen, ClientGraphAssumption
    <2>2. Untouched(model, x)
      BY DEF SInv
    <2> QED  BY <1>2, <2>1, <2>2, StaysUntouched
  <1>4. Well(model', ComingOf(toServer', server'))
    BY <1>1
  <1>5. \A x \in Theirs \ arrived' : Untouched(model', x)
    BY <1>1, <1>3
  <1>6. server' \in Servers /\ Compact(server') /\ stated'
    BY <1>1 DEF SInv
  <1> QED  BY <1>4, <1>5, <1>6 DEF SInv

\* A property is set.
LEMMA EditChildSInv ==
    ASSUME ClientGraphAssumption, IInv, SInv, NEW p \in Seen, EditChild(p)
    PROVE  SInv'
  <1> DEFINE s == ComingOf(toServer, server)
  <1>1. PICK i \in Holdable(p) \cup {Null} :
           Edit(p, {i} \ {Null}, {model.child[p]} \ {Null}, SetChild(model, p, i, FALSE))
    BY DEF EditChild
  <1>2. p \in Objects /\ i \in Objects \cup {Null} /\ Null \notin Objects /\ Holdable(p) \subseteq Seen
    BY DEF Holdable, Seen, Objects, IInv, BoundsType, ClientGraphAssumption
  <1> DEFINE puts == {i} \ {Null}
             takes == {model.child[p]} \ {Null}
             q == SetChild(model, p, i, FALSE)
  <1>3. puts \subseteq Holdable(p) /\ \A j \in takes : j \in Children(model, p)
    BY DEF Children
  <1>4. Edit(p, puts, takes, q)
    BY <1>1
  <1> HIDE DEF puts, takes, q, s
  <1>5. Ready(model, s, p, puts, takes, FALSE)
    BY <1>2, <1>3, <1>4, EditReady DEF s
  <1>6. Ended(model, q, s, p, puts, FALSE)
    BY <1>2, <1>5, SetChildEnds DEF puts, takes, q
  <1>7. Well(q, s) /\ Grown(model, q, p, puts)
    BY <1>6, EndsWell
  <1> QED  BY <1>2, <1>3, <1>4, <1>7, EditSInv DEF s

\* What splice is called with by the application.
Splice(p, P, T, start, count, new) ==
    /\ start \in Nat /\ count \in Nat /\ start + count <= Len(model.items[p])
    /\ new \in Seq(P) /\ P \subseteq Holdable(p) /\ \A i \in T : i \in Children(model, p)
    /\ SubSeq(model.items[p], start + 1, start + count) \in Seq(T)
    /\ new # <<>> \/ SubSeq(model.items[p], start + 1, start + count) # <<>>
    /\ Edit(p, P, T, SpliceItems(model, p, start, count, new, FALSE))

\* A call of splice keeps the invariant.
LEMMA EditSplice ==
    ASSUME ClientGraphAssumption, IInv, SInv, NEW p \in Seen, NEW P, NEW T,
           NEW start, NEW count, NEW new, Splice(p, P, T, start, count, new)
    PROVE  SInv'
  <1> DEFINE s == ComingOf(toServer, server)
             q == SpliceItems(model, p, start, count, new, FALSE)
  <1>1. p \in Objects /\ P \subseteq Seen
    BY DEF Holdable, Seen, Objects, IInv, BoundsType, Splice
  <1>2. Ready(model, s, p, P, T, FALSE)
    BY <1>1, EditReady DEF Splice
  <1>3. Ended(model, q, s, p, P, FALSE)
    BY <1>2, SpliceEnds DEF Splice
  <1> HIDE DEF q, s
  <1>4. Well(q, s) /\ Grown(model, q, p, P)
    BY <1>3, EndsWell
  <1>5. Edit(p, P, T, q)
    BY DEF Splice, q
  <1> QED  BY <1>1, <1>4, <1>5, EditSInv DEF s

\* What is cut out of a sequence: nothing or one element.
LEMMA Cuts ==
    ASSUME NEW S, NEW t \in Seq(S)
    PROVE  /\ Len(t) \in Nat
           /\ SubSeq(t, Len(t) + 1, Len(t) + 0) = <<>> /\ SubSeq(t, 0 + 1, 0 + 0) = <<>>
           /\ \A k \in DOMAIN t : /\ k \in 1..Len(t) /\ k - 1 \in Nat /\ (k - 1) + 1 <= Len(t)
                                  /\ SubSeq(t, (k - 1) + 1, (k - 1) + 1) = <<t[k]>>
           /\ t # <<>> => Len(t) \in DOMAIN t /\ 1 \in DOMAIN t
  <1>1. Len(t) \in Nat /\ DOMAIN t = 1..Len(t) /\ \A n \in 1..Len(t) : t[n] \in S
    OBVIOUS
  <1>2. SubSeq(t, Len(t) + 1, Len(t) + 0) = <<>> /\ SubSeq(t, 0 + 1, 0 + 0) = <<>>
    BY <1>1
  <1>3. ASSUME NEW k \in DOMAIN t
        PROVE  /\ k \in 1..Len(t) /\ k - 1 \in Nat /\ (k - 1) + 1 <= Len(t)
               /\ SubSeq(t, (k - 1) + 1, (k - 1) + 1) = <<t[k]>>
    <2>1. k \in 1..Len(t) /\ k \in Nat /\ k >= 1
      BY <1>1
    <2>2. k - 1 \in Nat /\ (k - 1) + 1 = k
      BY <2>1
    <2>3. SubSeq(t, k, k) = <<t[k]>>
      <3>1. /\ SubSeq(t, k, k) \in Seq(S)
            /\ Len(SubSeq(t, k, k)) = IF k <= k THEN k - k + 1 ELSE 0
            /\ \A j \in 1..(k - k + 1) : SubSeq(t, k, k)[j] = t[k + j - 1]
        BY <1>1, <2>1, SubSeqProperties
      <3>2. k - k + 1 = 1 /\ k + 1 - 1 = k /\ k <= k /\ 1 \in 1..1
        BY <2>1
      <3>3. Len(SubSeq(t, k, k)) = 1 /\ SubSeq(t, k, k)[1] = t[k]
        BY <3>1, <3>2
      <3> DEFINE cut == SubSeq(t, k, k)
      <3>4. cut \in Seq(S) /\ Len(cut) = 1 /\ cut[1] = t[k]
        BY <3>1, <3>3
      <3> HIDE DEF cut
      <3>5. cut = <<t[k]>>
        BY <3>4
      <3> QED  BY <3>5 DEF cut
    <2> QED  BY <1>1, <2>1, <2>2, <2>3
  <1>4. t # <<>> => Len(t) \in DOMAIN t /\ 1 \in DOMAIN t
    <2> SUFFICES ASSUME t # <<>> PROVE Len(t) \in DOMAIN t /\ 1 \in DOMAIN t
      OBVIOUS
    <2>1. Len(t) > 0
      OBVIOUS
    <2> QED  BY <1>1, <2>1
  <1> QED  BY <1>1, <1>2, <1>3, <1>4

\* A collection is changed, whichever way.
LEMMA EditItemsSInv ==
    ASSUME ClientGraphAssumption, IInv, SInv, NEW p \in Seen, EditItems(p)
    PROVE  SInv'
  <1> DEFINE items == model.items[p]
             s == ComingOf(toServer, server)
  <1>1. /\ p \in Objects /\ model \in Models /\ items \in Seq(Objects)
        /\ Holdable(p) \subseteq Seen /\ Holdable(p) \subseteq Objects
    BY DEF Holdable, Seen, Objects, IInv, BoundsType, Models
  <1>c. /\ Len(items) \in Nat
        /\ SubSeq(items, Len(items) + 1, Len(items) + 0) = <<>> /\ SubSeq(items, 0 + 1, 0 + 0) = <<>>
        /\ \A k \in DOMAIN items : /\ k \in 1..Len(items) /\ k - 1 \in Nat /\ (k - 1) + 1 <= Len(items)
                                   /\ SubSeq(items, (k - 1) + 1, (k - 1) + 1) = <<items[k]>>
        /\ items # <<>> => Len(items) \in DOMAIN items /\ 1 \in DOMAIN items
    BY <1>1, Cuts
  <1>2. \A k \in DOMAIN items : items[k] \in Children(model, p)
    <2> SUFFICES ASSUME NEW k \in DOMAIN items PROVE items[k] \in Children(model, p)
      OBVIOUS
    <2>1. Contains(items, items[k]) /\ items[k] \in Objects
      BY <1>1 DEF Contains
    <2> QED  BY <1>1, <2>1, ItemsAreChildren
  <1>p. Edit(p, {}, {}, KeyChanged(model, p, "items", FALSE)) => SInv'
    <2> SUFFICES ASSUME Edit(p, {}, {}, KeyChanged(model, p, "items", FALSE)) PROVE SInv'
      OBVIOUS
    <2> DEFINE q == KeyChanged(model, p, "items", FALSE)
    <2>1. Ready(model, s, p, {}, {}, FALSE)
      BY <1>1, EditReady
    <2>2. Ended(model, q, s, p, {}, FALSE)
      <3>1. "items" \in Keys
        BY DEF Keys
      <3> QED  BY <1>1, <2>1, <3>1, KeyEnds DEF Ready
    <2> HIDE DEF q, s
    <2>3. Well(q, s) /\ Grown(model, q, p, {})
      BY <2>2, EndsWell
    <2> QED  BY <2>3, EditSInv DEF q, s
  \* One is put in, nothing taken;
  <1>a. ASSUME NEW i \in Holdable(p), NEW start \in Nat, start <= Len(items),
               SubSeq(items, start + 1, start + 0) = <<>>,
               Edit(p, {i}, {}, SpliceItems(model, p, start, 0, <<i>>, FALSE))
        PROVE  SInv'
    <2>1. start + 0 <= Len(items) /\ 0 \in Nat
      BY <1>a, <1>c
    <2>2. <<i>> \in Seq({i}) /\ <<i>> # <<>> /\ <<>> \in Seq({})
      OBVIOUS
    <2>3. Splice(p, {i}, {}, start, 0, <<i>>)
      BY <1>a, <2>1, <2>2, Zenon DEF Splice
    <2> QED  BY <2>3, EditSplice, Zenon
  \* one is taken, and nothing or one put in its place.
  <1>b. ASSUME NEW k \in DOMAIN items, NEW P, P \subseteq Holdable(p), NEW new \in Seq(P),
               Edit(p, P, {items[k]}, SpliceItems(model, p, k - 1, 1, new, FALSE))
        PROVE  SInv'
    <2>1. k - 1 \in Nat /\ (k - 1) + 1 <= Len(items) /\ 1 \in Nat
      BY <1>c
    <2>2. SubSeq(items, (k - 1) + 1, (k - 1) + 1) = <<items[k]>>
      BY <1>c
    <2>3. <<items[k]>> \in Seq({items[k]}) /\ <<items[k]>> # <<>>
      OBVIOUS
    <2>4. \A j \in {items[k]} : j \in Children(model, p)
      BY <1>2
    <2>5. Splice(p, P, {items[k]}, k - 1, 1, new)
      BY <1>b, <2>1, <2>2, <2>3, <2>4, Zenon DEF Splice
    <2> QED  BY <2>5, EditSplice, Zenon
  <1>3. ASSUME NEW i \in Holdable(p), Edit(p, {i}, {}, PushItem(model, p, i)) PROVE SInv'
    <2>1. Edit(p, {i}, {}, SpliceItems(model, p, Len(items), 0, <<i>>, FALSE))
      BY <1>3 DEF PushItem
    <2>2. Len(items) <= Len(items)
      BY <1>c
    <2> HIDE DEF items
    <2> QED  BY <1>a, <1>c, <2>1, <2>2
  <1>4. ASSUME NEW i \in Holdable(p), Edit(p, {i}, {}, UnshiftItem(model, p, i)) PROVE SInv'
    <2>1. Edit(p, {i}, {}, SpliceItems(model, p, 0, 0, <<i>>, FALSE))
      BY <1>4 DEF UnshiftItem
    <2> HIDE DEF items
    <2>2. 0 \in Nat /\ 0 <= Len(items) /\ SubSeq(items, 0 + 1, 0 + 0) = <<>>
      BY <1>c
    <2> QED  BY <1>a, <2>1, <2>2
  <1>5. ASSUME NEW i \in Holdable(p), NEW k \in DOMAIN items,
               Edit(p, {i}, {items[k]}, SpliceItems(model, p, k - 1, 1, <<i>>, FALSE))
        PROVE  SInv'
    <2>1. {i} \subseteq Holdable(p) /\ <<i>> \in Seq({i})
      OBVIOUS
    <2> QED  BY <1>b, <1>5, <2>1
  <1>n. {} \subseteq Holdable(p) /\ <<>> \in Seq({})
    OBVIOUS
  <1>7. ASSUME Edit(p, {}, IF items = <<>> THEN {} ELSE {Last(items)}, PopItem(model, p))
        PROVE  SInv'
    <2>1. CASE items = <<>>
      BY <1>p, <1>7, <2>1 DEF PopItem
    <2>2. CASE items # <<>>
      <3>1. PopItem(model, p) = SpliceItems(model, p, Len(items) - 1, 1, <<>>, FALSE)
        BY <2>2 DEF PopItem
      <3>2. Len(items) \in DOMAIN items
        BY <1>c, <2>2
      <3>3. Last(items) = items[Len(items)]
        BY DEF Last
      <3>4. Edit(p, {}, {items[Len(items)]}, SpliceItems(model, p, Len(items) - 1, 1, <<>>, FALSE))
        BY <1>7, <2>2, <3>1, <3>3
      <3> QED  BY <1>b, <1>n, <3>2, <3>4
    <2> QED  BY <2>1, <2>2
  <1>8. ASSUME Edit(p, {}, IF items = <<>> THEN {} ELSE {Head(items)}, ShiftItem(model, p))
        PROVE  SInv'
    <2>1. CASE items = <<>>
      BY <1>p, <1>8, <2>1 DEF ShiftItem
    <2>2. CASE items # <<>>
      <3>1. ShiftItem(model, p) = SpliceItems(model, p, 0, 1, <<>>, FALSE)
        BY <2>2 DEF ShiftItem
      <3>2. 1 \in DOMAIN items /\ 0 = 1 - 1
        BY <1>c, <2>2
      <3>3. Head(items) = items[1]
        BY <1>1, <2>2
      <3>4. Edit(p, {}, {items[1]}, SpliceItems(model, p, 1 - 1, 1, <<>>, FALSE))
        BY <1>8, <2>2, <3>1, <3>2, <3>3
      <3> QED  BY <1>b, <1>n, <3>2, <3>4
    <2> QED  BY <2>1, <2>2
  <1>9. ASSUME NEW n \in 0..2, NEW new \in [1..n -> Holdable(p)], ToSet(new) # ToSet(items),
               Edit(p, ToSet(new) \ ToSet(items), ToSet(items) \ ToSet(new),
                    ResetItems(model, p, new, FALSE))
        PROVE  SInv'
    <2> DEFINE P == ToSet(new) \ ToSet(items)
               T == ToSet(items) \ ToSet(new)
               q == ResetItems(model, p, new, FALSE)
    <2>1. new \in Seq(Objects) /\ new \in Seq(Holdable(p))
      <3>1. new \in [1..n -> Objects]
        BY <1>1
      <3> QED  BY <3>1
    <2>2. P \subseteq Holdable(p)
      BY <2>1, ToSetContains
    <2>3. \A i \in T : i \in Children(model, p)
      BY DEF Children
    <2>4. Ready(model, s, p, P, T, FALSE)
      <3> HIDE DEF P, T, q
      <3>1. Edit(p, P, T, q)
        BY <1>9 DEF P, T, q
      <3> QED  BY <1>1, <2>2, <2>3, <3>1, EditReady
    <2>5. Ended(model, q, s, p, P, FALSE)
      BY <1>9, <2>1, <2>4, ResetEnds
    <2>6. Well(q, s) /\ Grown(model, q, p, P)
      <3> HIDE DEF P, q, s
      <3> QED  BY <2>5, EndsWell
    <2>7. P \subseteq Seen /\ Edit(p, P, T, q)
      BY <1>1, <1>9, <2>2
    <2> HIDE DEF P, T, q
    <2> QED  BY <2>6, <2>7, EditSInv
  <1> QED  BY <1>3, <1>4, <1>5, <1>7, <1>8, <1>9 DEF EditItems

\* An object is detached; the root knows no parent, nothing happens to it.
LEMMA EditDetachSInv ==
    ASSUME ClientGraphAssumption, IInv, SInv, NEW i \in Seen, EditDetach(i)
    PROVE  SInv'
  <1> DEFINE s == ComingOf(toServer, server)
             q == Detach(model, i)
  <1>1. /\ i \in Objects /\ model \in Models
        /\ Edit(i, {}, {i} \ {Root}, q) /\ stated
    BY DEF Seen, Objects, IInv, BoundsType, EditDetach, Edit
  <1>2. Well(model, s)
    BY <1>1 DEF SInv
  <1>3. CASE i # Root
    <2>1. MayLose(model, i)
      BY <1>1, <1>3 DEF Edit, Discipline, MayTake, MayLose
    <2>2. Well(q, s) /\ Grown(model, q, i, {})
      BY <1>1, <1>2, <2>1, DetachEnds
    <2> HIDE DEF q
    <2> QED  BY <1>1, <2>2, EditSInv
  <1>4. CASE i = Root
    <2>1. model.parents[i] = {}
      BY <1>2, <1>4 DEF Well, Settled, Uniform
    <2>2. q = model
      <3>1. PICK F : IsDetachRun(F, model, i)
        BY <1>1, DetachRun
      <3> DEFINE known == SetToSeq(model.parents[i])
      <3>2. Len(known) \in Nat /\ \A n \in 1..Len(known) : known[n] \in model.parents[i]
        BY <1>1, KnownSlots
      <3>3. F[0] = model /\ q = F[Len(known)]
        BY <3>1 DEF IsDetachRun
      <3> HIDE DEF known, q
      <3>4. Len(known) = 0
        <4> SUFFICES ASSUME Len(known) # 0 PROVE FALSE
          OBVIOUS
        <4>1. 1 \in 1..Len(known)
          BY <3>2
        <4> QED  BY <2>1, <3>2, <4>1
      <3> QED  BY <3>3, <3>4
    <2>3. Well(q, s) /\ Grown(model, q, i, {})
      BY <1>2, <2>2 DEF Grown
    <2> HIDE DEF q
    <2> QED  BY <1>1, <2>3, EditSInv
  <1> QED  BY <1>3, <1>4

\* The timer fires: what was gathered is on its way.
LEMMA SendChangesSInv ==
    ASSUME ClientGraphAssumption, IInv, SInv, SendChanges
    PROVE  SInv'
  <1> DEFINE s == ComingOf(toServer, server)
             q == [model EXCEPT !.changesQueued = FALSE, !.fragments = NoFragments, !.removed = {}]
             t == ComingOf(toServer', server')
  <1>1. /\ stated /\ model \in Models /\ Mirror(model)
        /\ toServer \in Seq(ChangeSets) /\ model.fragments \in ChangeSets
        /\ server \in Servers /\ Compact(server) /\ Well(model, s)
    BY DEF IInv, BoundsType, BeforeState, SendChanges, SInv, ChangeSets, Models
  <1>2. /\ model' = q /\ UNCHANGED <<stated, server, arrived>>
        /\ toServer' = IF model.fragments = NoFragments THEN toServer
                       ELSE Append(toServer, model.fragments)
    BY DEF SendChanges
  <1>3. PICK rank : Settled(model, rank)
    BY <1>1 DEF Well
  <1>4. NoFragments \in [Objects -> Fragments] /\ \A j \in Objects : NoFragments[j] = NoFragment
    BY DEF NoFragments, NoFragment, Fragments
  <1>5. /\ SameGraph(model, q) /\ q.scope = model.scope /\ q.removed = {}
        /\ q.changesQueued = FALSE /\ q.fragments = NoFragments
    BY <1>1, <1>4 DEF SameGraph, Models
  <1> HIDE DEF q
  <1>6. Settled(q, rank) /\ Silent(q)
    <2>1. \A r, j : (Knows(q, r, j) <=> Knows(model, r, j)) /\ (Holds(q, r, j) <=> Holds(model, r, j))
      BY <1>5 DEF SameGraph, Knows, Holds
    <2>2. \A j : In(q, j) <=> In(model, j)
      BY <1>5 DEF In
    <2>3. Uniform(q)
      BY <1>3, <1>5, <2>2 DEF Settled, Uniform, SameGraph
    <2>4. Sorted(q, rank) /\ Mirror(q)
      BY <1>3, <2>1 DEF Settled, Sorted, Mirror
    <2>5. Silent(q)
      BY <1>4, <1>5 DEF Silent
    <2> QED  BY <1>3, <1>5, <2>3, <2>4, <2>5 DEF Settled, SameGraph
  <1>7. HasAll(t, model)
    <2>1. CASE model.fragments = NoFragments
      <3>1. t = s
        BY <1>2, <2>1
      <3>2. s \in Servers /\ Compact(s)
        BY <1>1, ComingCompact
      <3> HIDE DEF s, t
      <3>3. HasAll(s, model)
        BY <1>1, <1>4, <2>1, <3>2, NothingToSay
      <3> QED  BY <3>1, <3>3
    <2>2. CASE model.fragments # NoFragments
      <3>1. t = Applied(s, model.fragments)
        BY <1>1, <1>2, <2>2, ComingMore
      <3>2. s \in Servers
        BY <1>1, ComingCompact
      <3> HIDE DEF s, t
      <3> QED  BY <1>1, <3>1, <3>2, Caught
    <2> QED  BY <2>1, <2>2
  <1>8. HasAll(t, q)
    <2>1. Below(q, Root) = Below(model, Root)
      BY <1>5 DEF SameGraph, Below, Walk, Children
    <2> HIDE DEF t
    <2> QED  BY <1>5, <1>7, <2>1 DEF HasAll, SameGraph
  <1>9. Well(q, t)
    <2> HIDE DEF t
    <2> QED  BY <1>6, <1>8, SilentWell
  <1>10. \A x \in Theirs \ arrived : Untouched(q, x)
    BY <1>5 DEF SInv, Untouched, SameGraph
  <1>11. Well(model', ComingOf(toServer', server'))
    BY <1>2, <1>9
  <1> QED  BY <1>1, <1>2, <1>10, <1>11 DEF SInv

\* The server takes a change set: what it will have is the same.
LEMMA ServerAppliesSInv ==
    ASSUME ClientGraphAssumption, IInv, SInv, ServerApplies
    PROVE  SInv'
  <1>1. /\ stated /\ toServer # <<>> /\ UNCHANGED <<model, stated, arrived>>
        /\ server' = Applied(server, Head(toServer)) /\ toServer' = Tail(toServer)
        /\ toServer \in Seq(ChangeSets) /\ server \in Servers /\ Compact(server)
        /\ Well(model, ComingOf(toServer, server))
    BY DEF IInv, BoundsType, BeforeState, ServerApplies, SInv, ChangeSets
  <1>2. ComingOf(toServer', server') = ComingOf(toServer, server)
    BY <1>1, ComingLess
  <1>3. Well(model', ComingOf(toServer', server'))
    BY <1>1, <1>2
  <1>4. server' \in Servers /\ Compact(server')
    <2>1. Head(toServer) \in [Objects -> Fragments]
      BY <1>1 DEF ChangeSets
    <2> QED  BY <1>1, <2>1, AppliedParts, AppliedCompact DEF Compact
  <1> QED  BY <1>1, <1>3, <1>4 DEF SInv
-----------------------------------------------------------------------------
\* What others write.

\* The same links: parents may differ.
SameLinks(m, q) == q \in Models /\ q.child = m.child /\ q.items = m.items

\* Told of an object that its slot does not hold, a parent lets nothing go.
LEMMA LetsNothingGo ==
    ASSUME NEW m \in Models, NEW i \in Objects, NEW p \in Objects, NEW key \in Keys,
           ~Holds(m, <<p, key>>, i), NEW remote \in BOOLEAN
    PROVE  SameLinks(m, RemoveParent(m, i, p, key, remote))
  <1> DEFINE known == [m EXCEPT !.parents[i] = @ \ {<<p, key>>}]
             ps == [m.parents EXCEPT ![i] = @ \ {<<p, key>>}]
             gone == RemoveChildAtKey(known, p, key, i, remote)
             q == RemoveParent(m, i, p, key, remote)
  <1>1. ps \in [Objects -> SUBSET Slots]
    BY DEF Models
  <1>2. known = [m EXCEPT !.parents = ps]
    BY DEF Models
  <1> HIDE DEF ps, known
  <1>3. known \in Models /\ known.child = m.child /\ known.items = m.items
    BY <1>1, <1>2 DEF Models
  <1>4. ~(key = "child" /\ known.child[p] = i) /\ ~(key = "items" /\ Contains(known.items[p], i))
    BY <1>3 DEF Holds
  <1>5. gone = known
    BY <1>4 DEF RemoveChildAtKey
  <1>6. q = IF <<p, key>> \notin m.parents[i] THEN m
            ELSE IF gone.parents[i] = {} THEN SetScope(gone, i, "left", remote) ELSE gone
    BY DEF RemoveParent, known
  <1> HIDE DEF gone, q
  <1>7. SameGraph(known, SetScope(known, i, "left", remote))
    BY <1>3, SetScopeSame DEF ScopeIds
  <1>8. \/ q = m
        \/ q = SetScope(known, i, "left", remote)
        \/ q = known
    BY <1>5, <1>6
  <1>9. q \in Models /\ q.child = m.child /\ q.items = m.items
    BY <1>3, <1>7, <1>8 DEF SameGraph
  <1> QED  BY <1>9 DEF q, SameLinks

\* So the collection others gave stays as they gave it.
LEMMA RemovesNothing ==
    ASSUME NEW m \in Models, NEW p \in Objects, NEW removed \in Seq(Objects),
           \A j \in Objects : Contains(removed, j) => ~Contains(m.items[p], j),
           ClientGraphAssumption
    PROVE  LET q == OnCollectionRemove(m, p, removed, TRUE)
           IN  q.child = m.child /\ q.items = m.items
  <1> DEFINE N == Len(removed)
  <1>1. N \in Nat /\ \A n \in 1..N : removed[n] \in Objects /\ Contains(removed, removed[n])
    BY DEF Contains
  <1>2. PICK F : IsRemoveRun(F, m, p, removed, TRUE)
    BY OnCollectionRemoveRun
  <1>3. /\ F[0] = m
        /\ \A n \in 1..N : F[n] = KeyChanged(RemoveParent(F[n - 1], removed[n], p, "items", TRUE),
                                             p, "items", TRUE)
        /\ OnCollectionRemove(m, p, removed, TRUE) = F[N]
    BY <1>2 DEF IsRemoveRun
  <1> DEFINE B == {k \in 0..N : F[k] \in Models /\ F[k].child = m.child /\ F[k].items = m.items}
  <1>4. 0 \in B
    BY <1>1, <1>3
  <1>5. ASSUME NEW k \in 1..N, k - 1 \in B PROVE k \in B
    <2> DEFINE a == F[k - 1]
               b == RemoveParent(a, removed[k], p, "items", TRUE)
    <2>1. a \in Models /\ a.child = m.child /\ a.items = m.items
      BY <1>5
    <2>2. F[k] = KeyChanged(b, p, "items", TRUE)
      BY <1>3
    <2>3. KeyChanged(b, p, "items", TRUE) = b
      BY DEF KeyChanged
    <2>4. ~Holds(a, <<p, "items">>, removed[k]) /\ "items" \in Keys
      BY <1>1, <2>1 DEF Holds, Keys
    <2> HIDE DEF a
    <2>5. b \in Models /\ b.child = a.child /\ b.items = a.items
      BY <1>1, <2>1, <2>4, LetsNothingGo, ZenonT(40) DEF SameLinks
    <2> HIDE DEF b
    <2>6. F[k] \in Models /\ F[k].child = m.child /\ F[k].items = m.items
      BY <2>1, <2>2, <2>3, <2>5
    <2> QED  BY <1>1, <2>6
  <1> HIDE DEF B
  <1>6. \A k \in 0..N : k \in B
    BY <1>1, <1>4, <1>5, Upwards
  <1>7. N \in B
    BY <1>1, <1>6
  <1> QED  BY <1>3, <1>7 DEF B

\* The client has taken what others wrote of p, and told nobody.
Taken(m, q, p, P, child, items) ==
    /\ \E rank : Settled(q, rank)
    /\ Silent(q) /\ Grown(m, q, p, P)
    /\ q.child = [m.child EXCEPT ![p] = child]
    /\ q.items = [m.items EXCEPT ![p] = items]

\* Others change a collection,
LEMMA RemoteReset ==
    ASSUME NEW m, \E rank : Settled(m, rank), Silent(m), NEW p, NEW new \in Seq(Objects),
           Careful(m, p, ToSet(new) \ ToSet(m.items[p]), ToSet(m.items[p]) \ ToSet(new)),
           ClientGraphAssumption
    PROVE  Taken(m, ResetItems(m, p, new, TRUE), p, ToSet(new) \ ToSet(m.items[p]),
                 m.child[p], new)
  <1> DEFINE had     == m.items[p]
             P       == ToSet(new) \ ToSet(had)
             T       == ToSet(had) \ ToSet(new)
             given   == [m EXCEPT !.items[p] = new]
             added   == Without(new, ToSet(had))
             removed == Without(had, ToSet(new))
             told    == OnCollectionAdd(given, p, added, TRUE)
             q       == OnCollectionRemove(told, p, removed, TRUE)
  <1>1. m \in Models /\ p \in Objects /\ had \in Seq(Objects)
    BY DEF Settled, Models, Careful
  <1>2. ResetItems(m, p, new, TRUE) = q
    BY DEF ResetItems
  <1>3. Ended(m, ResetItems(m, p, new, TRUE), NoFragment, p, P, TRUE)
    <2>1. Notes(m, NoFragment, p, Keys, P, TRUE) /\ TRUE \in BOOLEAN
      BY DEF Notes
    <2>2. Ready(m, NoFragment, p, P, T, TRUE)
      BY <2>1 DEF Ready
    <2> QED  BY <2>2, ResetEnds
  <1>4. given \in Models /\ given.child = m.child /\ given.items = [m.items EXCEPT ![p] = new]
    BY <1>1 DEF Models
  <1>5. added \in Seq(Objects) /\ removed \in Seq(Objects)
    BY <1>1, WithoutType
  <1>6. \A j \in Objects : Contains(removed, j) => ~Contains(new, j)
    BY <1>1, ContainsWithout, ToSetContains
  <1> HIDE DEF given, added, removed
  <1>7. told \in Models /\ told.child = given.child /\ told.items = given.items
    BY <1>1, <1>4, <1>5, OnCollectionAddFacts
  <1> HIDE DEF told
  <1>8. told.items[p] = new
    BY <1>1, <1>4, <1>7 DEF Models
  <1>9. q.child = told.child /\ q.items = told.items
    BY <1>1, <1>5, <1>6, <1>7, <1>8, RemovesNothing
  <1>10. m.child = [m.child EXCEPT ![p] = m.child[p]]
    BY <1>1 DEF Models
  <1>11. q.child = [m.child EXCEPT ![p] = m.child[p]] /\ q.items = [m.items EXCEPT ![p] = new]
    BY <1>4, <1>7, <1>9, <1>10
  <1> HIDE DEF q, P, T
  <1>12. (\E rank : Settled(q, rank)) /\ Silent(q) /\ Grown(m, q, p, P)
    BY <1>2, <1>3 DEF Ended, Notes, Moved, Grown
  <1> QED  BY <1>2, <1>11, <1>12 DEF Taken, P

\* or a property.
LEMMA RemoteNull ==
    ASSUME NEW m, \E rank : Settled(m, rank), Silent(m), NEW p,
           Careful(m, p, {}, {m.child[p]} \ {Null}), ClientGraphAssumption
    PROVE  Taken(m, SetChild(m, p, Null, TRUE), p, {}, Null, m.items[p])
  <1> DEFINE had   == m.child[p]
             given == [m EXCEPT !.child[p] = Null]
             left  == IF had = Null THEN given ELSE RemoveParent(given, had, p, "child", TRUE)
             q     == SetChild(m, p, Null, TRUE)
  <1>1. m \in Models /\ p \in Objects /\ had \in Objects \cup {Null} /\ Null \notin Objects
    BY DEF Settled, Models, Careful, ClientGraphAssumption
  <1>2. Ended(m, q, NoFragment, p, {}, TRUE)
    <2>1. Notes(m, NoFragment, p, Keys, {}, TRUE) /\ TRUE \in BOOLEAN
      BY DEF Notes
    <2>2. {Null} \ {Null} = {}
      OBVIOUS
    <2>3. Ready(m, NoFragment, p, {Null} \ {Null}, {m.child[p]} \ {Null}, TRUE)
      BY <2>1, <2>2 DEF Ready
    <2>4. Ended(m, q, NoFragment, p, {Null} \ {Null}, TRUE)
      BY <1>1, <2>3, SetChildEnds
    <2> QED  BY <2>2, <2>4
  <1>3. given \in Models /\ given.child = [m.child EXCEPT ![p] = Null] /\ given.items = m.items
    BY <1>1 DEF Models
  <1>4. q = left
    BY DEF SetChild, KeyChanged
  <1> HIDE DEF given
  <1>5. left.child = given.child /\ left.items = given.items
    <2>1. CASE had = Null
      BY <2>1
    <2>2. CASE had # Null
      <3>1. "child" \in Keys /\ TRUE \in BOOLEAN /\ had \in Objects
        BY <1>1, <2>2 DEF Keys
      <3>2. given.child[p] = Null
        BY <1>1, <1>3 DEF Models
      <3>3. ~Holds(given, <<p, "child">>, had)
        BY <2>2, <3>2 DEF Holds
      <3> HIDE DEF had
      <3> DEFINE r == RemoveParent(given, had, p, "child", TRUE)
      <3>4. SameLinks(given, r)
        BY <1>1, <1>3, <3>1, <3>3, LetsNothingGo
      <3> QED  BY <2>2, <3>4 DEF SameLinks
    <2> QED  BY <2>1, <2>2
  <1>6. m.items = [m.items EXCEPT ![p] = m.items[p]]
    BY <1>1 DEF Models
  <1> HIDE DEF q, left
  <1>7. q.child = [m.child EXCEPT ![p] = Null] /\ q.items = [m.items EXCEPT ![p] = m.items[p]]
    BY <1>3, <1>4, <1>5, <1>6
  <1>8. (\E rank : Settled(q, rank)) /\ Silent(q) /\ Grown(m, q, p, {})
    BY <1>2 DEF Ended, Notes, Moved, Grown
  <1> QED  BY <1>7, <1>8 DEF Taken, q
-----------------------------------------------------------------------------
\* Fragments applied.

\* Set the null it has, an object stays as it is.
LEMMA NullAgain ==
    ASSUME NEW m \in Models, NEW p \in Objects, m.child[p] = Null
    PROVE  SetChild(m, p, Null, TRUE) = m
  <1>1. [m EXCEPT !.child[p] = Null] = m
    BY DEF Models
  <1> QED  BY <1>1 DEF SetChild

\* So it does if it is given nothing and has nothing.
LEMMA NothingAgain ==
    ASSUME NEW m \in Models, NEW p \in Objects, m.items[p] = <<>>, ClientGraphAssumption
    PROVE  ResetItems(m, p, <<>>, TRUE) = m
  <1>1. [m EXCEPT !.items[p] = <<>>] = m
    BY DEF Models
  <1>2. Without(<<>>, ToSet(<<>>)) = <<>>
    BY WithoutNone
  <1>3. <<>> \in Seq(Objects) /\ Len(<<>>) = 0
    OBVIOUS
  <1>4. OnCollectionAdd(m, p, <<>>, TRUE) = m
    <2>1. PICK F : IsAddRun(F, m, p, <<>>, TRUE)
      BY <1>3, OnCollectionAddRun
    <2> QED  BY <1>3, <2>1 DEF IsAddRun
  <1>5. OnCollectionRemove(m, p, <<>>, TRUE) = m
    <2>1. PICK F : IsRemoveRun(F, m, p, <<>>, TRUE)
      BY <1>3, OnCollectionRemoveRun
    <2> QED  BY <1>3, <2>1 DEF IsRemoveRun
  <1> QED  BY <1>1, <1>2, <1>4, <1>5 DEF ResetItems

\* What is applied of a fragment that names one key, or that sets null again.
LEMMA PropertiesOf ==
    ASSUME NEW m \in Models, NEW p \in Objects, NEW f, ClientGraphAssumption
    PROVE  /\ f.child = Null /\ f.items = Unset
                => SetProperties(m, p, f) = SetChild(m, p, Null, TRUE)
           /\ f.items # Unset /\ (f.child = Unset \/ (f.child = Null /\ m.child[p] = Null))
                => SetProperties(m, p, f) = ResetItems(m, p, f.items, TRUE)
  <1>1. Null # Unset
    BY DEF ClientGraphAssumption
  <1>2. m.child[p] = Null => SetChild(m, p, Null, TRUE) = m
    BY NullAgain
  <1> DEFINE child == IF f.child = Unset THEN m ELSE SetChild(m, p, f.child, TRUE)
  <1>3. SetProperties(m, p, f) = IF f.items = Unset THEN child ELSE ResetItems(child, p, f.items, TRUE)
    BY DEF SetProperties
  <1>4. f.child = Null => child = SetChild(m, p, Null, TRUE)
    BY <1>1
  <1>5. f.child = Unset \/ (f.child = Null /\ m.child[p] = Null) => child = m
    BY <1>1, <1>2
  <1> HIDE DEF child
  <1> QED  BY <1>3, <1>4, <1>5

\* A sequence of a set has each of its elements once.
LEMMA SetToSeqOnce ==
    ASSUME NEW S, IsFiniteSet(S)
    PROVE  SetToSeq(S) \in [1..Cardinality(S) -> S] /\ IsInjective(SetToSeq(S))
  <1>1. Cardinality(S) \in Nat /\ ExistsBijection(1..Cardinality(S), S)
    BY FS_CardinalityType
  <1>2. \E f \in [1..Cardinality(S) -> S] : IsInjective(f)
    BY <1>1 DEF ExistsBijection, Bijection, Injection
  <1> QED  BY <1>2 DEF SetToSeq

\* One fragment, and two.
LEMMA ApplyOne ==
    ASSUME NEW m \in Models, Mirror(m), NEW fragments \in Remote, NEW p \in Objects,
           NamedBy(m, fragments) = {p}, ClientGraphAssumption
    PROVE  ApplyRemote(m, fragments) = SetProperties(m, p, fragments[p])
  <1> DEFINE named == SetToSeq({p})
  <1>1. IsFiniteSet({p}) /\ Cardinality({p}) = 1
    BY FS_Singleton
  <1>2. named \in [1..1 -> {p}]
    BY <1>1, SetToSeqOnce
  <1>3. PICK F : IsApplyRun(F, m, fragments)
    BY ApplyRun
  <1>4. /\ F[0] = m
        /\ \A n \in 1..Len(named) : F[n] = SetProperties(F[n - 1], named[n], fragments[named[n]])
        /\ ApplyRemote(m, fragments) = F[Len(named)]
    BY <1>3, Zenon DEF IsApplyRun
  <1> HIDE DEF named
  <1>5. Len(named) = 1 /\ 1 \in 1..1 /\ named[1] = p /\ 1 - 1 = 0
    BY <1>2
  <1> QED  BY <1>4, <1>5

InTurn(m, fragments, p, x, a, b) ==
    /\ {a, b} = {p, x} /\ a # b
    /\ ApplyRemote(m, fragments)
          = SetProperties(SetProperties(m, a, fragments[a]), b, fragments[b])

\* Two fragments are applied one after the other, in either order.
LEMMA ApplyTwo ==
    ASSUME NEW m \in Models, Mirror(m), NEW fragments \in Remote, NEW p \in Objects,
           NEW x \in Objects, x # p, NamedBy(m, fragments) = {p, x}, ClientGraphAssumption
    PROVE  \E a, b : InTurn(m, fragments, p, x, a, b)
  <1> DEFINE named == SetToSeq({p, x})
  <1>1. IsFiniteSet({p, x}) /\ Cardinality({p, x}) = 2
    <2>1. IsFiniteSet({p}) /\ Cardinality({p}) = 1 /\ x \notin {p}
      BY FS_Singleton
    <2>2. IsFiniteSet({p} \cup {x}) /\ Cardinality({p} \cup {x}) = 2
      <3> DEFINE S == {p}
      <3>1. IsFiniteSet(S) /\ Cardinality(S) = 1 /\ x \notin S
        BY <2>1
      <3> HIDE DEF S
      <3>2. /\ IsFiniteSet(S \cup {x})
            /\ Cardinality(S \cup {x}) = IF x \in S THEN Cardinality(S) ELSE Cardinality(S) + 1
        BY <3>1, FS_AddElement
      <3>3. IsFiniteSet(S \cup {x}) /\ Cardinality(S \cup {x}) = 2
        BY <3>1, <3>2
      <3> QED  BY <3>3 DEF S
    <2>3. {p} \cup {x} = {p, x}
      OBVIOUS
    <2> QED  BY <2>2, <2>3, Zenon
  <1>2. named \in [1..2 -> {p, x}] /\ IsInjective(named)
    BY <1>1, SetToSeqOnce
  <1>3. PICK F : IsApplyRun(F, m, fragments)
    BY ApplyRun
  <1>4. /\ F[0] = m
        /\ \A n \in 1..Len(named) : F[n] = SetProperties(F[n - 1], named[n], fragments[named[n]])
        /\ ApplyRemote(m, fragments) = F[Len(named)]
    BY <1>3, Zenon DEF IsApplyRun
  <1> HIDE DEF named
  <1>5. /\ Len(named) = 2 /\ 1 \in 1..2 /\ 2 \in 1..2 /\ 1 - 1 = 0 /\ 2 - 1 = 1
        /\ DOMAIN named = 1..2
    BY <1>2
  <1>6. named[1] \in {p, x} /\ named[2] \in {p, x} /\ named[1] # named[2]
    <2>1. named[1] # named[2]
      BY <1>2, <1>5 DEF IsInjective
    <2> QED  BY <1>2, <1>5, <2>1
  <1>7. {named[1], named[2]} = {p, x}
    BY <1>6
  <1>8. F[1] = SetProperties(m, named[1], fragments[named[1]])
    BY <1>4, <1>5
  <1>9. ApplyRemote(m, fragments) = SetProperties(F[1], named[2], fragments[named[2]])
    BY <1>4, <1>5
  <1>10. InTurn(m, fragments, p, x, named[1], named[2])
    BY <1>6, <1>7, <1>8, <1>9 DEF InTurn
  <1> QED  BY <1>10

\* Others make an object and put it into a collection.
LEMMA ApplyMade ==
    ASSUME NEW m \in Models, Mirror(m), NEW fragments \in Remote, NEW p \in Objects,
           NEW x \in Objects, x # p, NamedBy(m, fragments) = {p, x}, ClientGraphAssumption,
           fragments[x].child = Null, fragments[x].items = <<>>,
           m.child[x] = Null, m.items[x] = <<>>,
           fragments[p].child = Unset \/ (fragments[p].child = Null /\ m.child[p] = Null),
           fragments[p].items # Unset, NEW P,
           Taken(m, ResetItems(m, p, fragments[p].items, TRUE), p, P, m.child[p], fragments[p].items)
    PROVE  ApplyRemote(m, fragments) = ResetItems(m, p, fragments[p].items, TRUE)
  <1> DEFINE q == ResetItems(m, p, fragments[p].items, TRUE)
  <1>1. <<>> # Unset
    <2>1. <<>> \in Seq(Objects)
      OBVIOUS
    <2> QED  BY <2>1 DEF ClientGraphAssumption
  <1>2. SetProperties(m, p, fragments[p]) = q
    BY PropertiesOf
  <1>3. ASSUME NEW g \in Models, g.child[x] = Null, g.items[x] = <<>>
        PROVE  SetProperties(g, x, fragments[x]) = g
    <2>1. SetProperties(g, x, fragments[x]) = ResetItems(g, x, <<>>, TRUE)
      <3>1. SetProperties(g, x, fragments[x]) = ResetItems(g, x, fragments[x].items, TRUE)
        <4>1. /\ fragments[x].items # Unset
              /\ fragments[x].child = Unset \/ (fragments[x].child = Null /\ g.child[x] = Null)
          BY <1>1, <1>3
        <4> QED  BY <4>1, PropertiesOf
      <3> QED  BY <3>1
    <2> QED  BY <1>3, <2>1, NothingAgain
  <1>4. q \in Models /\ q.child[x] = Null /\ q.items[x] = <<>>
    <2> HIDE DEF q
    <2>1. q \in Models /\ q.child = [m.child EXCEPT ![p] = m.child[p]]
          /\ q.items = [m.items EXCEPT ![p] = fragments[p].items]
      BY DEF q, Taken, Settled
    <2>2. m.child \in [Objects -> Objects \cup {Null}] /\ m.items \in [Objects -> Seq(Objects)]
      BY DEF Models
    <2> QED  BY <2>1, <2>2
  <1>a. PICK a, b : InTurn(m, fragments, p, x, a, b)
    BY ApplyTwo
  <1>5. /\ {a, b} = {p, x} /\ a # b
        /\ ApplyRemote(m, fragments)
              = SetProperties(SetProperties(m, a, fragments[a]), b, fragments[b])
    BY <1>a DEF InTurn
  <1> HIDE DEF q
  <1>6. (a = p /\ b = x) \/ (a = x /\ b = p)
    BY <1>5
  <1>7. CASE a = p /\ b = x
    BY <1>2, <1>3, <1>4, <1>5, <1>7 DEF q
  <1>8. CASE a = x /\ b = p
    BY <1>2, <1>3, <1>5, <1>8 DEF q
  <1> QED  BY <1>6, <1>7, <1>8
-----------------------------------------------------------------------------
\* Nothing is on its way: the client and the server have the same, and the
\* children of p may be taken from it.
Quiet(m, s, p) ==
    /\ \E rank : Settled(m, rank)
    /\ Silent(m) /\ s \in Servers /\ HasAll(s, m)
    /\ p \in s.has /\ \A i \in Children(m, p) : MayLose(m, i)

Made == [type |-> "add", child |-> Null, items |-> <<>>]

\* Others give p this property and this collection, and make the objects X.
IsWrite(m, f, p, child, items, X) ==
    /\ f \in Remote /\ f[p].type = "change"
    /\ f[p].child = child \/ (f[p].child = Unset /\ child = m.child[p])
    /\ f[p].items = items \/ (f[p].items = Unset /\ items = m.items[p])
    /\ X \in SUBSET Objects /\ p \notin X
    /\ \A j \in Objects : j # p => f[j] = IF j \in X THEN Made ELSE NoFragment
    /\ \A j \in X : m.child[j] = Null /\ m.items[j] = <<>>
    /\ child \in {m.child[p], Null}
    /\ items \in Seq(Objects) /\ ToSet(items) \subseteq ToSet(m.items[p]) \cup X

\* What follows of the client and of the server then.
LEMMA QuietFacts ==
    ASSUME NEW m, NEW s, NEW p, Quiet(m, s, p)
    PROVE  /\ m \in Models /\ Mirror(m) /\ s \in Servers
           /\ p \in Objects /\ In(m, p) /\ Root \in s.has
           /\ s.has \subseteq Objects
           /\ \A j \in Objects : In(m, j) <=> j \in s.has
           /\ \A j \in s.has : s.child[j] = m.child[j] /\ s.items[j] = m.items[j]
           /\ \A k \in s.has, j \in Objects : j \in Children(m, k) => j \in s.has
  <1>1. PICK rank : Settled(m, rank)
    BY DEF Quiet
  <1>2. m \in Models /\ Mirror(m) /\ Attached(m) = Below(m, Root)
    BY <1>1, Reached DEF Settled
  <1>3. s.has = Below(m, Root) /\ s \in Servers /\ p \in s.has
        /\ \A j \in s.has : s.child[j] = m.child[j] /\ s.items[j] = m.items[j]
    BY DEF Quiet, HasAll
  <1>4. Root \in Objects
    BY DEF Objects
  <1>5. /\ Below(m, Root) \subseteq Objects /\ Root \in Below(m, Root)
        /\ \A k \in Below(m, Root), j \in Objects : j \in Children(m, k) => j \in Below(m, Root)
    BY <1>4, BelowClosed
  <1>6. \A j \in Objects : In(m, j) <=> j \in s.has
    BY <1>2, <1>3 DEF Attached, In
  <1> QED  BY <1>2, <1>3, <1>5, <1>6

\* What the server makes of it is what the client has after it.
LEMMA WriteMatches ==
    ASSUME NEW m, NEW s, NEW p, Quiet(m, s, p), NEW f, NEW child, NEW items, NEW X,
           IsWrite(m, f, p, child, items, X), X \cap s.has = {}, NEW q,
           q.child = [m.child EXCEPT ![p] = child], q.items = [m.items EXCEPT ![p] = items],
           ClientGraphAssumption
    PROVE  HasAll(Applied(s, f), q)
  <1> DEFINE W == KnownTo(s, f)
             g == LinksAfter(s, f)
  <1>1. /\ m \in Models /\ s \in Servers /\ p \in Objects /\ Root \in s.has
        /\ p \in s.has /\ s.has \subseteq Objects
        /\ \A j \in s.has : s.child[j] = m.child[j] /\ s.items[j] = m.items[j]
        /\ \A k \in s.has, j \in Objects : j \in Children(m, k) => j \in s.has
    BY QuietFacts DEF Quiet
  <1>2. /\ f \in [Objects -> Fragments] /\ f[p].type = "change"
        /\ X \subseteq Objects /\ p \notin X
        /\ \A j \in Objects : j # p => f[j] = IF j \in X THEN Made ELSE NoFragment
        /\ \A j \in X : m.child[j] = Null /\ m.items[j] = <<>>
    BY DEF IsWrite, Remote
  <1>3. /\ f[p].child = child \/ (f[p].child = Unset /\ child = m.child[p])
        /\ f[p].items = items \/ (f[p].items = Unset /\ items = m.items[p])
        /\ child \in {m.child[p], Null}
        /\ items \in Seq(Objects) /\ ToSet(items) \subseteq ToSet(m.items[p]) \cup X
    BY DEF IsWrite
  <1>4. /\ m.child \in [Objects -> Objects \cup {Null}] /\ m.items \in [Objects -> Seq(Objects)]
        /\ Null \notin Objects /\ Null # Unset /\ Root \in Objects
    BY <1>1 DEF Models, ClientGraphAssumption, Objects
  <1>5. /\ Made.type = "add" /\ Made.child = Null /\ Made.items = <<>>
        /\ NoFragment.type = "none"
    BY DEF Made, NoFragment
  <1> HIDE DEF Quiet, IsWrite
  <1>6. W = s.has \cup X
    <2>1. \A j \in Objects : f[j].type = "add" <=> j \in X
      BY <1>2, <1>5
    <2> QED  BY <1>2, <2>1 DEF KnownTo
  <1>7. /\ q.child[p] = child /\ q.items[p] = items
        /\ \A j \in Objects : j # p => q.child[j] = m.child[j] /\ q.items[j] = m.items[j]
    BY <1>1, <1>4
  <1>8. ToSet(<<>>) = {}
    BY DEF ToSet
  <1>9. ToSet(m.items[p]) \subseteq s.has
    <2>1. m.items[p] \in Seq(Objects)
      BY <1>1, <1>4
    <2>2. ToSet(m.items[p]) \subseteq Objects
      BY <2>1, ToSetContains DEF Contains
    <2> QED  BY <1>1, <2>2 DEF Children
  <1>10. child \in s.has \cup {Null}
    <2>1. m.child[p] = Null \/ m.child[p] \in Children(m, p)
      BY DEF Children
    <2> QED  BY <1>1, <1>3, <1>4, <2>1
  <1>11. Below(q, Root) \subseteq s.has \cup X
    <2> DEFINE S == s.has \cup X
    <2>1. ASSUME NEW k \in S, NEW j \in Objects, j \in Children(q, k) PROVE j \in S
      <3>1. CASE k = p
        BY <1>3, <1>7, <1>9, <1>10, <2>1, <3>1 DEF Children
      <3>2. CASE k # p /\ k \in s.has
        <4>1. Children(q, k) = Children(m, k)
          BY <1>1, <1>7, <3>2 DEF Children
        <4> QED  BY <1>1, <2>1, <3>2, <4>1
      <3>3. CASE k # p /\ k \in X
        <4>1. q.child[k] = Null /\ q.items[k] = <<>>
          BY <1>2, <1>7, <3>3
        <4> QED  BY <1>8, <2>1, <4>1 DEF Children
      <3> QED  BY <3>1, <3>2, <3>3
    <2>2. S \subseteq Objects /\ Root \in S
      BY <1>1, <1>2
    <2> HIDE DEF S
    <2>3. Below(q, Root) \subseteq S
      BY <1>4, <2>1, <2>2, BelowLeast
    <2> QED  BY <2>3 DEF S
  <1>12. Takes(s, f, p)
    <2>1. (IF f[p].child = Unset THEN {} ELSE {f[p].child} \ {Null}) \subseteq W
      BY <1>3, <1>6, <1>10
    <2>2. (IF f[p].items = Unset THEN {} ELSE ToSet(f[p].items)) \subseteq W
      BY <1>3, <1>6, <1>9
    <2>3. Refs(f[p]) \subseteq W
      BY <2>1, <2>2 DEF Refs
    <2> QED  BY <1>1, <1>2, <2>3 DEF Takes
  <1>13. ASSUME NEW j \in X PROVE Takes(s, f, j) /\ f[j] = Made
    <2>1. f[j] = Made /\ j \notin s.has
      BY <1>2
    <2>2. Refs(Made) = {}
      BY <1>4, <1>5, <1>8 DEF Refs
    <2> QED  BY <1>5, <2>1, <2>2 DEF Takes
  <1>14. ASSUME NEW j \in s.has, j # p PROVE ~Takes(s, f, j)
    <2>1. f[j] = NoFragment
      BY <1>1, <1>2, <1>14
    <2> QED  BY <1>5, <2>1 DEF Takes
  <1>15. \A j \in Objects :
            /\ g.child[j] = IF Takes(s, f, j) /\ f[j].child # Unset THEN f[j].child ELSE s.child[j]
            /\ g.items[j] = IF Takes(s, f, j) /\ f[j].items # Unset THEN f[j].items ELSE s.items[j]
    BY DEF LinksAfter
  <1> HIDE DEF W, g
  <1>16. g.child[p] = q.child[p] /\ g.items[p] = q.items[p]
    <2>1. s.child[p] = m.child[p] /\ s.items[p] = m.items[p]
      BY <1>1
    <2>2. g.child[p] = child
      BY <1>1, <1>3, <1>12, <1>15, <2>1
    <2>3. g.items[p] = items
      BY <1>1, <1>3, <1>12, <1>15, <2>1
    <2> QED  BY <1>7, <2>2, <2>3
  <1>17. ASSUME NEW j \in X PROVE g.child[j] = q.child[j] /\ g.items[j] = q.items[j]
    <2>1. j \in Objects /\ j # p
      BY <1>2
    <2>2. q.child[j] = Null /\ q.items[j] = <<>>
      BY <1>2, <1>7, <2>1
    <2>3. <<>> # Unset
      <3>1. <<>> \in Seq(Objects)
        OBVIOUS
      <3> QED  BY <3>1 DEF ClientGraphAssumption
    <2> QED  BY <1>4, <1>5, <1>13, <1>15, <2>1, <2>2, <2>3
  <1>18. ASSUME NEW j \in s.has, j # p PROVE g.child[j] = q.child[j] /\ g.items[j] = q.items[j]
    BY <1>1, <1>7, <1>14, <1>15, <1>18
  <1>19. /\ Below(q, Root) \subseteq W
         /\ \A j \in Below(q, Root) : g.child[j] = q.child[j] /\ g.items[j] = q.items[j]
    BY <1>6, <1>11, <1>16, <1>17, <1>18
  <1>20. s \in Servers /\ f \in [Objects -> Fragments]
    BY <1>1, <1>2
  <1>21. Below(q, Root) \subseteq KnownTo(s, f)
    BY <1>19 DEF W
  <1>22. \A j \in Below(q, Root) : /\ LinksAfter(s, f).child[j] = q.child[j]
                                   /\ LinksAfter(s, f).items[j] = q.items[j]
    BY <1>19 DEF g
  <1>23. Fits(s, f, q)
    BY <1>20, <1>21, <1>22, Zenon DEF Fits
  <1> QED  BY <1>23, Matches

\* Which objects the client applies it to.
LEMMA WriteNames ==
    ASSUME NEW m, NEW s, NEW p, Quiet(m, s, p), NEW f, NEW child, NEW items, NEW X,
           IsWrite(m, f, p, child, items, X)
    PROVE  NamedBy(m, f) = {p} \cup X
  <1>1. p \in Objects /\ p \in Attached(m)
    BY QuietFacts DEF Attached, In
  <1>2. f[p].type = "change" /\ X \subseteq Objects /\ p \notin X
        /\ \A j \in Objects : j # p => f[j] = IF j \in X THEN Made ELSE NoFragment
    BY DEF IsWrite
  <1>3. Made.type = "add" /\ NoFragment.type = "none"
    BY DEF Made, NoFragment
  <1> QED  BY <1>1, <1>2, <1>3 DEF NamedBy

\* After it the client and the server have the same again.
Agreed(m, q, s, f, p, P) ==
    /\ \E rank : Settled(q, rank)
    /\ Silent(q) /\ Grown(m, q, p, P)
    /\ HasAll(Applied(s, f), q) /\ P \subseteq Applied(s, f).has

\* Others set a property to null,
LEMMA WriteNull ==
    ASSUME NEW m, NEW s, NEW p, Quiet(m, s, p), NEW f,
           IsWrite(m, f, p, Null, m.items[p], {}), f[p].child = Null, f[p].items = Unset,
           ClientGraphAssumption
    PROVE  Agreed(m, ApplyRemote(m, f), s, f, p, {})
  <1> DEFINE q == SetChild(m, p, Null, TRUE)
  <1>1. m \in Models /\ Mirror(m) /\ p \in Objects /\ f \in Remote
    BY QuietFacts DEF IsWrite
  <1>2. NamedBy(m, f) = {p}
    <2>1. NamedBy(m, f) = {p} \cup {}
      BY WriteNames
    <2> QED  BY <2>1
  <1>3. ApplyRemote(m, f) = q
    <2>1. ApplyRemote(m, f) = SetProperties(m, p, f[p])
      BY <1>1, <1>2, ApplyOne
    <2> QED  BY <1>1, <2>1, PropertiesOf
  <1>4. Careful(m, p, {}, {m.child[p]} \ {Null})
    <2>1. m.child[p] \in Objects \cup {Null}
      BY <1>1 DEF Models
    <2> QED  BY <1>1, <2>1 DEF Quiet, Careful, Children
  <1>5. Taken(m, q, p, {}, Null, m.items[p])
    BY <1>4, RemoteNull DEF Quiet
  <1> HIDE DEF q
  <1>6. HasAll(Applied(s, f), q)
    <2>1. /\ q.child = [m.child EXCEPT ![p] = Null] /\ q.items = [m.items EXCEPT ![p] = m.items[p]]
          /\ {} \cap s.has = {}
      BY <1>5 DEF Taken
    <2> QED  BY <2>1, WriteMatches
  <1> QED  BY <1>3, <1>5, <1>6 DEF Agreed, Taken

\* take the first of a collection
LEMMA WriteFewer ==
    ASSUME NEW m, NEW s, NEW p, Quiet(m, s, p), NEW f, NEW items,
           IsWrite(m, f, p, m.child[p], items, {}), f[p].child = Unset, f[p].items = items,
           ClientGraphAssumption
    PROVE  Agreed(m, ApplyRemote(m, f), s, f, p, {})
  <1> DEFINE q == ResetItems(m, p, items, TRUE)
             P == ToSet(items) \ ToSet(m.items[p])
             T == ToSet(m.items[p]) \ ToSet(items)
  <1>1. /\ m \in Models /\ Mirror(m) /\ p \in Objects /\ f \in Remote
        /\ items \in Seq(Objects) /\ P = {}
    BY QuietFacts DEF IsWrite
  <1>2. NamedBy(m, f) = {p}
    <2>1. NamedBy(m, f) = {p} \cup {}
      BY WriteNames
    <2> QED  BY <2>1
  <1>3. ApplyRemote(m, f) = q
    <2>1. ApplyRemote(m, f) = SetProperties(m, p, f[p])
      BY <1>1, <1>2, ApplyOne
    <2>2. items # Unset
      BY <1>1 DEF ClientGraphAssumption
    <2> QED  BY <1>1, <2>1, <2>2, PropertiesOf
  <1>4. Careful(m, p, P, T)
    <2>1. T \subseteq Objects /\ T \subseteq Children(m, p)
      <3>1. m.items[p] \in Seq(Objects)
        BY <1>1 DEF Models
      <3> QED  BY <3>1, ToSetContains DEF Contains, Children
    <2> HIDE DEF T, P
    <2> QED  BY <1>1, <2>1 DEF Quiet, Careful
  <1>5. Taken(m, q, p, P, m.child[p], items)
    BY <1>1, <1>4, RemoteReset DEF Quiet
  <1> HIDE DEF q, P
  <1>6. HasAll(Applied(s, f), q)
    <2>1. /\ q.child = [m.child EXCEPT ![p] = m.child[p]] /\ q.items = [m.items EXCEPT ![p] = items]
          /\ {} \cap s.has = {}
      BY <1>5 DEF Taken
    <2> QED  BY <2>1, WriteMatches
  <1> QED  BY <1>1, <1>3, <1>5, <1>6 DEF Agreed, Taken

\* or put an object of theirs at its end.
LEMMA WriteMore ==
    ASSUME NEW m, NEW s, NEW p, Quiet(m, s, p), NEW f, NEW items,
           NEW x \in Objects \ {Root}, Untouched(m, x),
           IsWrite(m, f, p, m.child[p], items, {x}), f[p].child = Unset, f[p].items = items,
           ToSet(items) = ToSet(m.items[p]) \cup {x},
           ClientGraphAssumption
    PROVE  Agreed(m, ApplyRemote(m, f), s, f, p, {x})
  <1> DEFINE q == ResetItems(m, p, items, TRUE)
             P == ToSet(items) \ ToSet(m.items[p])
             T == ToSet(m.items[p]) \ ToSet(items)
  <1>1. /\ m \in Models /\ Mirror(m) /\ p \in Objects /\ f \in Remote
        /\ items \in Seq(Objects) /\ T = {} /\ P \subseteq {x} /\ x # p /\ f[x] = Made
    BY QuietFacts DEF IsWrite
  <1>2. NamedBy(m, f) = {p, x}
    <2>1. NamedBy(m, f) = {p} \cup {x}
      BY WriteNames
    <2> QED  BY <2>1
  <1>3. x \notin s.has
    <2>1. ~In(m, x)
      BY DEF Untouched, Quiet, Settled, Uniform
    <2> QED  BY <2>1, QuietFacts
  <1>4. Careful(m, p, P, T)
    <2>1. Below(m, x) = {x}
      <3>1. Children(m, x) = {}
        BY DEF Children, Untouched, ToSet
      <3>2. Below(m, x) \subseteq {x}
        BY <3>1, BelowLeast
      <3> QED  BY <3>2, BelowClosed
    <2>2. MayHold(m, p, x)
      BY <2>1 DEF MayHold, Untouched
    <2> HIDE DEF T, P
    <2> QED  BY <1>1, <2>1, <2>2 DEF Careful
  <1>5. Taken(m, q, p, P, m.child[p], items)
    BY <1>1, <1>4, RemoteReset DEF Quiet
  <1>6. ApplyRemote(m, f) = q
    <2>1. f[x].child = Null /\ f[x].items = <<>> /\ m.child[x] = Null /\ m.items[x] = <<>>
      BY <1>1 DEF Made, Untouched
    <2>2. f[p].items # Unset
      BY <1>1 DEF ClientGraphAssumption
    <2>3. Taken(m, ResetItems(m, p, f[p].items, TRUE), p, P, m.child[p], f[p].items)
      BY <1>5
    <2> HIDE DEF P, T, q
    <2>5. f[p].child = Unset \/ (f[p].child = Null /\ m.child[p] = Null)
      OBVIOUS
    <2>6. x \in Objects /\ p \in Objects /\ m \in Models /\ f \in Remote /\ Mirror(m) /\ x # p
      BY <1>1
    <2>4. ApplyRemote(m, f) = ResetItems(m, p, f[p].items, TRUE)
      BY <1>2, <2>1, <2>2, <2>3, <2>5, <2>6, ApplyMade
    <2> QED  BY <2>4 DEF q
  <1> HIDE DEF q, P
  <1>7. /\ q.child = [m.child EXCEPT ![p] = m.child[p]]
        /\ q.items = [m.items EXCEPT ![p] = items]
    BY <1>5 DEF Taken
  <1>8. HasAll(Applied(s, f), q)
    <2>1. {x} \cap s.has = {}
      BY <1>3
    <2> QED  BY <1>7, <2>1, WriteMatches
  <1>9. x \in Applied(s, f).has
    <2> DEFINE S == Below(q, Root)
    <2>1. Root \in Objects /\ p \in Below(m, Root)
      BY DEF Objects, Quiet, HasAll
    <2>2. /\ S \subseteq Objects /\ Root \in S
          /\ \A k \in S, j \in Objects : j \in Children(q, k) => j \in S
      BY <2>1, BelowClosed
    <2>3. m.child \in [Objects -> Objects \cup {Null}] /\ m.items \in [Objects -> Seq(Objects)]
      BY <1>1 DEF Models
    <2>4. \A k \in Objects : Children(m, k) \subseteq Children(q, k)
      <3> SUFFICES ASSUME NEW k \in Objects PROVE Children(m, k) \subseteq Children(q, k)
        OBVIOUS
      <3>1. CASE k = p
        <4>1. q.child[p] = m.child[p] /\ q.items[p] = items
          BY <1>1, <1>7, <2>3
        <4> QED  BY <3>1, <4>1 DEF Children
      <3>2. CASE k # p
        <4>1. q.child[k] = m.child[k] /\ q.items[k] = m.items[k]
          BY <1>1, <1>7, <2>3, <3>2
        <4> QED  BY <4>1 DEF Children
      <3> QED  BY <3>1, <3>2
    <2>5. x \in Children(q, p)
      <3>1. q.items[p] = items
        BY <1>1, <1>7, <2>3
      <3> QED  BY <3>1 DEF Children
    <2> HIDE DEF S
    <2>6. \A k \in S, j \in Objects : j \in Children(m, k) => j \in S
      BY <2>2, <2>4
    <2>7. Below(m, Root) \subseteq S
      BY <2>1, <2>2, <2>6, BelowLeast
    <2>8. x \in S
      BY <2>1, <2>2, <2>5, <2>7
    <2> QED  BY <1>8, <2>8 DEF HasAll, S
  <1>10. Grown(m, q, p, {x})
    BY <1>1, <1>5 DEF Taken, Grown
  <1> QED  BY <1>5, <1>6, <1>8, <1>9, <1>10 DEF Agreed, Taken
-----------------------------------------------------------------------------
\* What the server starts with can be reached from its root.
LEMMA InitsCompact ==
    ASSUME NEW s \in ServerInits
    PROVE  s \in Servers /\ Compact(s)
  <1>1. Root \in Objects /\ <<>> \in Seq(Objects)
    BY DEF Objects
  <1>2. ASSUME s = [has |-> {Root}, child |-> [i \in Objects |-> Null],
                    items |-> [i \in Objects |-> <<>>]]
        PROVE  s \in Servers /\ Compact(s)
    <2>1. s \in Servers /\ s.has = {Root}
      BY <1>1, <1>2 DEF Servers
    <2>2. Root \in Walk(s, Root, s.has) /\ Walk(s, Root, s.has) \subseteq s.has
      BY <2>1, WalkClosed, WalkType
    <2> QED  BY <2>1, <2>2 DEF Compact
  <1>3. ASSUME NEW x \in Theirs,
               s = [has |-> {Root, x}, child |-> [i \in Objects |-> Null],
                    items |-> [i \in Objects |-> IF i = Root THEN <<x>> ELSE <<>>]]
        PROVE  s \in Servers /\ Compact(s)
    <2>1. x \in Objects /\ <<x>> \in Seq(Objects)
      BY DEF Objects
    <2>2. s \in Servers /\ s.has = {Root, x} /\ s.items[Root] = <<x>>
      BY <1>1, <1>3, <2>1 DEF Servers
    <2>3. x \in Children(s, Root)
      <3>1. x \in ToSet(<<x>>)
        BY DEF ToSet
      <3> QED  BY <2>2, <3>1 DEF Children
    <2>4. Root \in Walk(s, Root, s.has) /\ Walk(s, Root, s.has) \subseteq s.has
      BY <2>2, WalkClosed, WalkType
    <2>5. x \in Walk(s, Root, s.has)
      BY <2>2, <2>3, <2>4, WalkClosed
    <2> QED  BY <2>2, <2>4, <2>5 DEF Compact
  <1> QED  BY <1>2, <1>3 DEF ServerInits

\* The initial states.
LEMMA InitSInv ==
    ASSUME ClientGraphAssumption, Init
    PROVE  SInv
  <1>1. /\ model = Unstated /\ stated = FALSE /\ server \in ServerInits
        /\ arrived = server.has \ {Root}
    BY DEF Init, Unstated
  <1>2. server \in Servers /\ Compact(server)
    BY <1>1, InitsCompact
  <1>3. \A x \in Objects : Untouched(Unstated, x)
    BY DEF Untouched, Unstated
  <1>4. Theirs \subseteq Objects
    BY DEF Objects
  <1> QED  BY <1>1, <1>2, <1>3, <1>4 DEF SInv

\* Before the state of the scope arrives there is nothing but the root in it.
LEMMA UnstatedFacts ==
    ASSUME ClientGraphAssumption
    PROVE  /\ Unstated \in Models /\ Mirror(Unstated)
           /\ \E rank : Settled(Unstated, rank)
           /\ Silent(Unstated)
           /\ \A i \in Objects : Below(Unstated, i) = {i} /\ Untouched(Unstated, i)
  <1> DEFINE m == Unstated
  <1>1. Root \in Objects /\ Null \notin Objects /\ <<>> \in Seq(Objects)
    BY DEF Objects, ClientGraphAssumption
  <1>2. NoFragment \in Fragments
    BY DEF NoFragment, Fragments
  <1>3. m \in Models
    BY <1>1, <1>2 DEF Unstated, Models, NoFragments, ScopeIds
  <1>4. /\ \A i \in Objects : /\ m.child[i] = Null /\ m.items[i] = <<>> /\ m.parents[i] = {}
                              /\ In(m, i) <=> i = Root
                              /\ m.fragments[i] = NoFragment
        /\ m.removed = {} /\ m.changesQueued = FALSE
    BY DEF Unstated, In, NoFragments
  <1> HIDE DEF m
  <1>5. \A r \in Slots, j \in Objects : ~Knows(m, r, j) /\ ~Holds(m, r, j)
    <2> SUFFICES ASSUME NEW r \in Slots, NEW j \in Objects
                 PROVE  ~Knows(m, r, j) /\ ~Holds(m, r, j)
      OBVIOUS
    <2>1. r[1] \in Objects
      BY DEF Slots
    <2>2. ~Contains(<<>>, j)
      BY DEF Contains
    <2> QED  BY <1>1, <1>4, <2>1, <2>2 DEF Knows, Holds
  <1> DEFINE rank == [i \in Objects |-> 0]
  <1>6. Settled(m, rank)
    <2>1. rank \in [Objects -> Nat]
      OBVIOUS
    <2>2. Mirror(m) /\ Sorted(m, rank)
      BY <1>5 DEF Mirror, Sorted
    <2>3. Uniform(m)
      BY <1>1, <1>4 DEF Uniform
    <2> QED  BY <1>3, <1>4, <2>1, <2>2, <2>3 DEF Settled
  <1>7. Silent(m)
    BY <1>4 DEF Silent
  <1>8. \A i \in Objects : Below(m, i) = {i} /\ Untouched(m, i)
    <2> SUFFICES ASSUME NEW i \in Objects PROVE Below(m, i) = {i} /\ Untouched(m, i)
      OBVIOUS
    <2>1. Children(m, i) = {}
      BY <1>4 DEF Children, ToSet
    <2>2. Below(m, i) \subseteq {i}
      <3> DEFINE S == {i}
      <3>1. S \subseteq Objects /\ i \in S /\ \A k \in S, j \in Objects : j \in Children(m, k) => j \in S
        BY <2>1
      <3> HIDE DEF S
      <3>2. Below(m, i) \subseteq S
        BY <3>1, BelowLeast
      <3> QED  BY <3>2 DEF S
    <2> QED  BY <1>4, <2>2, BelowClosed DEF Untouched
  <1>9. (\E k : Settled(m, k)) /\ Mirror(m)
    BY <1>6 DEF Settled
  <1> QED  BY <1>3, <1>7, <1>8, <1>9 DEF m

\* After the state of the scope the client has what the server has: its root,
LEMMA StateOfRoot ==
    ASSUME ClientGraphAssumption, NEW s \in Servers, NEW f \in Remote,
           s.has = {Root}, s.child[Root] = Null, s.items[Root] = <<>>,
           \A i \in Objects : f[i] = IF i = Root THEN Made ELSE NoFragment
    PROVE  ApplyRemote(Unstated, f) = Unstated /\ HasAll(s, Unstated)
  <1>1. /\ Root \in Objects /\ Made.type = "add" /\ Made.child = Null /\ Made.items = <<>>
        /\ NoFragment.type = "none"
    BY DEF Objects, Made, NoFragment
  <1>2. /\ Unstated \in Models /\ Mirror(Unstated) /\ Below(Unstated, Root) = {Root}
        /\ Unstated.child[Root] = Null /\ Unstated.items[Root] = <<>>
    BY <1>1, UnstatedFacts DEF Untouched
  <1>3. NamedBy(Unstated, f) = {Root}
    BY <1>1 DEF NamedBy
  <1>4. ApplyRemote(Unstated, f) = SetProperties(Unstated, Root, f[Root])
    BY <1>1, <1>2, <1>3, ApplyOne
  <1>5. SetProperties(Unstated, Root, f[Root]) = ResetItems(Unstated, Root, f[Root].items, TRUE)
    <2>1. <<>> # Unset
      <3>1. <<>> \in Seq(Objects)
        OBVIOUS
      <3> QED  BY <3>1 DEF ClientGraphAssumption
    <2>2. /\ f[Root].items # Unset
          /\ f[Root].child = Unset \/ (f[Root].child = Null /\ Unstated.child[Root] = Null)
      BY <1>1, <1>2, <2>1
    <2> QED  BY <1>1, <1>2, <2>2, PropertiesOf
  <1>6. ResetItems(Unstated, Root, <<>>, TRUE) = Unstated
    BY <1>1, <1>2, NothingAgain
  <1>7. f[Root].items = <<>>
    BY <1>1
  <1> QED  BY <1>2, <1>4, <1>5, <1>6, <1>7 DEF HasAll

\* or that and an object in its collection.
LEMMA StateOfTwo ==
    ASSUME ClientGraphAssumption, NEW s \in Servers, NEW f \in Remote, NEW x \in Objects \ {Root},
           s.has = {Root, x}, s.child[Root] = Null, s.items[Root] = <<x>>,
           s.child[x] = Null, s.items[x] = <<>>,
           f[x] = Made, f[Root] = [type |-> "add", child |-> Null, items |-> <<x>>],
           \A i \in Objects \ {Root, x} : f[i] = NoFragment
    PROVE  /\ HasAll(s, ApplyRemote(Unstated, f))
           /\ Silent(ApplyRemote(Unstated, f))
           /\ \E rank : Settled(ApplyRemote(Unstated, f), rank)
           /\ Grown(Unstated, ApplyRemote(Unstated, f), Root, {x})
  <1> DEFINE m == Unstated
             new == <<x>>
             q == ResetItems(m, Root, new, TRUE)
             P == ToSet(new) \ ToSet(m.items[Root])
             T == ToSet(m.items[Root]) \ ToSet(new)
  <1>1. /\ Root \in Objects /\ Made.type = "add" /\ Made.child = Null /\ Made.items = <<>>
        /\ NoFragment.type = "none"
        /\ f[Root].type = "add" /\ f[Root].child = Null /\ f[Root].items = new
    BY DEF Objects, Made, NoFragment
  <1>2. /\ m \in Models /\ Mirror(m) /\ Silent(m) /\ (\E rank : Settled(m, rank))
        /\ \A i \in Objects : /\ Below(m, i) = {i} /\ m.child[i] = Null /\ m.items[i] = <<>>
                              /\ m.parents[i] = {}
    BY UnstatedFacts DEF Untouched
  <1> HIDE DEF m
  <1>3. /\ new \in Seq(Objects) /\ ToSet(new) = {x} /\ new # Unset
        /\ P = {x} /\ T = {}
    <2>1. ToSet(new) = {x} /\ ToSet(<<>>) = {}
      BY DEF ToSet
    <2>2. new \in Seq(Objects)
      OBVIOUS
    <2>3. new # Unset
      BY <2>2 DEF ClientGraphAssumption
    <2> HIDE DEF new
    <2> QED  BY <1>1, <1>2, <2>1, <2>2, <2>3
  <1> HIDE DEF new, P, T
  <1>4. Careful(m, Root, P, T)
    <2>1. MayHold(m, Root, x)
      BY <1>2 DEF MayHold
    <2>2. Root \notin Below(m, x)
      BY <1>2
    <2> QED  BY <1>1, <1>3, <2>1, <2>2 DEF Careful
  <1>5. Taken(m, q, Root, P, m.child[Root], new)
    BY <1>1, <1>2, <1>3, <1>4, RemoteReset DEF P, T
  <1>6. NamedBy(m, f) = {Root, x}
    BY <1>1 DEF NamedBy
  <1>7. ApplyRemote(m, f) = q
    <2>1. /\ f[x].child = Null /\ f[x].items = <<>> /\ m.child[x] = Null /\ m.items[x] = <<>>
          /\ f[Root].items # Unset /\ x # Root
      BY <1>1, <1>2, <1>3
    <2>2. f[Root].child = Unset \/ (f[Root].child = Null /\ m.child[Root] = Null)
      BY <1>1, <1>2
    <2>3. Taken(m, ResetItems(m, Root, f[Root].items, TRUE), Root, P, m.child[Root], f[Root].items)
      BY <1>1, <1>5
    <2>4. x \in Objects /\ Root \in Objects /\ m \in Models /\ Mirror(m)
      BY <1>1, <1>2
    <2> HIDE DEF q
    <2>5. ApplyRemote(m, f) = ResetItems(m, Root, f[Root].items, TRUE)
      BY <1>6, <2>1, <2>2, <2>3, <2>4, ApplyMade, ZenonT(40)
    <2> QED  BY <1>1, <2>5 DEF q
  <1> HIDE DEF q
  <1>8. /\ q.child[Root] = Null /\ q.items[Root] = new
        /\ q.child[x] = Null /\ q.items[x] = <<>>
    <2>1. m.child \in [Objects -> Objects \cup {Null}] /\ m.items \in [Objects -> Seq(Objects)]
      BY <1>2 DEF Models
    <2> QED  BY <1>1, <1>2, <1>5, <2>1 DEF Taken
  <1>9. Below(q, Root) = {Root, x}
    <2>1. Children(q, Root) = {x} /\ Children(q, x) = {}
      <3>1. ToSet(<<>>) = {}
        BY DEF ToSet
      <3> QED  BY <1>3, <1>8, <3>1 DEF Children
    <2>2. Below(q, Root) \subseteq {Root, x}
      <3> DEFINE S == {Root, x}
      <3>1. /\ S \subseteq Objects /\ Root \in S
            /\ \A k \in S, j \in Objects : j \in Children(q, k) => j \in S
        BY <1>1, <2>1
      <3> HIDE DEF S
      <3>2. Below(q, Root) \subseteq S
        BY <1>1, <3>1, BelowLeast
      <3> QED  BY <3>2 DEF S
    <2>3. Root \in Below(q, Root) /\ x \in Below(q, Root)
      BY <1>1, <2>1, BelowClosed
    <2> QED  BY <2>2, <2>3
  <1>10. HasAll(s, q)
    BY <1>8, <1>9 DEF HasAll, new
  <1> QED  BY <1>3, <1>5, <1>7, <1>10 DEF Taken, m
-----------------------------------------------------------------------------
\* The state of the scope arrives.
LEMMA OnScopeStateSInv ==
    ASSUME ClientGraphAssumption, IInv, SInv, OnScopeState
    PROVE  SInv'
  <1> DEFINE f == [i \in Objects |-> IF i \in server.has
                   THEN [type |-> "add", child |-> server.child[i], items |-> server.items[i]]
                   ELSE NoFragment]
             q == ApplyRemote(Unstated, f)
  <1>1. /\ ~stated /\ stated' = TRUE /\ model = Unstated /\ arrived = server.has \ {Root}
        /\ server \in ServerInits /\ server \in Servers /\ Compact(server) /\ toServer = <<>>
    BY DEF OnScopeState, SInv, IInv, BeforeState
  <1>2. model' = q /\ UNCHANGED <<toServer, server, arrived>>
    BY <1>1 DEF OnScopeState
  <1>3. /\ Root \in Objects /\ Theirs \subseteq Objects /\ Root \notin Theirs
        /\ <<>> \in Seq(Objects) /\ Null # Unset /\ Null \notin Objects
    BY DEF Objects, ClientGraphAssumption
  <1>4. \A i \in Objects : f[i] = IF i \in server.has
                   THEN [type |-> "add", child |-> server.child[i], items |-> server.items[i]]
                   ELSE NoFragment
    OBVIOUS
  <1>5. f \in Remote
    <2>1. \A i \in Objects : server.child[i] = Null
      BY <1>1 DEF ServerInits
    <2>2. server.items \in [Objects -> Seq(Objects)]
      BY <1>1 DEF Servers
    <2>3. \A i \in Objects : f[i] \in Fragments /\ f[i].child \in {Null, Unset}
      BY <1>4, <2>1, <2>2 DEF Fragments, NoFragment
    <2> QED  BY <2>3 DEF Remote
  <1> HIDE DEF f
  <1> DEFINE Right == /\ \E rank : Settled(q, rank)
                      /\ Silent(q) /\ HasAll(server, q)
                      /\ \A y \in Theirs \ arrived : Untouched(q, y)
  <1>6. ASSUME server = [has |-> {Root}, child |-> [i \in Objects |-> Null],
                         items |-> [i \in Objects |-> <<>>]]
        PROVE  Right
    <2>1. server.has = {Root} /\ server.child[Root] = Null /\ server.items[Root] = <<>>
      BY <1>3, <1>6
    <2>2. \A i \in Objects : f[i] = IF i = Root THEN Made ELSE NoFragment
      BY <1>4, <2>1 DEF Made
    <2>3. q = Unstated /\ HasAll(server, Unstated)
      BY <1>1, <1>5, <2>1, <2>2, StateOfRoot
    <2> HIDE DEF q
    <2> QED  BY <1>3, <2>3, UnstatedFacts
  <1>7. ASSUME NEW x \in Theirs,
               server = [has |-> {Root, x}, child |-> [i \in Objects |-> Null],
                         items |-> [i \in Objects |-> IF i = Root THEN <<x>> ELSE <<>>]]
        PROVE  Right
    <2>1. /\ server.has = {Root, x} /\ server.child[Root] = Null /\ server.items[Root] = <<x>>
          /\ server.child[x] = Null /\ server.items[x] = <<>> /\ x \in Objects \ {Root}
      BY <1>3, <1>7
    <2>2. /\ f[x] = Made /\ f[Root] = [type |-> "add", child |-> Null, items |-> <<x>>]
          /\ \A i \in Objects \ {Root, x} : f[i] = NoFragment
      BY <1>3, <1>4, <2>1 DEF Made
    <2>3. /\ HasAll(server, q) /\ Silent(q) /\ (\E rank : Settled(q, rank))
          /\ Grown(Unstated, q, Root, {x})
      BY <1>1, <1>5, <2>1, <2>2, StateOfTwo
    <2> HIDE DEF q
    <2>4. ASSUME NEW y \in Theirs \ arrived PROVE Untouched(q, y)
      <3>1. y \in Objects /\ y # Root /\ y \notin {x}
        BY <1>1, <1>3, <2>1
      <3>2. Unstated \in Models /\ Mirror(Unstated) /\ Untouched(Unstated, y)
        BY <3>1, UnstatedFacts
      <3>3. q \in Models /\ Mirror(q)
        BY <2>3 DEF Settled
      <3> QED  BY <2>3, <3>1, <3>2, <3>3, StaysUntouched
    <2> QED  BY <2>3, <2>4
  <1>8. Right
    BY <1>1, <1>6, <1>7 DEF ServerInits
  <1>9. ComingOf(toServer, server) = server
    BY <1>1, ComingNone
  <1> HIDE DEF q
  <1>10. Well(q, ComingOf(toServer, server))
    BY <1>8, <1>9, SilentWell
  <1>11. Well(model', ComingOf(toServer', server'))
    BY <1>2, <1>10
  <1>12. \A y \in Theirs \ arrived' : Untouched(model', y)
    BY <1>2, <1>8
  <1> QED  BY <1>1, <1>2, <1>11, <1>12 DEF SInv

\* Others write only while nothing is on its way.
LEMMA SyncQuiet ==
    ASSUME ClientGraphAssumption, IInv, SInv, NEW p \in server.has, NEW f, OnScopeSync(p, f)
    PROVE  Quiet(model, server, p)
  <1>1. /\ stated /\ toServer = <<>> /\ ~model.changesQueued
        /\ \A i \in Children(server, p) : MayTake(i)
        /\ server \in Servers /\ Compact(server)
    BY DEF OnScopeSync, SInv
  <1>2. Well(model, server)
    BY <1>1, ComingNone DEF SInv
  <1>3. \A j \in Objects : model.fragments[j] = NoFragment
    BY <1>1, <1>2 DEF Well, All
  <1>4. HasAll(server, model)
    BY <1>1, <1>2, <1>3, NothingToSay
  <1>5. Children(server, p) = Children(model, p)
    BY <1>4 DEF HasAll, Children
  <1>6. \A i \in Children(model, p) : MayLose(model, i)
    BY <1>1, <1>5 DEF MayTake, MayLose
  <1> QED  BY <1>1, <1>2, <1>3, <1>4, <1>6 DEF Quiet, Silent, Well

\* The client and the server have the same again.
LEMMA SyncEnds ==
    ASSUME ClientGraphAssumption, IInv, SInv, NEW p \in server.has, NEW f \in [Objects -> Fragments],
           OnScopeSync(p, f), NEW P, Agreed(model, ApplyRemote(model, f), server, f, p, P)
    PROVE  SInv'
  <1> DEFINE q == ApplyRemote(model, f)
             d == Applied(server, f)
  <1>1. /\ stated /\ toServer = <<>> /\ server' = d /\ model' = q
        /\ arrived' = arrived \cup (d.has \ ({Root} \cup Mine))
        /\ UNCHANGED <<stated, toServer>>
        /\ server \in Servers /\ Compact(server)
        /\ model \in Models /\ Mirror(model)
    BY DEF OnScopeSync, SInv, IInv
  <1>2. /\ (\E rank : Settled(q, rank)) /\ Silent(q) /\ Grown(model, q, p, P)
        /\ HasAll(d, q) /\ P \subseteq d.has
    BY DEF Agreed
  <1>3. d \in Servers /\ Compact(d)
    BY <1>1, AppliedParts, AppliedCompact DEF Compact
  <1>4. p \notin Theirs \ arrived
    <2> SUFFICES ASSUME p \in Theirs \ arrived PROVE FALSE
      OBVIOUS
    <2>1. Quiet(model, server, p)
      BY SyncQuiet
    <2>2. In(model, p) /\ p \in Objects
      BY <2>1, QuietFacts
    <2>3. p # Root
      BY DEF ClientGraphAssumption
    <2>4. model.parents[p] = {}
      BY DEF SInv, Untouched
    <2> QED  BY <2>1, <2>2, <2>3, <2>4 DEF Quiet, Settled, Uniform
  <1> HIDE DEF q, d
  <1>5. ASSUME NEW y \in Theirs \ arrived' PROVE Untouched(q, y)
    <2>1. y \in Objects /\ y \notin {Root} \cup Mine /\ y \in Theirs \ arrived
      BY <1>1 DEF Objects, ClientGraphAssumption
    <2>2. y \notin P /\ y # p
      BY <1>1, <1>2, <1>4, <2>1
    <2>3. Untouched(model, y)
      BY <2>1 DEF SInv
    <2>4. q \in Models /\ Mirror(q)
      BY <1>2 DEF Settled
    <2> QED  BY <1>1, <1>2, <2>1, <2>2, <2>3, <2>4, StaysUntouched
  <1>6. Well(q, ComingOf(<<>>, d))
    <2>1. ComingOf(<<>>, d) = d
      BY <1>3, ComingNone
    <2>2. Well(q, d)
      BY <1>2, SilentWell
    <2> QED  BY <2>1, <2>2
  <1>7. Well(model', ComingOf(toServer', server'))
    BY <1>1, <1>6
  <1>8. \A y \in Theirs \ arrived' : Untouched(model', y)
    BY <1>1, <1>5
  <1> QED  BY <1>1, <1>3, <1>7, <1>8 DEF SInv

\* Whatever others write, the sync brings it.
LEMMA OnScopeSyncSInv ==
    ASSUME ClientGraphAssumption, IInv, SInv, NEW p \in server.has, NEW f \in Writes(p),
           OnScopeSync(p, f)
    PROVE  SInv'
  <1> DEFINE items == server.items[p]
             take == [NoFragment EXCEPT !.type = "change", !.child = Null]
             fewer == [NoFragment EXCEPT !.type = "change", !.items = Tail(items)]
             more(x) == [NoFragment EXCEPT !.type = "change", !.items = Append(items, x)]
  <1>1. Quiet(model, server, p)
    BY SyncQuiet
  <1>2. /\ p \in Objects /\ model \in Models /\ items = model.items[p]
        /\ ServerType /\ arrived \subseteq Theirs
    BY <1>1, QuietFacts DEF IInv, BoundsType
  <1>3. f \in Remote /\ f \in [Objects -> Fragments]
    BY <1>2, WritesRemote DEF Remote
  <1>4. items \in Seq(Objects) /\ \A i \in Objects : NoFragments[i] = NoFragment
    BY <1>2 DEF Models, NoFragments
  <1>5. \/ f = [NoFragments EXCEPT ![p] = take]
        \/ 1 \in DOMAIN items /\ f = [NoFragments EXCEPT ![p] = fewer]
        \/ \E x \in Theirs \ arrived : f = [NoFragments EXCEPT ![p] = more(x), ![x] = Made]
    BY DEF Writes, Made
  <1>6. /\ take.type = "change" /\ take.child = Null /\ take.items = Unset
        /\ fewer.type = "change" /\ fewer.child = Unset /\ fewer.items = Tail(items)
        /\ \A x : more(x).type = "change" /\ more(x).child = Unset /\ more(x).items = Append(items, x)
    BY DEF NoFragment
  <1>7. NoFragments \in [Objects -> {NoFragment}]
    BY DEF NoFragments
  <1> HIDE DEF take, fewer, more
  <1>8. ASSUME f = [NoFragments EXCEPT ![p] = take] PROVE SInv'
    <2>1. f[p] = take /\ \A j \in Objects : j # p => f[j] = NoFragment
      BY <1>2, <1>7, <1>8
    <2>2. IsWrite(model, f, p, Null, model.items[p], {})
      BY <1>2, <1>3, <1>4, <1>6, <2>1 DEF IsWrite
    <2>3. Agreed(model, ApplyRemote(model, f), server, f, p, {})
      BY <1>1, <1>6, <2>1, <2>2, WriteNull
    <2> QED  BY <1>3, <2>3, SyncEnds
  <1>9. ASSUME 1 \in DOMAIN items, f = [NoFragments EXCEPT ![p] = fewer] PROVE SInv'
    <2>1. f[p] = fewer /\ \A j \in Objects : j # p => f[j] = NoFragment
      BY <1>2, <1>7, <1>9
    <2> DEFINE new == Tail(items)
    <2>2. new \in Seq(Objects) /\ ToSet(new) \subseteq ToSet(items)
      <3> HIDE DEF items
      <3>1. items # <<>>
        BY <1>9
      <3>2. /\ new \in Seq(Objects) /\ Len(new) = Len(items) - 1
            /\ \A n \in 1..Len(new) : new[n] = items[n + 1]
        BY <1>4, <3>1
      <3>3. \A n \in 1..Len(new) : n + 1 \in 1..Len(items)
        BY <1>4, <3>2
      <3> HIDE DEF new
      <3> QED  BY <1>4, <3>2, <3>3 DEF ToSet
    <2> HIDE DEF new
    <2>3. f[p].child = Unset /\ f[p].items = new /\ f[p].type = "change"
      BY <1>6, <2>1 DEF new
    <2>4. IsWrite(model, f, p, model.child[p], new, {})
      BY <1>2, <1>3, <2>1, <2>2, <2>3 DEF IsWrite
    <2>5. Agreed(model, ApplyRemote(model, f), server, f, p, {})
      BY <1>1, <2>3, <2>4, WriteFewer
    <2> QED  BY <1>3, <2>5, SyncEnds
  <1>10. ASSUME NEW x \in Theirs \ arrived, f = [NoFragments EXCEPT ![p] = more(x), ![x] = Made]
         PROVE  SInv'
    <2>1. x \in Objects \ {Root} /\ Untouched(model, x)
      BY DEF Objects, ClientGraphAssumption, SInv
    <2>2. x # p
      <3>1. In(model, p)
        BY <1>1, QuietFacts
      <3> QED  BY <1>1, <2>1, <3>1 DEF Quiet, Settled, Uniform, Untouched
    <2>3. f[p] = more(x) /\ f[x] = Made /\ \A j \in Objects : j # p /\ j # x => f[j] = NoFragment
      BY <1>2, <1>7, <1>10, <2>1, <2>2
    <2> DEFINE new == Append(items, x)
    <2>4. new \in Seq(Objects) /\ ToSet(new) = ToSet(items) \cup {x}
      <3> HIDE DEF items
      <3>1. /\ new \in Seq(Objects) /\ Len(new) = Len(items) + 1 /\ new[Len(items) + 1] = x
            /\ \A n \in 1..Len(items) : new[n] = items[n]
        BY <1>4, <2>1
      <3>2. \A n : n \in 1..Len(new) <=> n \in 1..Len(items) \/ n = Len(items) + 1
        BY <1>4, <3>1
      <3>3. DOMAIN new = 1..Len(new) /\ DOMAIN items = 1..Len(items)
        BY <1>4, <3>1
      <3> HIDE DEF new
      <3> QED  BY <3>1, <3>2, <3>3 DEF ToSet
    <2> HIDE DEF new
    <2>5. f[p].child = Unset /\ f[p].items = new /\ f[p].type = "change"
      BY <1>6, <2>3 DEF new
    <2>6. IsWrite(model, f, p, model.child[p], new, {x})
      <3>1. \A j \in {x} : model.child[j] = Null /\ model.items[j] = <<>>
        BY <2>1 DEF Untouched
      <3>2. \A j \in Objects : j # p => f[j] = IF j \in {x} THEN Made ELSE NoFragment
        BY <2>3
      <3> QED  BY <1>2, <1>3, <2>1, <2>2, <2>4, <2>5, <3>1, <3>2 DEF IsWrite
    <2>7. Agreed(model, ApplyRemote(model, f), server, f, p, {x})
      <3>1. ToSet(new) = ToSet(model.items[p]) \cup {x}
        BY <1>2, <2>4
      <3> QED  BY <1>1, <2>1, <2>5, <2>6, <3>1, WriteMore
    <2> QED  BY <1>3, <2>7, SyncEnds
  <1> QED  BY <1>5, <1>8, <1>9, <1>10

\* Every step keeps it.
LEMMA NextSInv ==
    ASSUME ClientGraphAssumption, IInv, SInv, [Next]_vars
    PROVE  SInv'
  <1>1. CASE OnScopeState
    BY <1>1, OnScopeStateSInv
  <1>2. ASSUME NEW p \in Seen, EditChild(p) \/ EditItems(p) \/ EditDetach(p)
        PROVE  SInv'
    BY <1>2, EditChildSInv, EditItemsSInv, EditDetachSInv
  <1>3. CASE SendChanges
    BY <1>3, SendChangesSInv
  <1>4. CASE ServerApplies
    BY <1>4, ServerAppliesSInv
  <1>5. ASSUME NEW p \in server.has, NEW fragments \in Writes(p), OnScopeSync(p, fragments)
        PROVE  SInv'
    BY <1>5, OnScopeSyncSInv
  <1>6. CASE UNCHANGED vars
    <2>1. UNCHANGED <<model, stated, toServer, server, arrived>>
      BY <1>6 DEF vars
    <2> QED  BY <2>1 DEF SInv
  <1> QED  BY <1>1, <1>2, <1>3, <1>4, <1>5, <1>6 DEF Next

\* Both invariants hold of every state of every behaviour.
LEMMA ScopeInvariant == Spec => [](IInv /\ SInv)
  <1>1. Init => SInv
    BY InitSInv, ClientGraphAssumption
  <1>2. IInv /\ SInv /\ [Next]_vars => SInv'
    BY NextSInv, ClientGraphAssumption
  <1> QED  BY <1>1, <1>2, Invariant, PTL DEF Spec
-----------------------------------------------------------------------------
\* The scope of a client has, and listens to, exactly what can be reached
\* from its root, whatever the application moves within it, takes out of it
\* and puts back, and whatever others do.
THEOREM ScopeReached == Spec => []ScopeIsReached
  <1>1. ASSUME IInv, SInv PROVE ScopeIsReached
    <2>1. \E rank : Settled(model, rank)
      <3>1. CASE stated
        BY <1>1, <3>1 DEF SInv, Well
      <3>2. CASE ~stated
        BY <1>1, <3>2, UnstatedFacts, ClientGraphAssumption DEF SInv
      <3> QED  BY <3>1, <3>2
    <2> QED  BY <2>1, Reached DEF ScopeIsReached
  <1> QED  BY <1>1, ScopeInvariant, PTL

\* Nothing the application did is forgotten: with the change sets on their
\* way and the fragments gathered since, the server will have every object
\* of the client's scope, with the same properties and collections, and no
\* other.
THEOREM NothingForgotten == Spec => []ServerCatchesUp
  <1>1. ASSUME IInv, SInv PROVE ServerCatchesUp
    <2> DEFINE s == ComingOf(toServer, server)
    <2>1. Coming = s
      BY DEF Coming, ComingOf
    <2>2. s \in Servers
      <3>1. toServer \in Seq(ChangeSets) /\ server \in Servers /\ Compact(server)
        BY <1>1 DEF IInv, SInv, ChangeSets
      <3> QED  BY <3>1, ComingCompact
    <2> HIDE DEF s
    <2>3. stated => HasAll(Applied(s, model.fragments), model)
      <3> SUFFICES ASSUME stated PROVE HasAll(Applied(s, model.fragments), model)
        OBVIOUS
      <3>1. Well(model, s)
        BY <1>1 DEF SInv, s
      <3> QED  BY <2>2, <3>1, Caught, ClientGraphAssumption
    <2> QED  BY <2>1, <2>3 DEF ServerCatchesUp, HasAll
  <1> QED  BY <1>1, ScopeInvariant, PTL
=============================================================================
