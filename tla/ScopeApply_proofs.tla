--------------------------- MODULE ScopeApply_proofs ---------------------------
(***************************************************************************)
(* For any number of objects, names and fragments, and whatever is edited  *)
(* by hand meanwhile, all the safety properties of ScopeApply: who holds   *)
(* an object and whom the object knows as a parent agree, two objects of a *)
(* scope never share a uuid, whatever lost its last parent is an orphan    *)
(* until it has left the scope, and only what nobody holds leaves it.      *)
(*                                                                         *)
(* They need each other.  A parent is known by its uuid, so that an edit   *)
(* keeps parents in step only if no other object that can be edited has    *)
(* the same one; and what nobody holds can be told from its parents only   *)
(* as long as they are in step.  A collection that has held an object      *)
(* twice is out of step for ever, and does not put others out of it.       *)
(***************************************************************************)
EXTENDS ScopeApply, ListFacts

-----------------------------------------------------------------------------
(* What the operators on the graph do: the setter of a value property, that *)
(* of a collection, and splicing.  Each changes who knows one property of   *)
(* one object as a parent, and leaves that in step with what the property   *)
(* holds, provided that it was before and that the collection held nothing  *)
(* twice.                                                                   *)

\* An edit of property key of p leaves all other properties, and who knows
\* them as a parent.
Touched(before, after, p, key) ==
    /\ after \in Graphs
    /\ \A q \in Instances, k \in Keys, i \in Instances :
          q # p \/ k # key => (Holds(after, q, k, i) <=> Holds(before, q, k, i))
    /\ \A q \in Instances : after.items[q] = before.items[q] \/ (q = p /\ key = "items")
    /\ \A i \in Instances :
          /\ before.parents[i] \ {Relation(p, key)} \subseteq after.parents[i]
          /\ after.parents[i] \ {Relation(p, key)} \subseteq before.parents[i]

\* Whom the property holds now, knows it; who has been let go, does not.
InStep(before, after, p, key) ==
    \A i \in Instances :
          /\ Holds(after, p, key, i) => Relation(p, key) \in after.parents[i]
          /\ Relation(p, key) \in after.parents[i] =>
                \/ Holds(after, p, key, i)
                \/ (Relation(p, key) \in before.parents[i] /\ ~Holds(before, p, key, i))

\* Whom property key of p holds, knows it.
Knows(g, p, key) == \A i \in Instances : Holds(g, p, key, i) => Relation(p, key) \in g.parents[i]

LEMMA Facts ==
    /\ MaxInstances \in Nat /\ Instances = 1..MaxInstances
    /\ Null \notin Instances /\ Null \notin Uuids
  BY GraphAssumption DEF Instances

\* The components of a graph.
LEMMA GraphParts ==
    ASSUME NEW g \in Graphs
    PROVE  /\ g = [child |-> g.child, items |-> g.items, parents |-> g.parents]
           /\ g.child \in [Instances -> Instances \cup {Null}]
           /\ g.items \in [Instances -> Seq(Instances)]
           /\ g.parents \in [Instances -> SUBSET (Uuids \X Keys)]
  BY DEF Graphs

\* Children are what a property holds.
LEMMA ChildIsHeld ==
    ASSUME NEW g \in Graphs, NEW p \in Instances, NEW i \in Instances
    PROVE  i \in Children(g, p) <=> \E key \in Keys : Holds(g, p, key, i)
  BY Facts DEF Children, Holds, Keys

\* What is put in the collection of p, and a new parent for each of held.
LEMMA GraphSet ==
    ASSUME NEW g \in Graphs, NEW p \in Instances, NEW new, NEW held,
           NEW after, after = [g EXCEPT !.items[p] = new, !.parents = held]
    PROVE  after = [child |-> g.child, items |-> [g.items EXCEPT ![p] = new],
                    parents |-> held]
  <1>1. ASSUME NEW c, NEW s, NEW h, DOMAIN s = Instances,
               g = [child |-> c, items |-> s, parents |-> h]
        PROVE  after = [child |-> c, items |-> [s EXCEPT ![p] = new], parents |-> held]
    BY <1>1
  <1>2. DOMAIN g.items = Instances
    BY GraphParts
  <1>3. g = [child |-> g.child, items |-> g.items, parents |-> g.parents]
    BY GraphParts
  <1> QED  BY <1>1, <1>2, <1>3

LEMMA GraphAttached ==
    ASSUME NEW g \in Graphs, NEW S, NEW r,
           NEW after, after = [g EXCEPT !.parents = Attach(@, S, r)]
    PROVE  after = [child |-> g.child, items |-> g.items, parents |-> Attach(g.parents, S, r)]
  BY GraphParts

\* An edit of the collection of p.
LEMMA ItemsTouched ==
    ASSUME NEW g, NEW p \in Instances, NEW after \in Graphs,
           after.child = g.child,
           \A q \in Instances \ {p} : after.items[q] = g.items[q],
           \A i \in Instances :
              /\ g.parents[i] \ {Relation(p, "items")} \subseteq after.parents[i]
              /\ after.parents[i] \ {Relation(p, "items")} \subseteq g.parents[i]
    PROVE  Touched(g, after, p, "items")
  <1>1. \A q \in Instances, k \in Keys, i \in Instances :
           q # p \/ k # "items" => (Holds(after, q, k, i) <=> Holds(g, q, k, i))
    BY DEF Holds, Keys
  <1> QED  BY <1>1 DEF Touched
-----------------------------------------------------------------------------
\* What setting a value property does: what it lets go knows it.
LEMMA ChildAssigned ==
    ASSUME NEW g \in Graphs, NEW p \in Instances, NEW new \in Instances \cup {Null},
           uuid[p] \in Uuids, Knows(g, p, "child")
    PROVE  /\ Touched(g, AssignChild(g, p, new), p, "child")
           /\ InStep(g, AssignChild(g, p, new), p, "child")
           /\ AssignChild(g, p, new).child[p] = new
           /\ new = Null =>
                 \A i \in Instances : AssignChild(g, p, new).parents[i] \subseteq g.parents[i]
  <1> DEFINE r      == Relation(p, "child")
             old    == g.child[p]
             left   == IF old = Null THEN g.parents ELSE RemoveParent(g.parents, old, r)
             joined == IF new = Null THEN left ELSE AddParent(left, new, r)
             after  == AssignChild(g, p, new)
  <1>1. /\ g.child \in [Instances -> Instances \cup {Null}]
        /\ g.items \in [Instances -> Seq(Instances)]
        /\ g.parents \in [Instances -> SUBSET (Uuids \X Keys)]
        /\ old \in Instances \cup {Null}
    BY GraphParts
  <1>2. r \in Uuids \X Keys
    BY DEF Relation, Keys
  <1>0. ~ (old # Null /\ r \notin g.parents[old])
    BY <1>1 DEF Knows, Holds
  <1>3. /\ left \in [Instances -> SUBSET (Uuids \X Keys)]
        /\ \A i \in Instances : left[i] = g.parents[i] \ (IF i = old THEN {r} ELSE {})
    BY <1>1, Facts DEF RemoveParent
  <1> HIDE DEF left, r
  <1>4. /\ joined \in [Instances -> SUBSET (Uuids \X Keys)]
        /\ \A i \in Instances : joined[i] = left[i] \cup (IF i = new THEN {r} ELSE {})
    BY <1>1, <1>2, <1>3, Facts DEF AddParent
  <1>5. CASE new = old
    <2>1. after = g
      BY <1>5 DEF AssignChild
    <2> HIDE DEF after
    <2>2. Touched(g, after, p, "child") /\ InStep(g, after, p, "child")
      BY <2>1 DEF Touched, InStep, Knows
    <2> QED  BY <1>1, <1>5, <2>1, <2>2 DEF after
  <1>6. CASE new # old
    <2>1. after = [g EXCEPT !.child[p] = new, !.parents = joined]
      BY <1>0, <1>6 DEF AssignChild, left, r
    <2> HIDE DEF joined
    <2>2. after = [child |-> [g.child EXCEPT ![p] = new], items |-> g.items,
                   parents |-> joined]
      BY <1>1, <2>1, GraphParts
    <2> HIDE DEF after
    <2>3. after \in Graphs
      BY <1>1, <1>4, <2>2 DEF Graphs
    <2>4. after.items = g.items /\ after.parents = joined
          /\ after.child = [g.child EXCEPT ![p] = new]
      BY <2>2
    <2>5. \A q \in Instances, k \in Keys, i \in Instances :
             q # p \/ k # "child" => (Holds(after, q, k, i) <=> Holds(g, q, k, i))
      BY <1>1, <2>4 DEF Holds, Keys
    <2>6. \A i \in Instances : /\ Holds(after, p, "child", i) <=> i = new
                               /\ Holds(g, p, "child", i) <=> i = old
      BY <1>1, <2>4 DEF Holds
    <2>7. \A i \in Instances :
             /\ g.parents[i] \ {r} \subseteq joined[i]
             /\ joined[i] \ {r} \subseteq g.parents[i]
             /\ i = new => r \in joined[i]
             /\ r \in joined[i] => i = new \/ (r \in g.parents[i] /\ i # old)
             /\ new = Null => joined[i] \subseteq g.parents[i]
      BY <1>3, <1>4, Facts
    <2>8. Touched(g, after, p, "child") /\ InStep(g, after, p, "child")
      BY <2>3, <2>4, <2>5, <2>6, <2>7 DEF Touched, InStep, r
    <2>9. after.child[p] = new
      BY <1>1, <2>4
    <2> QED  BY <2>4, <2>7, <2>8, <2>9 DEF after
  <1> QED  BY <1>5, <1>6

\* These lose r, and nobody else loses anything.
LoseOnly(before, after, S, r) ==
    /\ after \in [Instances -> SUBSET (Uuids \X Keys)]
    /\ \A i \in Instances :
          /\ before[i] \ {r} \subseteq after[i] /\ after[i] \subseteq before[i]
          /\ r \in after[i] <=> r \in before[i] /\ i \notin S

\* Each element of a collection that holds nothing twice can be detached.
LEMMA Detached ==
    ASSUME NEW g \in Graphs, NEW old \in Seq(Instances), IsInjective(old),
           NEW cut \in SUBSET DOMAIN old, NEW r, \A k \in cut : r \in g.parents[old[k]]
    PROVE  /\ Detachable(g, old, cut, r) = cut
           /\ LoseOnly(g.parents, Detach(g, old, cut, r), {old[k] : k \in cut}, r)
  <1>1. Len(old) \in Nat /\ DOMAIN old = 1..Len(old)
    OBVIOUS
  <1>2. \A k \in cut : HasRelation(g, old, cut, r, k)
    BY <1>1 DEF HasRelation, IsInjective
  <1>3. Detachable(g, old, cut, r) = cut
    BY <1>2 DEF Detachable
  <1>4. g.parents \in [Instances -> SUBSET (Uuids \X Keys)]
    BY GraphParts
  <1> DEFINE gone == {old[k] : k \in cut}
  <1>5. Detach(g, old, cut, r) = [i \in Instances |-> g.parents[i] \ (IF i \in gone THEN {r} ELSE {})]
    BY <1>3 DEF Detach
  <1> HIDE DEF gone
  <1>6. LoseOnly(g.parents, Detach(g, old, cut, r), gone, r)
    BY <1>4, <1>5 DEF LoseOnly
  <1> QED  BY <1>3, <1>6 DEF gone

\* What setting a collection does, whatever it held.
LEMMA ItemsAssigned ==
    ASSUME NEW g \in Graphs, NEW p \in Instances, NEW new \in Seq(Instances),
           uuid[p] \in Uuids
    PROVE  /\ Touched(g, AssignItems(g, p, new), p, "items")
           /\ AssignItems(g, p, new).items[p] = new
           /\ new = <<>> =>
                 \A i \in Instances : AssignItems(g, p, new).parents[i] \subseteq g.parents[i]
           /\ Knows(g, p, "items") /\ IsInjective(g.items[p])
                 => InStep(g, AssignItems(g, p, new), p, "items")
  <1> DEFINE r     == Relation(p, "items")
             old   == g.items[p]
             cut   == Removed(old, new)
             left  == Detach(g, old, cut, r)
             whole == Detachable(g, old, cut, r) = cut
             added == Range(new) \ Range(old)
             held  == IF whole THEN Attach(left, added, r) ELSE left
             after == AssignItems(g, p, new)
  <1>1. /\ g.child \in [Instances -> Instances \cup {Null}]
        /\ g.items \in [Instances -> Seq(Instances)]
        /\ g.parents \in [Instances -> SUBSET (Uuids \X Keys)]
        /\ old \in Seq(Instances)
        /\ r \in Uuids \X Keys
    BY GraphParts DEF Relation, Keys
  <1>2. after = [g EXCEPT !.items[p] = new, !.parents = held]
    BY DEF AssignItems
  <1> HIDE DEF r
  <1>3. /\ left \in [Instances -> SUBSET (Uuids \X Keys)]
        /\ \A i \in Instances : g.parents[i] \ {r} \subseteq left[i] /\ left[i] \subseteq g.parents[i]
    <2> DEFINE gone == {old[k] : k \in Detachable(g, old, cut, r)}
    <2>1. left = [i \in Instances |-> g.parents[i] \ (IF i \in gone THEN {r} ELSE {})]
      BY DEF Detach
    <2> HIDE DEF gone, left
    <2> QED  BY <1>1, <2>1
  <1> HIDE DEF cut, left, added
  <1>4. /\ Attach(left, added, r) \in [Instances -> SUBSET (Uuids \X Keys)]
        /\ \A i \in Instances :
              Attach(left, added, r)[i] = left[i] \cup (IF i \in added THEN {r} ELSE {})
    BY <1>1, <1>3 DEF Attach
  <1>5. /\ held \in [Instances -> SUBSET (Uuids \X Keys)]
        /\ \A i \in Instances :
              /\ g.parents[i] \ {r} \subseteq held[i] /\ held[i] \ {r} \subseteq g.parents[i]
              /\ i \notin added => held[i] \subseteq g.parents[i]
    <2> HIDE DEF whole
    <2> QED  BY <1>3, <1>4
  <1> HIDE DEF held, after
  <1>6. after = [child |-> g.child, items |-> [g.items EXCEPT ![p] = new], parents |-> held]
    BY <1>2, GraphSet, ZenonT(40)
  <1>7. /\ after \in Graphs /\ after.child = g.child /\ after.parents = held
        /\ after.items[p] = new /\ \A q \in Instances \ {p} : after.items[q] = g.items[q]
    BY <1>1, <1>5, <1>6 DEF Graphs
  <1>8. Touched(g, after, p, "items")
    BY <1>5, <1>7, ItemsTouched DEF r
  <1>9. ASSUME new = <<>> PROVE \A i \in Instances : after.parents[i] \subseteq g.parents[i]
    <2>1. Range(new) = {}
      BY <1>9 DEF Range
    <2> QED  BY <1>5, <1>7, <2>1 DEF added
  <1>10. ASSUME Knows(g, p, "items"), IsInjective(old) PROVE InStep(g, after, p, "items")
    <2>1. \A i \in Instances : i \in Range(old) => r \in g.parents[i]
      BY <1>10 DEF Knows, Holds, r
    <2>2. /\ cut \in SUBSET DOMAIN old
          /\ \A k \in cut : old[k] \in Instances /\ old[k] \in Range(old)
          /\ \A i : i \in {old[k] : k \in cut} <=> i \in Range(old) /\ i \notin Range(new)
      BY <1>1 DEF Removed, Range, cut
    <2> HIDE DEF old
    <2>3. /\ Detachable(g, old, cut, r) = cut
          /\ LoseOnly(g.parents, Detach(g, old, cut, r), {old[k] : k \in cut}, r)
      <3>1. \A k \in cut : r \in g.parents[old[k]]
        BY <2>1, <2>2
      <3>2. old \in Seq(Instances) /\ cut \in SUBSET DOMAIN old
        BY <1>1, <2>2
      <3> QED  BY <1>10, <3>1, <3>2, Detached
    <2>4. \A i \in Instances : /\ left[i] \subseteq g.parents[i]
                               /\ r \in left[i] <=> /\ r \in g.parents[i]
                                                   /\ ~(i \in Range(old) /\ i \notin Range(new))
      <3>1. \A i : i \notin {old[k] : k \in cut} <=> ~(i \in Range(old) /\ i \notin Range(new))
        BY <2>2
      <3>2. left = Detach(g, old, cut, r)
        BY DEF left
      <3> QED  BY <2>3, <3>1, <3>2 DEF LoseOnly
    <2>5. held = Attach(left, added, r)
      BY <2>3 DEF held, whole
    <2>6. \A i \in Instances :
             /\ i \in Range(new) => r \in held[i]
             /\ r \in held[i] => i \in Range(new) \/ (r \in g.parents[i] /\ i \notin Range(old))
      BY <1>4, <2>1, <2>4, <2>5 DEF added
    <2> QED  BY <1>7, <2>6 DEF InStep, Holds, r, old
  <1> QED  BY <1>7, <1>8, <1>9, <1>10 DEF after, old
-----------------------------------------------------------------------------
LEMMA Joined ==
    ASSUME NEW S, NEW s \in Seq(S), NEW t \in Seq(S)
    PROVE  /\ s \o t \in Seq(S) /\ Len(s) \in Nat /\ Len(t) \in Nat
           /\ Len(s \o t) = Len(s) + Len(t)
           /\ \A x \in 1..Len(s) : (s \o t)[x] = s[x]
           /\ \A x \in (Len(s) + 1)..(Len(s) + Len(t)) : (s \o t)[x] = t[x - Len(s)]
  OBVIOUS

Splice(s, start, count, new) ==
    SubSeq(s, 1, start) \o new \o SubSeq(s, start + count + 1, Len(s))

\* Cutting count elements out of a sequence and putting others in.
LEMMA Spliced ==
    ASSUME NEW old \in Seq(Instances), NEW new \in Seq(Instances),
           NEW start \in Nat, NEW count \in Nat, start + count <= Len(old)
    PROVE  /\ Splice(old, start, count, new) \in Seq(Instances)
           /\ Len(Splice(old, start, count, new)) = Len(old) - count + Len(new)
           /\ \A x \in 1..Len(Splice(old, start, count, new)) :
                 /\ x <= start => Splice(old, start, count, new)[x] = old[x]
                 /\ x > start /\ x <= start + Len(new)
                        => Splice(old, start, count, new)[x] = new[x - start]
                 /\ x > start + Len(new)
                        => Splice(old, start, count, new)[x] = old[x - Len(new) + count]
  <1> DEFINE head == SubSeq(old, 1, start)
             rest == SubSeq(old, start + count + 1, Len(old))
  <1>1. Len(old) \in Nat /\ Len(new) \in Nat
    OBVIOUS
  <1>3. /\ head \in Seq(Instances) /\ Len(head) = start
        /\ \A k \in 1..start : head[k] = old[k]
    BY <1>1
  <1>4. /\ rest \in Seq(Instances) /\ Len(rest) = Len(old) - start - count
        /\ \A k \in 1..(Len(old) - start - count) : rest[k] = old[start + count + k]
    BY <1>1
  <1> HIDE DEF head, rest
  <1> DEFINE first  == head \o new
             result == first \o rest
  <1>6. /\ first \in Seq(Instances) /\ Len(first) = start + Len(new)
        /\ \A x \in 1..start : first[x] = old[x]
        /\ \A x \in (start + 1)..(start + Len(new)) : first[x] = new[x - start]
    <2>1. /\ first \in Seq(Instances) /\ Len(first) = start + Len(new)
          /\ \A x \in 1..start : first[x] = head[x]
          /\ \A x \in (start + 1)..(start + Len(new)) : first[x] = new[x - start]
      BY <1>3, Joined, ZenonT(40)
    <2> QED  BY <1>3, <2>1
  <1> HIDE DEF first
  <1>7. /\ result \in Seq(Instances) /\ Len(result) = Len(first) + Len(rest)
        /\ \A x \in 1..Len(first) : result[x] = first[x]
        /\ \A x \in (Len(first) + 1)..(Len(first) + Len(rest)) :
              result[x] = rest[x - Len(first)]
    <2>1. first \in Seq(Instances) /\ rest \in Seq(Instances)
      BY <1>4, <1>6
    <2> QED  BY <2>1, Joined
  <1> HIDE DEF result
  <1>8. Len(result) = Len(old) - count + Len(new)
    BY <1>1, <1>4, <1>6, <1>7
  <1>9. ASSUME NEW x \in 1..Len(result)
        PROVE  /\ x <= start => result[x] = old[x]
               /\ x > start /\ x <= start + Len(new) => result[x] = new[x - start]
               /\ x > start + Len(new) => result[x] = old[x - Len(new) + count]
    <2>1. CASE x <= start
      BY <1>1, <1>6, <1>7, <2>1
    <2>2. CASE x > start /\ x <= start + Len(new)
      BY <1>1, <1>6, <1>7, <2>2
    <2>3. CASE x > start + Len(new)
      <3> DEFINE y == x - (start + Len(new))
      <3>1. y \in 1..(Len(old) - start - count) /\ y = x - Len(first)
        BY <1>1, <1>6, <1>8, <2>3
      <3>2. x \in (Len(first) + 1)..(Len(first) + Len(rest))
        BY <1>1, <1>4, <1>6, <1>7, <2>3
      <3>3. result[x] = rest[y]
        BY <1>7, <3>1, <3>2
      <3>4. start + count + y = x - Len(new) + count
        BY <1>1
      <3>5. rest[y] = old[x - Len(new) + count]
        BY <1>4, <3>1, <3>4
      <3> QED  BY <1>1, <2>3, <3>3, <3>5
    <2> QED  BY <1>1, <2>1, <2>2, <2>3
  <1> QED  BY <1>7, <1>8, <1>9 DEF head, rest, first, result, Splice

\* What splicing a collection does, whatever it held.
LEMMA ItemsSpliced ==
    ASSUME NEW g \in Graphs, NEW p \in Instances, uuid[p] \in Uuids,
           NEW new \in Seq(Instances),
           NEW start \in Nat, NEW count \in Nat, start + count <= Len(g.items[p])
    PROVE  /\ Touched(g, SpliceItems(g, p, start, count, new), p, "items")
           /\ Range(SpliceItems(g, p, start, count, new).items[p])
                 \subseteq Range(new) \cup Range(g.items[p])
           /\ Knows(g, p, "items") /\ IsInjective(g.items[p]) /\ Range(new) \cap Range(g.items[p]) = {}
                 => InStep(g, SpliceItems(g, p, start, count, new), p, "items")
  <1> DEFINE r      == Relation(p, "items")
             old    == g.items[p]
             cut    == (start + 1)..(start + count)
             given  == Attach(g.parents, Range(new), r)
             joined == [g EXCEPT !.parents = Attach(@, Range(new), r)]
             result == Splice(old, start, count, new)
             held   == Detach(joined, old, cut, r)
             after  == SpliceItems(g, p, start, count, new)
  <1>1. /\ g.child \in [Instances -> Instances \cup {Null}]
        /\ g.items \in [Instances -> Seq(Instances)]
        /\ g.parents \in [Instances -> SUBSET (Uuids \X Keys)]
        /\ old \in Seq(Instances) /\ r \in Uuids \X Keys
    BY GraphParts DEF Relation, Keys
  <1>2. joined = [child |-> g.child, items |-> g.items, parents |-> given]
    BY GraphAttached
  <1>3. /\ given \in [Instances -> SUBSET (Uuids \X Keys)]
        /\ \A i \in Instances : given[i] = g.parents[i] \cup (IF i \in Range(new) THEN {r} ELSE {})
    BY <1>1 DEF Attach
  <1>4. after = [joined EXCEPT !.items[p] = result, !.parents = held]
    BY DEF SpliceItems, Splice
  <1>5. /\ result \in Seq(Instances)
        /\ Len(result) = Len(old) - count + Len(new)
        /\ \A x \in 1..Len(result) :
              /\ x <= start => result[x] = old[x]
              /\ x > start /\ x <= start + Len(new) => result[x] = new[x - start]
              /\ x > start + Len(new) => result[x] = old[x - Len(new) + count]
    <2>1. start + count <= Len(old)
      OBVIOUS
    <2> HIDE DEF old, result
    <2>2. /\ Splice(old, start, count, new) \in Seq(Instances)
          /\ Len(Splice(old, start, count, new)) = Len(old) - count + Len(new)
          /\ \A x \in 1..Len(Splice(old, start, count, new)) :
                /\ x <= start => Splice(old, start, count, new)[x] = old[x]
                /\ x > start /\ x <= start + Len(new)
                       => Splice(old, start, count, new)[x] = new[x - start]
                /\ x > start + Len(new)
                       => Splice(old, start, count, new)[x] = old[x - Len(new) + count]
      BY <1>1, <2>1, Spliced
    <2>3. result = Splice(old, start, count, new)
      BY DEF result
    <2> QED  BY <2>2, <2>3
  <1> HIDE DEF given, result, r
  <1>6. joined \in Graphs /\ joined.parents = given
    BY <1>1, <1>2, <1>3 DEF Graphs
  <1> HIDE DEF joined, old
  <1>10. Len(old) \in Nat /\ Len(new) \in Nat /\ start + count <= Len(old)
    BY <1>1 DEF old
  <1>8. /\ held \in [Instances -> SUBSET (Uuids \X Keys)]
        /\ \A i \in Instances : given[i] \ {r} \subseteq held[i] /\ held[i] \subseteq given[i]
    <2> DEFINE gone == {old[k] : k \in Detachable(joined, old, cut, r)}
    <2>1. held = [i \in Instances |-> given[i] \ (IF i \in gone THEN {r} ELSE {})]
      BY <1>6 DEF Detach
    <2> HIDE DEF gone, held
    <2> QED  BY <1>3, <2>1
  <1> HIDE DEF held, after
  <1>9. after = [child |-> g.child, items |-> [g.items EXCEPT ![p] = result], parents |-> held]
    <2>1. after = [child |-> joined.child, items |-> [joined.items EXCEPT ![p] = result],
                   parents |-> held]
      BY <1>4, <1>6, GraphSet, ZenonT(40)
    <2> QED  BY <1>2, <2>1
  \* Where an element of the result comes from.
  <1>11. ASSUME NEW x \in 1..Len(result)
         PROVE  \/ x <= start /\ x \in 1..Len(old) /\ result[x] = old[x]
                \/ /\ x > start /\ x <= start + Len(new)
                   /\ x - start \in 1..Len(new) /\ result[x] = new[x - start]
                \/ /\ x > start + Len(new)
                   /\ x - Len(new) + count \in 1..Len(old)
                   /\ x - Len(new) + count > start + count
                   /\ result[x] = old[x - Len(new) + count]
    <2>1. CASE x <= start
      BY <1>5, <1>10, <2>1
    <2>2. CASE x > start /\ x <= start + Len(new)
      BY <1>5, <1>10, <2>2
    <2>3. CASE x > start + Len(new)
      BY <1>5, <1>10, <2>3
    <2> QED  BY <1>10, <2>1, <2>2, <2>3
  <1>7. /\ DOMAIN old = 1..Len(old) /\ DOMAIN new = 1..Len(new)
        /\ DOMAIN result = 1..Len(result) /\ Len(result) \in Nat
    BY <1>1, <1>5
  <1>12. Range(result) \subseteq Range(new) \cup Range(old)
    <2> SUFFICES ASSUME NEW x \in 1..Len(result) PROVE result[x] \in Range(new) \cup Range(old)
      BY <1>7 DEF Range
    <2> HIDE DEF cut
    <2> QED  BY <1>7, <1>11 DEF Range
  <1>13. /\ after \in Graphs /\ after.child = g.child /\ after.parents = held
         /\ after.items[p] = result /\ \A q \in Instances \ {p} : after.items[q] = g.items[q]
    BY <1>1, <1>5, <1>8, <1>9 DEF Graphs
  <1>14. Touched(g, after, p, "items")
    <2>1. \A i \in Instances :
             /\ g.parents[i] \ {Relation(p, "items")} \subseteq after.parents[i]
             /\ after.parents[i] \ {Relation(p, "items")} \subseteq g.parents[i]
      BY <1>3, <1>8, <1>13 DEF r
    <2> QED  BY <1>13, <2>1, ItemsTouched
  <1>15. ASSUME Knows(g, p, "items"), IsInjective(old), Range(new) \cap Range(old) = {}
         PROVE  InStep(g, after, p, "items")
    <2>1. \A i \in Instances : i \in Range(old) => r \in g.parents[i]
      BY <1>15 DEF Knows, Holds, r, old
    <2>2. \A x, y \in 1..Len(old) : old[x] = old[y] => x = y
      <3> HIDE DEF cut
      <3> QED  BY <1>7, <1>15 DEF IsInjective
    <2>3. \A i \in Instances : r \in held[i] <=> r \in given[i] /\ i \notin {old[k] : k \in cut}
      <3>1. cut \in SUBSET DOMAIN old
        BY <1>1, <1>10
      <3>2. \A k \in cut : old[k] \in Instances /\ old[k] \in Range(old)
        BY <1>1, <3>1 DEF Range
      <3>3. \A k \in cut : r \in joined.parents[old[k]]
        BY <1>3, <1>6, <2>1, <3>2
      <3>4. old \in Seq(Instances) /\ joined \in Graphs
        BY <1>1, <1>6
      <3> HIDE DEF cut
      <3>5. LoseOnly(joined.parents, Detach(joined, old, cut, r), {old[k] : k \in cut}, r)
        BY <1>15, <3>1, <3>3, <3>4, Detached
      <3>6. held = Detach(joined, old, cut, r)
        BY DEF held
      <3> QED  BY <1>6, <3>5, <3>6 DEF LoseOnly
    \* Where an element of old and new has gone.
    <2>4. ASSUME NEW x \in 1..Len(result)
          PROVE  \/ result[x] \in Range(new)
                 \/ (result[x] \in Range(old) /\ result[x] \notin {old[k] : k \in cut})
      <3>1. \/ x <= start /\ x \in 1..Len(old) /\ result[x] = old[x]
            \/ x - start \in 1..Len(new) /\ result[x] = new[x - start]
            \/ /\ x - Len(new) + count \in 1..Len(old)
               /\ x - Len(new) + count > start + count
               /\ result[x] = old[x - Len(new) + count]
        BY <1>11
      <3>2. \A k \in cut : k \in 1..Len(old) /\ k > start /\ k <= start + count
        BY <1>10
      <3> HIDE DEF cut
      <3>3. CASE x <= start /\ x \in 1..Len(old) /\ result[x] = old[x]
        BY <1>7, <1>10, <2>2, <3>2, <3>3 DEF Range
      <3>4. CASE x - start \in 1..Len(new) /\ result[x] = new[x - start]
        BY <1>7, <3>4 DEF Range
      <3>5. CASE /\ x - Len(new) + count \in 1..Len(old)
                 /\ x - Len(new) + count > start + count
                 /\ result[x] = old[x - Len(new) + count]
        BY <1>7, <1>10, <2>2, <3>2, <3>5 DEF Range
      <3> QED  BY <3>1, <3>3, <3>4, <3>5
    <2>5. ASSUME NEW k \in 1..Len(old), k \notin cut PROVE old[k] \in Range(result)
      <3>1. CASE k <= start
        <4>1. k \in 1..Len(result) /\ result[k] = old[k]
          BY <1>5, <1>10, <3>1
        <4> QED  BY <1>7, <4>1 DEF Range
      <3>2. CASE k > start + count
        <4>1. /\ k - count + Len(new) \in 1..Len(result)
              /\ k - count + Len(new) > start + Len(new)
              /\ (k - count + Len(new)) - Len(new) + count = k
          BY <1>5, <1>10, <3>2
        <4>2. result[k - count + Len(new)] = old[k]
          BY <1>5, <4>1
        <4> QED  BY <1>7, <4>1, <4>2 DEF Range
      <3> QED  BY <1>10, <2>5, <3>1, <3>2
    <2>6. ASSUME NEW k \in 1..Len(new) PROVE new[k] \in Range(result)
      <3>1. /\ start + k \in 1..Len(result) /\ start + k > start
            /\ start + k <= start + Len(new) /\ (start + k) - start = k
        BY <1>5, <1>10
      <3>2. result[start + k] = new[k]
        BY <1>5, <3>1
      <3> QED  BY <1>7, <3>1, <3>2 DEF Range
    <2>7. cut \subseteq DOMAIN old
      BY <1>7, <1>10
    <2> HIDE DEF cut
    <2>8. \A i : i \in Range(result) <=> \/ i \in Range(new)
                                       \/ (i \in Range(old) /\ i \notin {old[k] : k \in cut})
      BY <1>7, <2>4, <2>5, <2>6 DEF Range
    <2>9. \A i : i \in {old[k] : k \in cut} => i \in Range(old)
      BY <2>7 DEF Range
    <2>10. \A i \in Instances :
             /\ i \in Range(result) => r \in held[i]
             /\ r \in held[i] => i \in Range(result) \/ (r \in g.parents[i] /\ i \notin Range(old))
      <3> DEFINE gone == {old[k] : k \in cut}
      <3>1. \A i \in Instances : given[i] = g.parents[i] \cup (IF i \in Range(new) THEN {r} ELSE {})
        BY <1>3
      <3>2. /\ \A i \in Instances : r \in held[i] <=> r \in given[i] /\ i \notin gone
            /\ \A i : i \in Range(result) <=> i \in Range(new) \/ (i \in Range(old) /\ i \notin gone)
            /\ \A i : i \in gone => i \in Range(old)
        BY <2>3, <2>8, <2>9
      <3> HIDE DEF gone
      <3>3. \A i : ~ (i \in Range(new) /\ i \in Range(old))
        BY <1>15
      <3> QED  BY <2>1, <3>1, <3>2, <3>3
    <2> QED  BY <1>13, <2>10 DEF InStep, Holds, r, old
  <1> QED  BY <1>12, <1>13, <1>14, <1>15 DEF after, old
-----------------------------------------------------------------------------
\* What is reached from an object is held by one within, or it; what is held
\* by what is reached is reached.
LEMMA TreeIsHeld ==
    ASSUME NEW g \in Graphs, NEW p \in Instances, NEW within \in SUBSET Instances
    PROVE  /\ p \in TreeOf(g, p, within)
           /\ TreeOf(g, p, within) \subseteq {p} \cup within
           /\ \A i \in TreeOf(g, p, within) \ {p} :
                 \E q \in {p} \cup within : i \in Children(g, q)
           /\ \A k \in TreeOf(g, p, within) :
                 Children(g, k) \cap within \subseteq TreeOf(g, p, within)
  <1> DEFINE S == {p} \cup {i \in within : \E q \in {p} \cup within : i \in Children(g, q)}
  <1>1. S \in SUBSET Instances /\ p \in S
    OBVIOUS
  <1>2. \A k \in S : Children(g, k) \cap within \subseteq S
    OBVIOUS
  <1>3. TreeOf(g, p, within) \subseteq S
    <2> HIDE DEF S
    <2> QED  BY <1>1, <1>2 DEF TreeOf
  <1>4. p \in TreeOf(g, p, within)
    BY DEF TreeOf
  <1>5. \A k \in TreeOf(g, p, within) : Children(g, k) \cap within \subseteq TreeOf(g, p, within)
    BY DEF TreeOf
  <1> QED  BY <1>3, <1>4, <1>5
-----------------------------------------------------------------------------
(* The invariants of ScopeApply. *)

Distinct(S) == \A i, j \in S : uuid[i] = uuid[j] => i = j

\* What holds and who is known as a parent agree, for those of S, but for
\* the collections of D.
GraphSound(g, S, D) ==
    /\ g \in Graphs
    /\ \A p \in Instances : Children(g, p) \subseteq Created
    /\ \A p \in Instances \ Created : Children(g, p) = {}
    /\ \A p \in Instances \ D : IsInjective(g.items[p])
    /\ \A p \in S, key \in Keys : (key = "items" => p \notin D) => Knows(g, p, key)
    /\ \A i \in Instances : \A r \in g.parents[i] :
          \E p \in Created : /\ uuid[p] = r[1]
                             /\ Holds(g, p, r[2], i) \/ (r[2] = "items" /\ p \in D)

\* What is in the scope, or about to be, was created; the scope listens.
KnownInv ==
    /\ Known \subseteq Created
    /\ root \in Created \cup {Null} /\ root \notin temporals
    /\ orphaned \subseteq scoped /\ round \subseteq scoped
    /\ stage = "building" => Known = {} /\ Distinct(Created)
    /\ stage # "orphan" => round = {}
    /\ stage \notin {"create", "add", "change"} => temporals = {}

\* What has lost its parents is an orphan; what is an orphan, or was when
\* the round began, has none.
OrphanInv ==
    /\ \A i \in scoped \ (strays \cup {root}) : graph.parents[i] = {} => i \in orphaned
    /\ \A i \in orphaned \cup round : graph.parents[i] = {}

IInv ==
    /\ TypeOK /\ KnownInv /\ OrphanInv
    /\ Distinct(Known) /\ GraphSound(graph, Owners, doubled)
-----------------------------------------------------------------------------
\* Graphs.

\* The next object is one that was not created.
LEMMA NextFreshIsFresh == Fresh # {} => NextFresh \in Instances \ Created
  <1>1. Fresh \in SUBSET Nat
    BY Facts DEF Fresh
  <1>2. Fresh # {} => NextFresh \in Fresh
    BY <1>1, Least DEF NextFresh
  <1> QED  BY <1>2 DEF Fresh

\* No two objects that go by their uuid have the same one.
LEMMA OwnersDistinct ==
    ASSUME Known \subseteq Created, Distinct(Known)
    PROVE  Owners \subseteq Created /\ Known \subseteq Owners /\ Distinct(Owners)
  BY DEF Owners, Distinct

\* What the application builds goes by its uuid.
LEMMA AllOwn ==
    ASSUME Distinct(Created), Known \subseteq Created
    PROVE  Owners = Created
  BY DEF Owners, Distinct

\* To expect less of the collections is to expect less.
LEMMA SoundStill ==
    ASSUME NEW g, NEW S, NEW D, NEW E, GraphSound(g, S, D), D \subseteq E
    PROVE  GraphSound(g, S, E)
  <1>1. \A i \in Instances : \A r \in g.parents[i] :
           \E p \in Created : /\ uuid[p] = r[1]
                              /\ Holds(g, p, r[2], i) \/ (r[2] = "items" /\ p \in E)
    BY DEF GraphSound
  <1> QED  BY <1>1 DEF GraphSound

\* An edit keeps the graph sound: no other object has the edited one's name.
\* E has the collections that hold an object twice since.
LEMMA EditedSound ==
    ASSUME NEW S \in SUBSET Created, Distinct(S), NEW g, NEW D, GraphSound(g, S, D),
           NEW p \in S, NEW key \in Keys, NEW h, Touched(g, h, p, key),
           NEW E, D \subseteq E, \A q \in Instances \ E : IsInjective(h.items[q]),
           (key = "items" /\ p \in E) \/ InStep(g, h, p, key),
           \A i \in Instances : Holds(h, p, key, i) => i \in Created
    PROVE  GraphSound(h, S, E)
  <1>1. g \in Graphs /\ h \in Graphs /\ Created \subseteq Instances /\ p \in Created
    BY DEF GraphSound, Touched, Created
  <1>2. \A q \in Instances : Children(g, q) \subseteq Instances /\ Children(h, q) \subseteq Instances
    BY <1>1, GraphParts DEF Children, Range
  <1>3. ASSUME NEW q \in Instances, NEW i \in Children(h, q)
        PROVE  i \in Children(g, q) \/ (q = p /\ i \in Created)
    <2>1. i \in Instances
      BY <1>2
    <2>2. PICK k \in Keys : Holds(h, q, k, i)
      BY <1>1, <2>1, ChildIsHeld
    <2>3. CASE q = p /\ k = key
      BY <2>1, <2>2, <2>3
    <2>4. CASE q # p \/ k # key
      BY <1>1, <2>1, <2>2, <2>4, ChildIsHeld DEF Touched
    <2> QED  BY <2>3, <2>4
  <1>4. /\ \A q \in Instances : Children(h, q) \subseteq Created
        /\ \A q \in Instances \ Created : Children(h, q) = {}
    BY <1>1, <1>3 DEF GraphSound
  <1>5. ASSUME NEW q \in S, NEW k \in Keys, k = "items" => q \notin E
        PROVE  Knows(h, q, k)
    <2>1. CASE q = p /\ k = key
      BY <1>5, <2>1 DEF InStep, Knows
    <2>2. CASE q # p \/ k # key
      <3> SUFFICES ASSUME NEW i \in Instances, Holds(h, q, k, i)
                   PROVE  Relation(q, k) \in h.parents[i]
        BY DEF Knows
      <3>1. Holds(g, q, k, i)
        BY <1>1, <2>2 DEF Touched
      <3>2. Relation(q, k) \in g.parents[i]
        BY <1>5, <3>1 DEF GraphSound, Knows
      <3>3. Relation(q, k) # Relation(p, key)
        BY <2>2 DEF Relation, Distinct
      <3> QED  BY <3>2, <3>3 DEF Touched
    <2> QED  BY <2>1, <2>2
  <1>6. ASSUME NEW i \in Instances, NEW r \in h.parents[i]
        PROVE  \E q \in Created : /\ uuid[q] = r[1]
                                  /\ Holds(h, q, r[2], i) \/ (r[2] = "items" /\ q \in E)
    <2>1. r \in Uuids \X Keys
      BY <1>1, GraphParts
    <2>2. CASE r = Relation(p, key) /\ (Holds(h, p, key, i) \/ (key = "items" /\ p \in E))
      <3>1. r[1] = uuid[p] /\ r[2] = key
        BY <2>2 DEF Relation
      <3> QED  BY <1>1, <2>2, <3>1
    <2>3. CASE r \in g.parents[i] /\ (r = Relation(p, key) => ~Holds(g, p, key, i))
      <3>1. PICK q \in Created : /\ uuid[q] = r[1]
                                 /\ Holds(g, q, r[2], i) \/ (r[2] = "items" /\ q \in D)
        BY <2>3 DEF GraphSound
      <3>2. CASE Holds(g, q, r[2], i)
        <4>1. q # p \/ r[2] # key
          BY <2>1, <2>3, <3>1, <3>2 DEF Relation
        <4>2. Holds(h, q, r[2], i)
          BY <1>1, <2>1, <3>1, <3>2, <4>1 DEF Touched
        <4> QED  BY <3>1, <4>2
      <3> QED  BY <3>1, <3>2
    <2>4. r = Relation(p, key) \/ r \in g.parents[i]
      BY DEF Touched
    <2> QED  BY <2>2, <2>3, <2>4 DEF InStep
  <1> QED  BY <1>1, <1>4, <1>5, <1>6 DEF GraphSound

\* The new graph of a step that creates no object.
LEMMA Carried ==
    ASSUME NEW S, GraphSound(graph', S, doubled'), UNCHANGED uuid, Owners' \subseteq S
    PROVE  GraphSound(graph, Owners, doubled)'
  <1>1. Created' = Created /\ \A p, key : Relation(p, key)' = Relation(p, key)
    BY DEF Created, Relation
  <1> QED  BY <1>1 DEF GraphSound, Knows

\* A new object holds nothing, and nothing holds it.
LEMMA Born ==
    ASSUME TypeOK, NEW S \in SUBSET Created, GraphSound(graph, S, doubled),
           NEW n \in Instances \ Created, NEW u \in Uuids,
           uuid' = [uuid EXCEPT ![n] = u], graph' = graph, doubled' = doubled,
           Owners' \subseteq S \cup {n}
    PROVE  GraphSound(graph, Owners, doubled)'
  <1>1. /\ Created' = Created \cup {n}
        /\ \A i \in Created : uuid'[i] = uuid[i]
        /\ Created \subseteq Instances
    BY Facts DEF Created, TypeOK
  <1>2. graph \in Graphs /\ Children(graph, n) = {}
    BY DEF GraphSound
  <1>3. \A key \in Keys, i \in Instances : ~Holds(graph, n, key, i)
    BY <1>2, ChildIsHeld
  <1>4. ASSUME NEW p \in Owners', NEW key \in Keys, key = "items" => p \notin doubled,
               NEW i \in Instances, Holds(graph, p, key, i)
        PROVE  Relation(p, key)' \in graph.parents[i]
    <2>1. p \in S /\ p \in Created
      BY <1>3, <1>4
    <2>2. Relation(p, key)' = Relation(p, key)
      BY <1>1, <2>1 DEF Relation
    <2> QED  BY <1>4, <2>1, <2>2 DEF GraphSound, Knows
  <1>5. ASSUME NEW i \in Instances, NEW r \in graph.parents[i]
        PROVE  \E p \in Created' : /\ uuid'[p] = r[1]
                                   /\ Holds(graph, p, r[2], i) \/ (r[2] = "items" /\ p \in doubled)
    BY <1>1 DEF GraphSound
  <1>6. \A p \in Owners', key \in Keys : (key = "items" => p \notin doubled) => Knows(graph, p, key)'
    BY <1>4 DEF Knows, Holds
  <1>7. /\ \A p \in Instances : Children(graph, p) \subseteq Created'
        /\ \A p \in Instances \ Created' : Children(graph, p) = {}
    BY <1>1 DEF GraphSound
  <1>8. \A p \in Instances \ doubled : IsInjective(graph.items[p])
    BY DEF GraphSound
  <1> QED  BY <1>2, <1>5, <1>6, <1>7, <1>8 DEF GraphSound, Holds, Children

\* Who goes by its uuid after an object was created.
LEMMA OwnersBorn ==
    ASSUME TypeOK, NEW n \in Instances \ Created, NEW u \in Uuids,
           uuid' = [uuid EXCEPT ![n] = u], Known' \subseteq Known \cup {n}
    PROVE  /\ Created' = Created \cup {n}
           /\ \A i \in Created : uuid'[i] = uuid[i]
           /\ uuid'[n] = u
           /\ Owners' \subseteq Owners \cup {n}
  <1>1. /\ Created' = Created \cup {n} /\ uuid'[n] = u
        /\ \A i \in Created : uuid'[i] = uuid[i]
    BY Facts DEF Created, TypeOK
  <1>2. Owners' \subseteq Owners \cup {n}
    BY <1>1 DEF Owners
  <1> QED  BY <1>1, <1>2

\* Who goes by its uuid when no object was created.
LEMMA OwnersKept ==
    ASSUME UNCHANGED uuid, Known' \subseteq Known
    PROVE  Created' = Created /\ Owners' \subseteq Owners
  BY DEF Created, Owners
-----------------------------------------------------------------------------
\* Edits.

\* The setter of a value property.
LEMMA ChildSet ==
    ASSUME TypeOK, NEW S \in SUBSET Created, Distinct(S), NEW g, NEW D, GraphSound(g, S, D),
           NEW p \in S, NEW new \in Created \cup {Null}
    PROVE  /\ GraphSound(AssignChild(g, p, new), S, D)
           /\ new = Null =>
                 \A i \in Instances : AssignChild(g, p, new).parents[i] \subseteq g.parents[i]
  <1> DEFINE h == AssignChild(g, p, new)
  <1>1. /\ p \in Instances /\ uuid[p] \in Uuids /\ g \in Graphs
        /\ new \in Instances \cup {Null} /\ Created \subseteq Instances
    BY DEF Created, TypeOK, GraphSound
  <1>2. Knows(g, p, "child") /\ "child" \in Keys
    BY DEF GraphSound, Keys
  <1>3. /\ Touched(g, h, p, "child") /\ InStep(g, h, p, "child") /\ h.child[p] = new
        /\ new = Null => \A i \in Instances : h.parents[i] \subseteq g.parents[i]
    BY <1>1, <1>2, ChildAssigned
  <1> HIDE DEF h
  <1>4. \A i \in Instances : Holds(h, p, "child", i) => i \in Created
    BY <1>3, Facts DEF Holds
  <1>5. \A q \in Instances \ D : IsInjective(h.items[q])
    BY <1>3 DEF Touched, GraphSound
  <1>6. GraphSound(h, S, D)
    BY <1>2, <1>3, <1>4, <1>5, EditedSound
  <1> QED  BY <1>3, <1>6 DEF h

\* The setter of a collection.
LEMMA ItemsSet ==
    ASSUME TypeOK, NEW S \in SUBSET Created, Distinct(S), NEW g, NEW D, GraphSound(g, S, D),
           NEW p \in S, NEW new \in Seq(Created), NEW E, D \subseteq E,
           \A q \in Instances \ E : IsInjective(AssignItems(g, p, new).items[q])
    PROVE  /\ GraphSound(AssignItems(g, p, new), S, E)
           /\ new = <<>> =>
                 \A i \in Instances : AssignItems(g, p, new).parents[i] \subseteq g.parents[i]
  <1> DEFINE h == AssignItems(g, p, new)
  <1>1. /\ p \in Instances /\ uuid[p] \in Uuids /\ g \in Graphs
        /\ Created \subseteq Instances /\ "items" \in Keys
    BY DEF Created, TypeOK, GraphSound, Keys
  <1>2. new \in Seq(Instances) /\ Range(new) \subseteq Created
    BY <1>1 DEF Range
  <1>3. /\ Touched(g, h, p, "items") /\ h.items[p] = new
        /\ new = <<>> => \A i \in Instances : h.parents[i] \subseteq g.parents[i]
        /\ Knows(g, p, "items") /\ IsInjective(g.items[p]) => InStep(g, h, p, "items")
    BY <1>1, <1>2, ItemsAssigned
  <1>4. \A q \in Instances \ E : IsInjective(h.items[q])
    OBVIOUS
  <1> HIDE DEF h
  <1>5. \A i \in Instances : Holds(h, p, "items", i) => i \in Created
    BY <1>2, <1>3 DEF Holds
  <1>6. p \in E \/ InStep(g, h, p, "items")
    BY <1>1, <1>3 DEF GraphSound
  <1>7. GraphSound(h, S, E)
    BY <1>1, <1>3, <1>4, <1>5, <1>6, EditedSound
  <1> QED  BY <1>3, <1>7 DEF h

\* An array operation, which may give the collection what it holds already.
LEMMA ItemsSplicedSound ==
    ASSUME TypeOK, NEW S \in SUBSET Created, Distinct(S), NEW g, NEW D, GraphSound(g, S, D),
           NEW p \in S, NEW start \in Nat, NEW count \in Nat,
           start + count <= Len(g.items[p]), NEW new \in Seq(Created), NEW E, D \subseteq E,
           Range(new) \cap Range(g.items[p]) = {} \/ p \in E,
           \A q \in Instances \ E : IsInjective(SpliceItems(g, p, start, count, new).items[q])
    PROVE  GraphSound(SpliceItems(g, p, start, count, new), S, E)
  <1> DEFINE h == SpliceItems(g, p, start, count, new)
  <1>1. /\ p \in Instances /\ uuid[p] \in Uuids /\ g \in Graphs
        /\ Created \subseteq Instances /\ "items" \in Keys
    BY DEF Created, TypeOK, GraphSound, Keys
  <1>2. new \in Seq(Instances) /\ Range(new) \subseteq Created
    BY <1>1 DEF Range
  <1>3. /\ Touched(g, h, p, "items")
        /\ Range(h.items[p]) \subseteq Range(new) \cup Range(g.items[p])
        /\ Knows(g, p, "items") /\ IsInjective(g.items[p]) /\ Range(new) \cap Range(g.items[p]) = {}
              => InStep(g, h, p, "items")
    BY <1>1, <1>2, ItemsSpliced
  <1>4. \A q \in Instances \ E : IsInjective(h.items[q])
    OBVIOUS
  <1> HIDE DEF h
  <1>5. Range(g.items[p]) \subseteq Created
    BY <1>1 DEF GraphSound, Children
  <1>6. \A i \in Instances : Holds(h, p, "items", i) => i \in Created
    BY <1>2, <1>3, <1>5 DEF Holds
  <1>7. p \in E \/ InStep(g, h, p, "items")
    BY <1>1, <1>3 DEF GraphSound
  <1>8. GraphSound(h, S, E)
    BY <1>1, <1>3, <1>4, <1>6, <1>7, EditedSound
  <1> QED  BY <1>8 DEF h
-----------------------------------------------------------------------------
\* By hand.

LEMMA InitIInv == Init => IInv
  <1> SUFFICES ASSUME Init PROVE IInv
    OBVIOUS
  <1>1. /\ Created = {} /\ Known = {} /\ Owners = {} /\ stage = "building"
        /\ scoped = {} /\ temporals = {} /\ orphaned = {} /\ round = {} /\ root = Null
    BY DEF Init, GraphInit, Created, Known, Owners
  <1>2. graph = [child   |-> [i \in Instances |-> Null],
                 items   |-> [i \in Instances |-> <<>>],
                 parents |-> [i \in Instances |-> {}]]
    BY DEF Init, GraphInit
  <1>3. graph \in Graphs
    BY <1>2 DEF Graphs
  <1>4. TypeOK
    BY <1>1, <1>3 DEF Init, GraphInit, TypeOK, Stages
  <1>5. \A p \in Instances : Children(graph, p) = {}
    BY <1>2 DEF Children, Range
  <1>6. \A i \in Instances : graph.parents[i] = {} /\ IsInjective(graph.items[i])
    BY <1>2 DEF IsInjective
  <1>7. GraphSound(graph, Owners, doubled)
    BY <1>1, <1>3, <1>5, <1>6 DEF GraphSound
  <1>8. KnownInv /\ OrphanInv /\ Distinct(Known)
    BY <1>1 DEF KnownInv, OrphanInv, Distinct
  <1> QED  BY <1>4, <1>7, <1>8 DEF IInv

\* What takes objects away, or only moves from stage to stage.
LEMMA LessStep ==
    ASSUME IInv, UNCHANGED <<uuid, graph, doubled>>, Known' \subseteq Known,
           TypeOK', KnownInv', OrphanInv'
    PROVE  IInv'
  <1>1. Distinct(Known) /\ GraphSound(graph, Owners, doubled)
    BY DEF IInv
  <1>2. (Distinct(Known))'
    BY <1>1 DEF Distinct
  <1>3. GraphSound(graph', Owners, doubled')
    BY <1>1
  <1>4. Owners' \subseteq Owners
    BY OwnersKept
  <1>5. GraphSound(graph, Owners, doubled)'
    BY <1>3, <1>4, Carried
  <1> QED  BY <1>2, <1>5 DEF IInv

LEMMA NewObjectStep ==
    ASSUME IInv, NEW u \in Uuids, NewObject(u)
    PROVE  IInv'
  <1> DEFINE n == NextFresh
  <1>1. n \in Instances \ Created
    BY NextFreshIsFresh DEF NewObject
  <1>2. /\ uuid' = [uuid EXCEPT ![n] = u] /\ \A i \in Created : uuid[i] # u
        /\ UNCHANGED <<graph, scoped, orphaned, root, stage, toAdd, temporals, round,
                       edits, changes, doubled, strays>>
    BY DEF NewObject, applyVars, history
  <1> HIDE DEF n
  <1>3. /\ TypeOK /\ KnownInv /\ OrphanInv
        /\ Distinct(Known) /\ GraphSound(graph, Owners, doubled)
    BY DEF IInv
  <1>4. Known' = Known /\ Known \subseteq Created /\ Owners \in SUBSET Created
    BY <1>2, <1>3 DEF Known, KnownInv, Owners
  <1>5. /\ Created' = Created \cup {n}
        /\ \A i \in Created : uuid'[i] = uuid[i]
        /\ uuid'[n] = u
        /\ Owners' \subseteq Owners \cup {n}
    BY <1>1, <1>2, <1>3, <1>4, OwnersBorn
  <1>6. GraphSound(graph, Owners, doubled)'
    BY <1>1, <1>2, <1>3, <1>4, <1>5, Born
  <1>7. TypeOK'
    BY <1>1, <1>2, <1>3 DEF TypeOK
  <1>8. (Distinct(Known))'
    BY <1>3, <1>4, <1>5 DEF Distinct
  <1>9. stage' = "building" => Known' = {} /\ (Distinct(Created))'
    BY <1>2, <1>3, <1>4, <1>5 DEF KnownInv, Distinct
  <1>10. KnownInv'
    BY <1>2, <1>3, <1>4, <1>5, <1>9 DEF KnownInv
  <1>11. OrphanInv'
    BY <1>2, <1>3 DEF OrphanInv
  <1> QED  BY <1>6, <1>7, <1>8, <1>10, <1>11 DEF IInv

\* An edit of one that goes by its uuid.
LEMMA EditStep ==
    ASSUME IInv, NEW p \in Owners, NEW after, NEW again, Edit(p, after, again),
           GraphSound(after, Owners, doubled')
    PROVE  IInv'
  <1>1. /\ round = {} /\ edits' = edits + 1 /\ graph' = after
        /\ orphaned' = OrphansAfter(after) \cup {i \in scoped \cap again : after.parents[i] = {}}
        /\ doubled' = DoubledAfter(after) \cup (IF again = {} THEN {} ELSE {p})
        /\ UNCHANGED <<uuid, scoped, root, stage, toAdd, temporals, round, changes, strays>>
    BY DEF Edit
  <1>2. /\ TypeOK /\ KnownInv /\ OrphanInv
        /\ Distinct(Known) /\ GraphSound(graph, Owners, doubled)
    BY DEF IInv
  <1>3. Known' = Known /\ Created' = Created
    BY <1>1 DEF Known, Created
  <1>4. /\ orphaned' \subseteq scoped
        /\ \A i \in orphaned' : after.parents[i] = {}
        /\ \A i \in scoped : after.parents[i] = {} /\ (i \in orphaned \/ graph.parents[i] # {})
              => i \in orphaned'
    BY <1>1 DEF OrphansAfter
  <1>5. p \in Instances /\ after \in Graphs
    BY <1>2 DEF KnownInv, Owners, Created, GraphSound
  <1>6. TypeOK'
    BY <1>1, <1>2, <1>4, <1>5 DEF TypeOK, DoubledAfter
  <1>7. KnownInv'
    <2>1. stage' = "building" => Known' = {} /\ (Distinct(Created))'
      BY <1>1, <1>2, <1>3 DEF KnownInv, Distinct
    <2> QED  BY <1>1, <1>2, <1>3, <1>4, <2>1 DEF KnownInv
  <1>8. OrphanInv'
    BY <1>1, <1>2, <1>4 DEF OrphanInv
  <1>9. (Distinct(Known))'
    BY <1>1, <1>2, <1>3 DEF Distinct
  <1>10. GraphSound(graph, Owners, doubled)'
    <2>1. GraphSound(graph', Owners, doubled')
      BY <1>1
    <2>2. Owners' \subseteq Owners
      BY <1>1, <1>3, OwnersKept
    <2> QED  BY <1>1, <2>1, <2>2, Carried
  <1> QED  BY <1>6, <1>7, <1>8, <1>9, <1>10 DEF IInv

\* Whose collection is not in E, holds nothing twice.
LEMMA AfterEdit ==
    ASSUME NEW p, NEW after, NEW again, Edit(p, after, again)
    PROVE  /\ doubled \subseteq doubled'
           /\ again # {} => p \in doubled'
           /\ \A q \in Instances \ doubled' : IsInjective(after.items[q])
  BY DEF Edit, DoubledAfter

\* Any that was created may be put in, those the collection holds too.
LEMMA SpliceStep ==
    ASSUME IInv, NEW p \in Owners, NEW start \in Nat, NEW count \in Nat,
           start + count <= Len(graph.items[p]),
           NEW new \in Seq(Created), NEW again,
           again = Range(new) \cap Range(graph.items[p]),
           Edit(p, SpliceItems(graph, p, start, count, new), again)
    PROVE  IInv'
  <1> DEFINE after == SpliceItems(graph, p, start, count, new)
  <1>1. TypeOK /\ GraphSound(graph, Owners, doubled) /\ Owners \in SUBSET Created /\ Distinct(Owners)
    BY OwnersDistinct DEF IInv, KnownInv, Owners
  <1>2. /\ doubled \subseteq doubled'
        /\ again # {} => p \in doubled'
        /\ \A q \in Instances \ doubled' : IsInjective(after.items[q])
    BY AfterEdit
  <1>3. Range(new) \cap Range(graph.items[p]) = {} \/ p \in doubled'
    BY <1>2
  <1>4. \A q \in Instances \ doubled' :
           IsInjective(SpliceItems(graph, p, start, count, new).items[q])
    BY <1>2
  <1> HIDE DEF after
  <1>5. GraphSound(SpliceItems(graph, p, start, count, new), Owners, doubled')
    BY <1>1, <1>2, <1>3, <1>4, ItemsSplicedSound
  <1> QED  BY <1>5, EditStep

LEMMA EditByHandStep ==
    ASSUME IInv, NEW p \in Owners, EditByHand(p)
    PROVE  IInv'
  <1> DEFINE old == graph.items[p]
  <1>1. TypeOK /\ GraphSound(graph, Owners, doubled) /\ Owners \in SUBSET Created /\ Distinct(Owners)
    BY OwnersDistinct DEF IInv, KnownInv, Owners
  <1>2. old \in Seq(Instances) /\ Len(old) \in Nat
    BY <1>1, GraphParts DEF GraphSound, Created
  <1>3. ASSUME NEW i \in Created \cup {Null}, Edit(p, AssignChild(graph, p, i), {})
        PROVE  IInv'
    <2>1. /\ GraphSound(AssignChild(graph, p, i), Owners, doubled)
          /\ doubled \subseteq doubled'
      BY <1>1, <1>3, ChildSet, AfterEdit
    <2>2. GraphSound(AssignChild(graph, p, i), Owners, doubled')
      BY <2>1, SoundStill
    <2> QED  BY <1>3, <2>2, EditStep
  <1>4. ASSUME NEW c \in Collections, NEW s \in Called(c), Edit(p, AssignItems(graph, p, s), {})
        PROVE  IInv'
    <2>1. s \in Seq(Created)
      <3>1. c \in Seq(Uuids) /\ s \in [DOMAIN c -> Created]
        BY ApplyAssumption DEF Called
      <3>2. DOMAIN c = 1..Len(c) /\ Len(c) \in Nat
        BY <3>1
      <3> QED  BY <3>1, <3>2
    <2>2. /\ doubled \subseteq doubled'
          /\ \A q \in Instances \ doubled' : IsInjective(AssignItems(graph, p, s).items[q])
      BY <1>4, AfterEdit
    <2>3. GraphSound(AssignItems(graph, p, s), Owners, doubled')
      BY <1>1, <2>1, <2>2, ItemsSet
    <2> QED  BY <1>4, <2>3, EditStep
  <1>5. ASSUME NEW i \in Created, NEW k \in 0..Len(old), NEW n \in 0..Len(old), k + n <= Len(old),
               Edit(p, SpliceItems(graph, p, k, n, <<i>>), {i} \cap Range(old))
        PROVE  IInv'
    <2>1. <<i>> \in Seq(Created) /\ Range(<<i>>) = {i}
      BY DEF Range
    <2>2. k \in Nat /\ n \in Nat
      BY <1>2
    <2> QED  BY <1>5, <2>1, <2>2, SpliceStep
  <1>6. ASSUME Edit(p, PopItem(graph, p), {}) \/ Edit(p, ShiftItem(graph, p), {})
        PROVE  IInv'
    <2>1. CASE old = <<>>
      <3>1. Edit(p, graph, {})
        BY <1>6, <2>1 DEF PopItem, ShiftItem
      <3>2. GraphSound(graph, Owners, doubled')
        BY <1>1, <3>1, SoundStill, AfterEdit
      <3> QED  BY <3>1, <3>2, EditStep
    <2>2. CASE old # <<>>
      <3> DEFINE none == <<>>
      <3>1. Len(old) - 1 \in Nat /\ Len(old) >= 1
        BY <1>2, <2>2
      <3>2. \/ Edit(p, SpliceItems(graph, p, Len(old) - 1, 1, none), {})
            \/ Edit(p, SpliceItems(graph, p, 0, 1, none), {})
        BY <1>6, <2>2 DEF PopItem, ShiftItem
      <3>3. none \in Seq(Created) /\ {} = Range(none) \cap Range(old)
        BY DEF Range
      <3> HIDE DEF none
      <3>4. Len(old) - 1 + 1 <= Len(old) /\ 0 + 1 <= Len(old) /\ 0 \in Nat /\ 1 \in Nat
        BY <3>1
      <3>5. CASE Edit(p, SpliceItems(graph, p, Len(old) - 1, 1, none), {})
        BY <3>1, <3>3, <3>4, <3>5, SpliceStep
      <3>6. CASE Edit(p, SpliceItems(graph, p, 0, 1, none), {})
        BY <3>3, <3>4, <3>6, SpliceStep
      <3> QED  BY <3>2, <3>5, <3>6
    <2> QED  BY <2>1, <2>2
  <1>7. Len(old) \in 0..Len(old) /\ 0 \in 0..Len(old) /\ Len(old) + 0 <= Len(old)
        /\ 0 + 0 <= Len(old)
    BY <1>2
  <1>8. ASSUME NEW i \in Created,
               \/ Edit(p, PushItem(graph, p, i), {i} \cap Range(old))
               \/ Edit(p, UnshiftItem(graph, p, i), {i} \cap Range(old))
        PROVE  IInv'
    BY <1>5, <1>7, <1>8 DEF PushItem, UnshiftItem
  <1> QED  BY <1>3, <1>4, <1>5, <1>6, <1>8 DEF EditByHand

\* The first objects of the scope: what is no stray and not the root, has a
\* parent.
LEMMA SetRootStep ==
    ASSUME IInv, NEW r \in Created, SetRoot(r)
    PROVE  IInv'
  <1>1. /\ TypeOK /\ KnownInv /\ Distinct(Created) /\ Known = {} /\ GraphSound(graph, Owners, doubled)
        /\ temporals = {} /\ orphaned = {} /\ round = {}
    BY DEF IInv, KnownInv, Known, SetRoot
  <1>2. /\ uuid' = uuid /\ graph' = graph /\ root' = r /\ stage' = "free" /\ doubled' = doubled
        /\ temporals' = {} /\ orphaned' = {} /\ round' = {}
        /\ scoped' = TreeOf(graph, r, Created) /\ toAdd' = toAdd
        /\ strays' = {i \in scoped' \ {r} : graph.parents[i] = {}}
        /\ edits' = edits /\ changes' = changes
    BY <1>1 DEF SetRoot
  <1>3. Created \subseteq Instances /\ Created' = Created /\ graph \in Graphs /\ Owners = Created
    BY <1>1, <1>2, AllOwn DEF Created, GraphSound
  <1>4. scoped' \subseteq Created
    <2>1. r \in Instances /\ Created \in SUBSET Instances
      BY <1>3
    <2> QED  BY <1>2, <1>3, <2>1, TreeIsHeld
  <1>5. Known' = scoped'
    BY <1>2 DEF Known
  <1>6. (Distinct(Known))'
    BY <1>1, <1>2, <1>4, <1>5 DEF Distinct
  <1>7. KnownInv'
    BY <1>2, <1>3, <1>4, <1>5 DEF KnownInv
  <1>8. OrphanInv'
    BY <1>2 DEF OrphanInv
  <1>9. GraphSound(graph, Owners, doubled)'
    <2>1. GraphSound(graph', Owners, doubled') /\ Owners' \subseteq Owners
      BY <1>1, <1>2, <1>3, <1>4, <1>5 DEF Owners
    <2> QED  BY <1>2, <2>1, Carried
  <1>10. TypeOK'
    BY <1>1, <1>2, <1>3, <1>4 DEF TypeOK, Stages
  <1> QED  BY <1>6, <1>7, <1>8, <1>9, <1>10 DEF IInv

LEMMA RemoveRootStep ==
    ASSUME IInv, RemoveRoot
    PROVE  IInv'
  <1>1. /\ scoped' \subseteq scoped /\ orphaned' = orphaned \cap scoped' /\ round = {}
        /\ UNCHANGED <<uuid, graph, root, stage, toAdd, temporals, round, edits, changes,
                       doubled, strays>>
    BY DEF RemoveRoot, applyVars, history
  <1>2. TypeOK /\ KnownInv /\ OrphanInv
    BY DEF IInv
  <1>3. Known' \subseteq Known /\ Created' = Created
    BY <1>1 DEF Known, Created
  <1>4. TypeOK'
    BY <1>1, <1>2 DEF TypeOK
  <1>5. KnownInv'
    <2>1. stage' = "building" => Known' = {} /\ (Distinct(Created))'
      BY <1>1, <1>2, <1>3 DEF KnownInv, Distinct
    <2> QED  BY <1>1, <1>2, <1>3, <2>1 DEF KnownInv
  <1>6. OrphanInv'
    BY <1>1, <1>2 DEF OrphanInv
  <1> QED  BY <1>1, <1>3, <1>4, <1>5, <1>6, LessStep
-----------------------------------------------------------------------------
\* An apply.

LEMMA StageStep ==
    ASSUME IInv, UNCHANGED <<graphVars, root, toAdd, temporals, counts, history>>,
           stage # "building", stage' \in Stages \ {"building"},
           stage' \notin {"create", "add", "change"} => temporals = {},
           round' \subseteq orphaned, stage' # "orphan" => round' = {}
    PROVE  IInv'
  <1>1. UNCHANGED <<uuid, graph, scoped, orphaned, root, toAdd, temporals, edits, changes,
                    doubled, strays>>
    BY DEF graphVars, counts, history
  <1>2. TypeOK /\ KnownInv /\ OrphanInv
    BY DEF IInv
  <1>3. Known' = Known /\ Created' = Created
    BY <1>1 DEF Known, Created
  <1>4. TypeOK'
    BY <1>1, <1>2 DEF TypeOK
  <1>5. KnownInv'
    BY <1>1, <1>2, <1>3 DEF KnownInv
  <1>6. OrphanInv'
    BY <1>1, <1>2 DEF OrphanInv
  <1> QED  BY <1>1, <1>3, <1>4, <1>5, <1>6, LessStep

LEMMA CreateTemporalStep ==
    ASSUME IInv, NEW u \in Uuids, CreateTemporal(u)
    PROVE  IInv'
  <1> DEFINE n == NextFresh
  <1>1. n \in Instances \ Created
    BY NextFreshIsFresh DEF CreateTemporal
  <1>2. /\ stage = "create"
        /\ uuid' = [uuid EXCEPT ![n] = u]
        /\ temporals' = {i \in temporals : uuid[i] # u} \cup {n}
        /\ toAdd' = Append(toAdd, u)
        /\ \A i \in scoped : uuid[i] # u
        /\ UNCHANGED <<graph, scoped, orphaned, root, stage, round, edits, changes, doubled, strays>>
    BY DEF CreateTemporal, counts, history
  <1> HIDE DEF n
  <1>3. /\ TypeOK /\ KnownInv /\ OrphanInv
        /\ Distinct(Known) /\ GraphSound(graph, Owners, doubled)
    BY DEF IInv
  <1>4. Known \subseteq Created /\ Owners \in SUBSET Created
    BY <1>3 DEF KnownInv, Owners
  <1>5. /\ Known' \subseteq Known \cup {n}
        /\ \A i \in Known' : i = n \/ (i \in Known /\ uuid[i] # u)
    BY <1>2 DEF Known
  <1>6. /\ Created' = Created \cup {n}
        /\ \A i \in Created : uuid'[i] = uuid[i]
        /\ uuid'[n] = u
        /\ Owners' \subseteq Owners \cup {n}
    BY <1>1, <1>2, <1>3, <1>5, OwnersBorn
  <1>7. GraphSound(graph, Owners, doubled)'
    BY <1>1, <1>2, <1>3, <1>4, <1>6, Born
  <1>8. (Distinct(Known))'
    BY <1>3, <1>4, <1>5, <1>6 DEF Distinct
  <1>9. TypeOK'
    BY <1>1, <1>2, <1>3 DEF TypeOK
  <1>10. root \in Created \cup {Null} /\ Null \notin Instances
    BY <1>3, Facts DEF KnownInv
  <1>11. root \notin temporals'
    BY <1>1, <1>2, <1>3, <1>10 DEF KnownInv
  <1>12. KnownInv'
    BY <1>2, <1>3, <1>4, <1>5, <1>6, <1>10, <1>11 DEF KnownInv
  <1>13. OrphanInv'
    BY <1>2, <1>3 DEF OrphanInv
  <1> QED  BY <1>7, <1>8, <1>9, <1>12, <1>13 DEF IInv

\* A name that is found stands for an object that has it.
LEMMA Resolved ==
    ASSUME NEW u, Found(u) # {}
    PROVE  Resolve(u) \in Known /\ uuid[Resolve(u)] = u
  <1>1. CASE \E i \in temporals : uuid[i] = u
    BY <1>1 DEF Resolve, Known
  <1>2. CASE ~ \E i \in temporals : uuid[i] = u
    <2>1. \E i \in scoped : uuid[i] = u
      BY <1>2 DEF Found, Known
    <2> QED  BY <1>2, <2>1 DEF Resolve, Known
  <1> QED  BY <1>1, <1>2

\* The properties of a fragment are set to known objects.
LEMMA PropertiesSet ==
    ASSUME TypeOK, Known \subseteq Created, NEW S \in SUBSET Created, Distinct(S),
           GraphSound(graph, S, doubled), NEW p \in S, NEW f \in Fragments, Verified(f)
    PROVE  GraphSound(WithProperties(graph, p, f), S, DoubledAfter(WithProperties(graph, p, f)))
  <1> DEFINE g == WithChild(graph, p, f)
             h == WithItems(g, p, f)
             E == DoubledAfter(h)
  <1>1. /\ f.child \in Uuids \cup {Null, Unset} /\ f.items \in Collections \cup {Unset}
        /\ Collections \subseteq Seq(Uuids)
        /\ Unset \notin Uuids \cup Collections \cup {Null}
    BY ApplyAssumption
  <1>2. GraphSound(g, S, doubled)
    <2>1. CASE f.child = Unset
      BY <2>1 DEF WithChild
    <2>2. CASE f.child # Unset
      <3> DEFINE new == IF f.child = Null THEN Null ELSE Resolve(f.child)
      <3>1. g = AssignChild(graph, p, new)
        BY <2>2 DEF WithChild
      <3>2. new \in Created \cup {Null}
        <4>1. CASE f.child = Null
          BY <4>1
        <4>2. CASE f.child # Null
          <5>1. Found(f.child) # {}
            BY <2>2, <4>2 DEF Verified, Refs
          <5> QED  BY <4>2, <5>1, Resolved
        <4> QED  BY <4>1, <4>2
      <3> HIDE DEF new, g
      <3>3. GraphSound(AssignChild(graph, p, new), S, doubled)
        BY <3>2, ChildSet
      <3> QED  BY <3>1, <3>3
    <2> QED  BY <2>1, <2>2
  <1>3. doubled \subseteq E /\ \A q \in Instances \ E : IsInjective(h.items[q])
    BY DEF DoubledAfter
  <1> HIDE DEF g, E
  <1>4. GraphSound(h, S, E)
    <2>1. CASE f.items = Unset
      BY <1>2, <1>3, <2>1, SoundStill DEF WithItems
    <2>2. CASE f.items # Unset
      <3> DEFINE new == [k \in DOMAIN f.items |-> Resolve(f.items[k])]
      <3>1. h = AssignItems(g, p, new)
        BY <2>2 DEF WithItems
      <3>2. f.items \in Seq(Uuids)
        BY <1>1, <2>2
      <3>3. ASSUME NEW k \in DOMAIN f.items PROVE Resolve(f.items[k]) \in Created
        <4>1. f.items[k] \in Range(f.items)
          BY DEF Range
        <4>2. Found(f.items[k]) # {}
          BY <2>2, <4>1 DEF Verified, Refs
        <4> QED  BY <4>2, Resolved
      <3>4. new \in Seq(Created)
        <4>1. DOMAIN f.items = 1..Len(f.items) /\ Len(f.items) \in Nat
          BY <3>2
        <4> QED  BY <3>3, <4>1
      <3> HIDE DEF new, h
      <3>5. \A q \in Instances \ E : IsInjective(AssignItems(g, p, new).items[q])
        BY <1>3, <3>1
      <3>6. GraphSound(AssignItems(g, p, new), S, E)
        BY <1>2, <1>3, <3>4, <3>5, ItemsSet
      <3> QED  BY <3>1, <3>6
    <2> QED  BY <2>1, <2>2
  <1> QED  BY <1>4 DEF WithProperties, g, E

\* The properties of one fragment are set: whoever loses its last parent
\* becomes an orphan, and whoever is given one is none any more.
LEMMA SetPropertiesStep ==
    ASSUME IInv, NEW p \in Known, NEW f \in Fragments, Verified(f), SetProperties(p, f),
           stage \in {"add", "change"}, toAdd' \in Seq(Uuids), changes' \in Nat,
           UNCHANGED <<uuid, scoped, root, stage, temporals, round, edits, strays>>
    PROVE  IInv'
  <1>1. /\ TypeOK /\ KnownInv /\ OrphanInv
        /\ Distinct(Known) /\ GraphSound(graph, Owners, doubled)
    BY DEF IInv
  <1>2. /\ Known \subseteq Created /\ round = {}
        /\ Owners \in SUBSET Created /\ Distinct(Owners) /\ p \in Owners
    BY <1>1, OwnersDistinct DEF KnownInv
  <1>3. Known' = Known /\ Created' = Created
    BY DEF Known, Created
  <1>4. GraphSound(graph', Owners, doubled')
    BY <1>1, <1>2, PropertiesSet DEF SetProperties
  <1>5. /\ orphaned' \subseteq scoped
        /\ \A i \in orphaned' : graph'.parents[i] = {}
        /\ \A i \in scoped : graph'.parents[i] = {} /\ (i \in orphaned \/ graph.parents[i] # {})
              => i \in orphaned'
    BY DEF SetProperties, OrphansAfter
  <1>6. TypeOK'
    <2>1. graph' \in Graphs /\ doubled' \in SUBSET Instances
      BY <1>1, <1>4 DEF GraphSound, SetProperties, DoubledAfter, TypeOK
    <2> QED  BY <1>1, <1>5, <2>1 DEF TypeOK
  <1>7. KnownInv'
    BY <1>1, <1>2, <1>3, <1>5 DEF KnownInv
  <1>8. OrphanInv'
    BY <1>1, <1>2, <1>5 DEF OrphanInv
  <1>9. (Distinct(Known))'
    BY <1>1, <1>2, <1>3 DEF Distinct
  <1>10. GraphSound(graph, Owners, doubled)'
    <2>1. Owners' \subseteq Owners
      BY <1>3, OwnersKept
    <2> QED  BY <1>4, <2>1, Carried
  <1> QED  BY <1>6, <1>7, <1>8, <1>9, <1>10 DEF IInv

LEMMA ApplyAddStep ==
    ASSUME IInv, NEW f \in Fragments, ApplyAdd(f)
    PROVE  IInv'
  <1>1. /\ stage = "add" /\ UNCHANGED <<uuid, scoped, root, stage, round, edits, changes, strays>>
        /\ toAdd # <<>> /\ toAdd' = Tail(toAdd)
    BY DEF ApplyAdd, counts
  <1>2. TypeOK /\ KnownInv /\ OrphanInv
    BY DEF IInv
  <1>3. toAdd' \in Seq(Uuids) /\ changes' \in Nat
    BY <1>1, <1>2 DEF TypeOK
  <1>4. ASSUME UNCHANGED <<graph, orphaned, doubled>>, temporals' \subseteq temporals
        PROVE  IInv'
    <2>1. Known' \subseteq Known /\ Created' = Created
      BY <1>1, <1>4 DEF Known, Created
    <2>2. TypeOK'
      BY <1>1, <1>2, <1>3, <1>4 DEF TypeOK
    <2>3. KnownInv'
      BY <1>1, <1>2, <1>4, <2>1 DEF KnownInv
    <2>4. OrphanInv'
      BY <1>1, <1>2, <1>4 DEF OrphanInv
    <2> QED  BY <1>1, <1>4, <2>1, <2>2, <2>3, <2>4, LessStep
  <1>5. ASSUME Verified(f), UNCHANGED temporals, NEW i \in temporals, SetProperties(i, f)
        PROVE  IInv'
    <2>1. i \in Known
      BY DEF Known
    <2> QED  BY <1>1, <1>3, <1>5, <2>1, SetPropertiesStep
  <1>6. \/ UNCHANGED <<graph, orphaned, doubled>> /\ temporals' \subseteq temporals
        \/ /\ Verified(f) /\ UNCHANGED temporals
           /\ \E i \in temporals : SetProperties(i, f)
    BY DEF ApplyAdd
  <1> QED  BY <1>4, <1>5, <1>6

LEMMA ApplyChangeStep ==
    ASSUME IInv, NEW p \in scoped, NEW f \in Fragments, ApplyChange(p, f)
    PROVE  IInv'
  <1>1. /\ stage = "change" /\ Verified(f) /\ SetProperties(p, f) /\ changes' = changes + 1
        /\ UNCHANGED <<uuid, scoped, root, stage, toAdd, temporals, round, edits, strays>>
    BY DEF ApplyChange
  <1>2. p \in Known /\ toAdd' \in Seq(Uuids) /\ changes' \in Nat
    BY <1>1 DEF Known, IInv, TypeOK
  <1> QED  BY <1>1, <1>2, SetPropertiesStep

LEMMA CommitStep ==
    ASSUME IInv, Commit
    PROVE  IInv'
  <1> DEFINE held == {i \in temporals : graph.parents[i] # {}}
  <1>1. /\ stage = "change" /\ stage' = "orphan" /\ scoped' = scoped \cup held
        /\ temporals' = {}
        /\ UNCHANGED <<uuid, graph, orphaned, root, toAdd, round, edits, changes, doubled, strays>>
    BY DEF Commit, Goto, counts, history
  <1>2. TypeOK /\ KnownInv /\ OrphanInv
    BY DEF IInv
  <1>3. Known' \subseteq Known /\ Created' = Created
    BY <1>1 DEF Known, Created
  <1>4. TypeOK'
    BY <1>1, <1>2 DEF TypeOK, Stages
  <1>5. KnownInv'
    BY <1>1, <1>2, <1>3 DEF KnownInv
  <1>6. OrphanInv'
    BY <1>1, <1>2 DEF OrphanInv
  <1> QED  BY <1>1, <1>3, <1>4, <1>5, <1>6, LessStep

\* What is removed lets go, and nobody is given a parent.
LEMMA RemoveOrphanStep ==
    ASSUME IInv, NEW i \in Instances, RemoveOrphan(i)
    PROVE  IInv'
  <1>1. /\ stage = "orphan" /\ i \in round
        /\ graph' = AssignItems(AssignChild(graph, i, Null), i, <<>>)
        /\ scoped' = scoped \ {i}
        /\ orphaned' = OrphansAfter(graph') \ {i}
        /\ round' = round \ {i}
        /\ UNCHANGED <<uuid, root, stage, toAdd, temporals, edits, changes, doubled, strays>>
    BY DEF RemoveOrphan, counts, history
  <1>2. /\ TypeOK /\ KnownInv /\ OrphanInv
        /\ Distinct(Known) /\ GraphSound(graph, Owners, doubled)
    BY DEF IInv
  <1>3. /\ i \in Known /\ i \in Owners /\ Owners \in SUBSET Created /\ Distinct(Owners)
    BY <1>1, <1>2, OwnersDistinct DEF KnownInv, Known
  <1> DEFINE alone == AssignChild(graph, i, Null)
  <1>4. /\ GraphSound(alone, Owners, doubled)
        /\ \A j \in Instances : alone.parents[j] \subseteq graph.parents[j]
    BY <1>2, <1>3, ChildSet
  <1> HIDE DEF alone
  <1>5. /\ GraphSound(graph', Owners, doubled')
        /\ \A j \in Instances : graph'.parents[j] \subseteq alone.parents[j]
    <2> DEFINE none == <<>>
    <2>1. graph' = AssignItems(alone, i, none)
      BY <1>1 DEF alone
    <2>2. none \in Seq(Created) /\ IsInjective(none)
      BY DEF IsInjective
    <2>3. none = <<>>
      OBVIOUS
    <2> HIDE DEF none
    <2>4. \A q \in Instances \ doubled : IsInjective(AssignItems(alone, i, none).items[q])
      <3> DEFINE after == AssignItems(alone, i, none)
      <3>1. Touched(alone, after, i, "items") /\ after.items[i] = none
        <4>1. /\ alone \in Graphs /\ uuid[i] \in Uuids /\ none \in Seq(Instances)
          BY <1>2, <1>3, <1>4, <2>3 DEF GraphSound, Created, TypeOK
        <4> QED  BY <4>1, ItemsAssigned
      <3> HIDE DEF after
      <3>2. \A q \in Instances \ doubled : IsInjective(after.items[q])
        BY <1>4, <2>2, <3>1 DEF Touched, GraphSound
      <3> QED  BY <3>2 DEF after
    <2>5. /\ GraphSound(AssignItems(alone, i, none), Owners, doubled)
          /\ none = <<>> => \A j \in Instances :
                AssignItems(alone, i, none).parents[j] \subseteq alone.parents[j]
      BY <1>2, <1>3, <1>4, <2>2, <2>4, ItemsSet
    <2> QED  BY <1>1, <2>1, <2>3, <2>5
  <1>6. /\ Known' \subseteq Known /\ Created' = Created /\ orphaned' \subseteq scoped'
    BY <1>1 DEF Known, Created, OrphansAfter
  <1>7. TypeOK'
    <2>1. graph' \in Graphs
      BY <1>5 DEF GraphSound
    <2> QED  BY <1>1, <1>2, <1>6, <2>1 DEF TypeOK
  <1>8. KnownInv'
    BY <1>1, <1>2, <1>6 DEF KnownInv
  <1>9. OrphanInv'
    <2>1. \A j \in round : graph'.parents[j] = {}
      BY <1>2, <1>4, <1>5 DEF OrphanInv, TypeOK
    <2>2. \A j \in scoped' \ (strays \cup {root}) : graph'.parents[j] = {} => j \in orphaned'
      BY <1>1, <1>2 DEF OrphanInv, OrphansAfter
    <2>3. \A j \in orphaned' : graph'.parents[j] = {}
      BY <1>1 DEF OrphansAfter
    <2> QED  BY <1>1, <2>1, <2>2, <2>3 DEF OrphanInv
  <1>10. (Distinct(Known))'
    BY <1>1, <1>2, <1>6 DEF Distinct
  <1>11. GraphSound(graph, Owners, doubled)'
    <2>1. Owners' \subseteq Owners
      BY <1>1, <1>6, OwnersKept
    <2> QED  BY <1>1, <1>5, <2>1, Carried
  <1> QED  BY <1>7, <1>8, <1>9, <1>10, <1>11 DEF IInv

LEMMA NextIInv == IInv /\ [Next]_vars => IInv'
  <1> SUFFICES ASSUME IInv, [Next]_vars PROVE IInv'
    OBVIOUS
  <1>1. ASSUME NEW u \in Uuids, NewObject(u) PROVE IInv'
    BY <1>1, NewObjectStep
  <1>2. ASSUME NEW p \in Owners, EditByHand(p) PROVE IInv'
    BY <1>2, EditByHandStep
  <1>3. ASSUME NEW p \in Created, SetRoot(p) PROVE IInv'
    BY <1>3, SetRootStep
  <1>4. CASE RemoveRoot
    BY <1>4, RemoveRootStep
  <1>5. CASE Begin \/ Refuse \/ Accept \/ CreateDone \/ AddsDone \/ NextRound \/ Finish
    <2>1. /\ UNCHANGED <<graphVars, root, toAdd, temporals, counts, history>>
          /\ stage # "building" /\ stage' \in Stages \ {"building"}
          /\ stage' \notin {"create", "add", "change"} => temporals = {}
          /\ round' \subseteq orphaned /\ (stage' # "orphan" => round' = {})
      BY <1>5 DEF Begin, Refuse, Accept, CreateDone, AddsDone, NextRound, Finish, Goto,
                  IInv, KnownInv, Stages, TypeOK
    <2> QED  BY <2>1, StageStep
  <1>6. ASSUME NEW u \in Uuids, CreateTemporal(u) PROVE IInv'
    BY <1>6, CreateTemporalStep
  <1>7. ASSUME NEW f \in Fragments, ApplyAdd(f) PROVE IInv'
    BY <1>7, ApplyAddStep
  <1>8. ASSUME NEW p \in scoped, NEW f \in Fragments, ApplyChange(p, f) PROVE IInv'
    BY <1>8, ApplyChangeStep
  <1>9. CASE Commit
    BY <1>9, CommitStep
  <1>10. ASSUME NEW i \in Instances, RemoveOrphan(i) PROVE IInv'
    BY <1>10, RemoveOrphanStep
  <1>11. CASE UNCHANGED vars
    <2>1. /\ UNCHANGED <<uuid, graph, scoped, orphaned, root, stage, toAdd, temporals,
                         round, edits, changes, doubled, strays>>
          /\ Known' = Known /\ Created' = Created
      BY <1>11 DEF vars, Known, Created
    <2>2. TypeOK' /\ KnownInv' /\ OrphanInv'
      BY <2>1 DEF IInv, TypeOK, KnownInv, OrphanInv, Distinct
    <2> QED  BY <2>1, <2>2, LessStep
  <1> QED
    BY <1>1, <1>2, <1>3, <1>4, <1>5, <1>6, <1>7, <1>8, <1>9, <1>10, <1>11
    DEF Next, Applying

LEMMA Inductive == Spec => []IInv
  <1> QED  BY InitIInv, NextIInv, PTL DEF Spec
-----------------------------------------------------------------------------
\* The types of the variables.
THEOREM TypeCorrect == Spec => []TypeOK
  <1>1. IInv => TypeOK
    BY DEF IInv
  <1> QED  BY <1>1, Inductive, PTL

\* Whatever is held by one that goes by its uuid knows it as its parent, and
\* whatever is known as a parent does hold the object, but for collections
\* that have held an object twice.
THEOREM ParentsAgree == Spec => []ParentsMirror
  <1>1. IInv => HeldIsKnown
    BY DEF IInv, GraphSound, Knows, HeldIsKnown
  <1>2. IInv => KnownIsHeld
    BY DEF IInv, GraphSound, KnownIsHeld
  <1>3. IInv => ParentsMirror
    BY <1>1, <1>2 DEF ParentsMirror
  <1> QED  BY <1>3, Inductive, PTL

\* Two objects of a scope never share a uuid.
THEOREM NamesDistinct == Spec => []ScopedDistinct
  <1>1. IInv => ScopedDistinct
    BY DEF IInv, Distinct, Known, ScopedDistinct
  <1> QED  BY <1>1, Inductive, PTL

\* What leaves the scope leaves by removeRoot or in a round of orphans.
LEMMA HowToLeave ==
    ASSUME IInv, [Next]_vars, stage \in {"change", "orphan"},
           root \in scoped => root \in scoped'
    PROVE  \/ Commit
           \/ \E i \in Instances : RemoveOrphan(i)
           \/ scoped' = scoped /\ temporals' = temporals
  <1>1. ~ RemoveRoot
    <2> SUFFICES ASSUME RemoveRoot PROVE FALSE
      OBVIOUS
    <2>1. root \in scoped /\ scoped' = scoped \ TreeOf(graph, root, scoped)
      BY DEF RemoveRoot
    <2>2. root \in Instances /\ graph \in Graphs /\ scoped \in SUBSET Instances
      BY <2>1 DEF IInv, TypeOK
    <2>3. root \in TreeOf(graph, root, scoped)
      BY <2>2, TreeIsHeld
    <2> QED  BY <2>1, <2>3
  <1>2. ~ (\E u \in Uuids : CreateTemporal(u)) /\ ~ (\E f \in Fragments : ApplyAdd(f))
        /\ ~ (\E p \in Created : SetRoot(p))
    BY DEF CreateTemporal, ApplyAdd, SetRoot
  <1> DEFINE Stays == scoped' = scoped /\ temporals' = temporals
  <1>3. /\ \A u \in Uuids : NewObject(u) => Stays
        /\ \A p \in scoped, f \in Fragments : ApplyChange(p, f) => Stays
        /\ UNCHANGED vars => Stays
    BY DEF NewObject, applyVars, ApplyChange, vars
  <1>4. \A p \in Owners : EditByHand(p) => Stays
    <2>1. \A p, after, again : Edit(p, after, again) => Stays
      BY DEF Edit
    <2> HIDE DEF Stays
    <2> QED  BY <2>1 DEF EditByHand
  <1>5. Begin \/ Refuse \/ Accept \/ CreateDone \/ AddsDone \/ NextRound \/ Finish => Stays
    BY DEF Begin, Refuse, Accept, CreateDone, AddsDone, NextRound, Finish, graphVars
  <1> HIDE DEF Stays
  <1>6. Commit \/ (\E i \in Instances : RemoveOrphan(i)) \/ Stays
    BY <1>1, <1>2, <1>3, <1>4, <1>5 DEF Next, Applying
  <1> QED  BY <1>6 DEF Stays

\* When a change set is done, nothing of the scope but its root and what
\* came with it without a parent lacks parents.
THEOREM OrphansGone == Spec => OrphansRemoved
  <1> DEFINE Done == stage = "orphan" /\ stage' = "free"
                        => \A i \in scoped' \ (strays \cup {root}) : graph'.parents[i] # {}
  <1>1. ASSUME IInv, [Next]_vars PROVE [Done]_vars
    <2> SUFFICES ASSUME stage = "orphan", stage' = "free" PROVE Done
      OBVIOUS
    <2>1. Finish
      BY <1>1 DEF Next, Applying, NewObject, EditByHand, Edit, SetRoot, RemoveRoot, Begin,
                  Refuse, Accept, CreateTemporal, CreateDone, ApplyAdd, AddsDone,
                  ApplyChange, Commit, RemoveOrphan, NextRound, Goto, applyVars, vars
    <2>2. scoped' = scoped /\ graph' = graph /\ orphaned = {}
      BY <2>1 DEF Finish, graphVars
    <2> QED  BY <1>1, <2>2 DEF IInv, OrphanInv
  <1>2. [][Done]_vars => OrphansRemoved
    BY PTL DEF OrphansRemoved
  <1> HIDE DEF Done
  <1> QED  BY <1>1, <1>2, Inductive, PTL DEF Spec

\* What has no parents is held by nobody, but by a collection that has held
\* an object twice.
LEMMA AloneIsUnheld ==
    ASSUME IInv, NEW i \in Instances, graph.parents[i] = {}
    PROVE  LeavesUnheld(i)
  <1>1. \A p \in Owners : /\ ~ Holds(graph, p, "child", i)
                          /\ p \in doubled \/ ~ Holds(graph, p, "items", i)
    BY DEF IInv, GraphSound, Knows, Keys
  <1> QED  BY <1>1 DEF LeavesUnheld, Holds

\* What an object holds is neither refused when the new objects join the
\* scope nor removed as an orphan, but for what only collections hold that
\* have held an object twice.
THEOREM KeptIfHeld == Spec => HeldIsKept
  <1>1. ASSUME IInv, [Next]_vars PROVE KeepsHeld
    <2> SUFFICES ASSUME stage \in {"change", "orphan"}, root \in scoped => root \in scoped',
                        NEW i \in Known, i \notin scoped' \cup temporals'
                 PROVE  LeavesUnheld(i)
      BY DEF KeepsHeld
    <2>1. i \in Instances
      BY <1>1 DEF IInv, TypeOK, Known
    <2>2. CASE Commit
      <3>1. i \in temporals /\ graph.parents[i] = {}
        BY <2>2 DEF Commit, Known
      <3> QED  BY <1>1, <2>1, <3>1, AloneIsUnheld
    <2>3. ASSUME NEW j \in Instances, RemoveOrphan(j) PROVE LeavesUnheld(i)
      <3>1. i = j /\ i \in round
        BY <2>3 DEF RemoveOrphan, Known
      <3>2. graph.parents[i] = {}
        BY <1>1, <3>1 DEF IInv, OrphanInv
      <3> QED  BY <1>1, <2>1, <3>2, AloneIsUnheld
    <2>4. ~ (scoped' = scoped /\ temporals' = temporals)
      BY DEF Known
    <2> QED  BY <1>1, <2>2, <2>3, <2>4, HowToLeave
  <1>2. [][KeepsHeld]_vars => HeldIsKept
    BY PTL DEF HeldIsKept
  <1> QED  BY <1>1, <1>2, Inductive, PTL DEF Spec

\* What a change set removes from the scope has no parents.
THEOREM OnlyOrphans == Spec => OnlyOrphansLeave
  <1> DEFINE Leave == stage = "orphan" /\ (root \in scoped => root \in scoped')
                         => \A i \in scoped \ scoped' : graph.parents[i] = {}
  <1>1. ASSUME IInv, [Next]_vars PROVE [Leave]_vars
    <2> SUFFICES ASSUME stage = "orphan", root \in scoped => root \in scoped',
                        NEW j \in scoped, j \notin scoped'
                 PROVE  graph.parents[j] = {}
      OBVIOUS
    <2>1. ~ Commit
      BY DEF Commit, Goto
    <2>2. PICK i \in Instances : RemoveOrphan(i)
      BY <1>1, <2>1, HowToLeave
    <2> QED  BY <1>1, <2>2 DEF RemoveOrphan, IInv, OrphanInv
  <1>2. [][Leave]_vars => OnlyOrphansLeave
    BY PTL DEF OnlyOrphansLeave
  <1> HIDE DEF Leave
  <1> QED  BY <1>1, <1>2, Inductive, PTL DEF Spec
=============================================================================
