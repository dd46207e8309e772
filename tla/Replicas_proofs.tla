--------------------------- MODULE Replicas_proofs ---------------------------
(***************************************************************************)
(* For any number of clients, models and values.                           *)
(***************************************************************************)
EXTENDS Replicas, ListFacts

\* What the application or a revert sets leaves a copy,
LEMMA SetValuesTyped ==
    ASSUME NEW mine \in Copies, NEW changes \in Partial
    PROVE  SetValues(mine, changes) \in Copies
  <1> DEFINE changed == {m \in Named(changes) : mine.value[m] # changes[m]}
  <1>1. \A m \in changed : changes[m] \in Values
    BY DEF Named, Partial
  <1>2. /\ mine.value \in [Models -> Values] /\ mine.props \in Partial /\ mine.orig \in Partial
    BY DEF Copies
  <1> DEFINE set == SetValues(mine, changes)
  <1>3. set = [value |-> [m \in Models |-> IF m \in changed THEN changes[m] ELSE mine.value[m]],
               props |-> [m \in Models |-> IF m \in changed THEN changes[m] ELSE mine.props[m]],
               orig  |-> [m \in Models |-> IF m \in changed /\ mine.orig[m] = Unset
                                           THEN mine.value[m] ELSE mine.orig[m]]]
    BY DEF SetValues
  <1> HIDE DEF changed, set
  <1>4. [m \in Models |-> IF m \in changed THEN changes[m] ELSE mine.value[m]] \in [Models -> Values]
    BY <1>1, <1>2
  <1>5. [m \in Models |-> IF m \in changed THEN changes[m] ELSE mine.props[m]] \in Partial
    BY <1>1, <1>2 DEF Partial
  <1>6. [m \in Models |-> IF m \in changed /\ mine.orig[m] = Unset
                          THEN mine.value[m] ELSE mine.orig[m]] \in Partial
    BY <1>2 DEF Partial
  <1>7. set \in Copies
    BY <1>3, <1>4, <1>5, <1>6 DEF Copies
  <1> QED  BY <1>7 DEF set

\* What becomes of the one model m.
LEMMA SetValuesAt ==
    ASSUME NEW mine \in Copies, NEW changes \in Partial, NEW m \in Models,
           NEW set, set = SetValues(mine, changes)
    PROVE  /\ changes[m] = Unset \/ mine.value[m] = changes[m] =>
                 /\ set.value[m] = mine.value[m]
                 /\ set.props[m] = mine.props[m] /\ set.orig[m] = mine.orig[m]
           /\ changes[m] # Unset /\ mine.value[m] # changes[m] =>
                 /\ set.value[m] = changes[m] /\ set.props[m] = changes[m]
                 /\ set.orig[m] = IF mine.orig[m] = Unset THEN mine.value[m]
                                  ELSE mine.orig[m]
  BY DEF SetValues, Named

\* and so does a remote change, which leaves the fragments alone.
LEMMA ApplyRemoteTyped ==
    ASSUME NEW mine \in Copies, NEW changes \in Partial,
           NEW set, set = ApplyRemote(mine, changes)
    PROVE  /\ set \in Copies /\ set.props = mine.props /\ set.orig = mine.orig
           /\ \A m \in Models :
                 set.value[m] = IF changes[m] # Unset THEN changes[m] ELSE mine.value[m]
  <1>1. \A m \in Named(changes) : changes[m] \in Values
    BY DEF Named, Partial
  <1>2. /\ mine.value \in [Models -> Values]
        /\ mine = [value |-> mine.value, props |-> mine.props, orig |-> mine.orig]
    BY DEF Copies
  <1>3. set = [mine EXCEPT !.value = [m \in Models |-> IF m \in Named(changes)
                                             THEN changes[m] ELSE mine.value[m]]]
    BY DEF ApplyRemote
  <1>4. [m \in Models |-> IF m \in Named(changes) THEN changes[m] ELSE mine.value[m]]
           \in [Models -> Values]
    BY <1>1, <1>2
  <1>5. set \in Copies
    BY <1>3, <1>4 DEF Copies
  <1> QED  BY <1>2, <1>3, <1>5 DEF Named, Copies

\* New copies and change sets.
LEMMA NewTyped ==
    /\ Nothing \in Partial /\ Named(Nothing) = {}
    /\ \A values \in [Models -> Values] : NewCopy(values) \in Copies /\ values \in Partial
    /\ \A mine \in Copies : NewChangeSet(mine) \in ChangeSetRecords
  <1>1. Nothing \in Partial /\ Named(Nothing) = {}
    BY DEF Nothing, Partial, Named
  <1> QED  BY <1>1 DEF NewCopy, Copies, NewChangeSet, ChangeSetRecords, Partial
-----------------------------------------------------------------------------
\* The queue.

\* A change set that waits for a reply is the first of those that do.
LEMMA RepliedFirst ==
    ASSUME NEW sets \in Seq(ChangeSetRecords), NEW k \in DOMAIN sets, ~sets[k].stuck
    PROVE  /\ Replied(sets) \in DOMAIN sets /\ Replied(sets) <= k
           /\ ~sets[Replied(sets)].stuck
           /\ \A j \in 1..(Replied(sets) - 1) : sets[j].stuck
  <1> DEFINE I == {i \in 1..Len(sets) : ~sets[i].stuck}
  <1>1. DOMAIN sets = 1..Len(sets) /\ Len(sets) \in Nat /\ k \in I
    OBVIOUS
  <1>2. Replied(sets) = IF I # {} THEN Min(I) ELSE 0
    BY DEF Replied, SelectInSeq
  <1>3. PICK i \in I : \A j \in I : i <= j
    <2>1. I \in SUBSET Nat /\ I # {}
      BY <1>1
    <2> HIDE DEF I
    <2> QED  BY <2>1, Least
  <1>4. Replied(sets) \in I /\ \A j \in I : Replied(sets) <= j
    BY <1>1, <1>2, <1>3 DEF Min
  <1> QED  BY <1>1, <1>4

\* The change sets that wait for their reply.
Unstuck == {set \in ChangeSetRecords : ~set.stuck}
Waiting(sets) == Cardinality(Places(sets, Unstuck))

\* One is taken out of the queue,
LEMMA RemoveOne ==
    ASSUME NEW sets \in Seq(ChangeSetRecords), NEW i \in 1..Len(sets),
           NEW cut \in Seq(ChangeSetRecords), IsCut(sets, i, cut)
    PROVE  Waiting(sets) = Waiting(cut) + (IF sets[i].stuck THEN 0 ELSE 1)
  <1>1. sets[i] \in Unstuck <=> ~sets[i].stuck
    BY DEF Unstuck
  <1>2. Waiting(sets) = Waiting(cut) + (IF sets[i] \in Unstuck THEN 1 ELSE 0)
    BY PlacesCut DEF Waiting
  <1> QED  BY <1>1, <1>2

\* or replaced.
LEMMA ReplaceOne ==
    ASSUME NEW sets \in Seq(ChangeSetRecords), NEW i \in 1..Len(sets),
           NEW set \in ChangeSetRecords,
           NEW put \in Seq(ChangeSetRecords), IsPut(sets, i, set, put)
    PROVE  /\ Waiting(sets) \in Nat /\ Waiting(put) \in Nat
           /\ Waiting(put) + (IF sets[i].stuck THEN 0 ELSE 1)
                 = Waiting(sets) + (IF set.stuck THEN 0 ELSE 1)
  <1>1. (sets[i] \in Unstuck <=> ~sets[i].stuck) /\ (set \in Unstuck <=> ~set.stuck)
    BY DEF Unstuck
  <1>2. Waiting(put) + (IF sets[i] \in Unstuck THEN 1 ELSE 0)
          = Waiting(sets) + (IF set \in Unstuck THEN 1 ELSE 0)
    BY PlacesPut DEF Waiting
  <1>3. Waiting(sets) \in Nat /\ Waiting(put) \in Nat
    BY PlacesFinite DEF Waiting
  <1> QED  BY <1>1, <1>2, <1>3

\* A rebase changes what is restored, and only where there was something.
LEMMA RebaseTyped ==
    ASSUME NEW set \in ChangeSetRecords, NEW other \in ChangeSetRecords,
           NEW on, on = RebaseOn(set, other)
    PROVE  /\ on \in ChangeSetRecords /\ on.props = set.props /\ on.stuck = set.stuck
           /\ \A m \in Models :
                 on.touches[m] = IF set.touches[m] # Unset /\ other.touches[m] # Unset
                                 THEN other.touches[m] ELSE set.touches[m]
  <1>1. /\ set = [props |-> set.props, touches |-> set.touches, stuck |-> set.stuck]
        /\ set.props \in Partial /\ set.touches \in Partial /\ set.stuck \in BOOLEAN
        /\ other.touches \in Partial
    BY DEF ChangeSetRecords
  <1> DEFINE touches == [m \in Models |-> IF set.touches[m] # Unset /\ other.touches[m] # Unset
                                          THEN other.touches[m] ELSE set.touches[m]]
  <1>2. touches \in Partial
    BY <1>1 DEF Partial
  <1>3. RebaseOn(set, other) = [props |-> set.props, touches |-> touches, stuck |-> set.stuck]
    BY <1>1 DEF RebaseOn
  <1> QED  BY <1>1, <1>2, <1>3 DEF ChangeSetRecords

\* What is reverted was denied, and no later change set touches it.
LEMMA ToRevertTyped ==
    ASSUME NEW sets \in Seq(ChangeSetRecords), NEW i \in DOMAIN sets, NEW denied
    PROVE  /\ ToRevert(sets, i, denied) \in Partial
           /\ \A m \in Models : ToRevert(sets, i, denied)[m] # Unset =>
                 /\ m \in denied /\ ToRevert(sets, i, denied)[m] = sets[i].touches[m]
                 /\ \A j \in (i + 1)..Len(sets) : sets[j].touches[m] = Unset
  <1>1. sets[i] \in ChangeSetRecords
    OBVIOUS
  <1>2. sets[i].touches \in Partial
    BY <1>1 DEF ChangeSetRecords
  <1> QED  BY <1>2 DEF ToRevert, Partial

\* The queue before a change set is taken out: the next one may be rebased.
LEMMA Rebased ==
    ASSUME NEW sets \in Seq(ChangeSetRecords), NEW i \in 1..Len(sets), i < Len(sets),
           NEW next, next = [sets EXCEPT ![i + 1] = RebaseOn(sets[i + 1], sets[1])]
    PROVE  /\ next \in Seq(ChangeSetRecords)
           /\ IsPut(sets, i + 1, RebaseOn(sets[i + 1], sets[1]), next)
           /\ Waiting(next) = Waiting(sets)
  <1>1. /\ i + 1 \in 1..Len(sets) /\ 1 \in 1..Len(sets)
        /\ sets[i + 1] \in ChangeSetRecords /\ sets[1] \in ChangeSetRecords
    OBVIOUS
  <1>2. PICK on \in ChangeSetRecords : /\ on = RebaseOn(sets[i + 1], sets[1])
                                       /\ on.stuck = sets[i + 1].stuck
    BY <1>1, RebaseTyped
  <1>3. PICK k \in 1..Len(sets) : k = i + 1
    BY <1>1
  <1>4. next = [sets EXCEPT ![k] = on]
    BY <1>2, <1>3
  <1>5. next \in Seq(ChangeSetRecords) /\ IsPut(sets, k, on, next)
    BY <1>4, PutIn
  <1>6. /\ Waiting(sets) \in Nat /\ Waiting(next) \in Nat
        /\ Waiting(next) + (IF sets[k].stuck THEN 0 ELSE 1)
             = Waiting(sets) + (IF on.stuck THEN 0 ELSE 1)
    BY <1>5, ReplaceOne
  <1>7. Waiting(next) = Waiting(sets)
    BY <1>2, <1>3, <1>6
  <1> QED  BY ONLY <1>2, <1>3, <1>5, <1>7, Zenon

\* A reply is one fewer to wait for.  What stays was there.
StillThere(set, sets) ==
    \E j \in 1..Len(sets) : /\ set.props = sets[j].props
                            /\ Named(set.touches) = Named(sets[j].touches)

Taken(sets, after) ==
    /\ after \in Seq(ChangeSetRecords)
    /\ Waiting(sets) = Waiting(after) + 1
    /\ \A k \in 1..Len(after) : StillThere(after[k], sets)

\* Completed or reverted, one change set that waited is gone.
LEMMA ReplyRemoves ==
    ASSUME NEW sets \in Seq(ChangeSetRecords), NEW i \in 1..Len(sets), ~sets[i].stuck,
           NEW after, after = RemoveAt(sets, i)
    PROVE  Taken(sets, after)
  <1>1. after \in Seq(ChangeSetRecords) /\ IsCut(sets, i, after)
    BY CutOut DEF RemoveAt
  <1>2. Waiting(sets) = Waiting(after) + (IF sets[i].stuck THEN 0 ELSE 1)
    BY <1>1, RemoveOne
  <1>3. ASSUME NEW k \in 1..Len(after) PROVE StillThere(after[k], sets)
    <2>1. \E j \in 1..Len(sets) : after[k] = sets[j]
      BY <1>1 DEF IsCut
    <2> QED  BY <2>1 DEF StillThere
  <1> QED  BY <1>1, <1>2, <1>3 DEF Taken

\* Reverted in part, it stays and waits no more.
LEMMA ReplyKeeps ==
    ASSUME NEW sets \in Seq(ChangeSetRecords), NEW i \in 1..Len(sets), ~sets[i].stuck,
           NEW after, after = [sets EXCEPT ![i].stuck = TRUE]
    PROVE  Taken(sets, after)
  <1>1. sets[i] \in ChangeSetRecords
    OBVIOUS
  <1>2. PICK set \in ChangeSetRecords :
           /\ set = [sets[i] EXCEPT !.stuck = TRUE] /\ set.stuck
           /\ set.props = sets[i].props /\ set.touches = sets[i].touches
    <2> DEFINE set == [sets[i] EXCEPT !.stuck = TRUE]
    <2>1. /\ set \in ChangeSetRecords /\ set.stuck
          /\ set.props = sets[i].props /\ set.touches = sets[i].touches
      BY <1>1 DEF ChangeSetRecords
    <2> QED  BY <2>1
  <1>3. after = [sets EXCEPT ![i] = set]
    BY <1>2
  <1>4. after \in Seq(ChangeSetRecords) /\ IsPut(sets, i, set, after)
    BY <1>3, PutIn
  <1>5. /\ Waiting(sets) \in Nat /\ Waiting(after) \in Nat
        /\ Waiting(after) + (IF sets[i].stuck THEN 0 ELSE 1)
             = Waiting(sets) + (IF set.stuck THEN 0 ELSE 1)
    BY <1>4, ReplaceOne
  <1>6. Waiting(sets) = Waiting(after) + 1
    BY <1>2, <1>5
  <1>7. \A k \in 1..Len(after) : StillThere(after[k], sets)
    BY <1>2, <1>4 DEF StillThere, IsPut
  <1> QED  BY <1>4, <1>6, <1>7 DEF Taken

\* Reverted, with the next one rebased, it is gone as well.
LEMMA ReplyRebases ==
    ASSUME NEW sets \in Seq(ChangeSetRecords), NEW i \in 1..Len(sets), ~sets[i].stuck,
           i < Len(sets),
           NEW next, next = [sets EXCEPT ![i + 1] = RebaseOn(sets[i + 1], sets[1])],
           NEW after, after = RemoveAt(next, i)
    PROVE  Taken(sets, after)
  <1>1. /\ next \in Seq(ChangeSetRecords)
        /\ IsPut(sets, i + 1, RebaseOn(sets[i + 1], sets[1]), next)
        /\ Waiting(next) = Waiting(sets)
    BY Rebased
  <1>2. next[i] = sets[i] /\ i \in 1..Len(next)
    BY <1>1 DEF IsPut
  <1>3. after \in Seq(ChangeSetRecords) /\ IsCut(next, i, after)
    BY <1>1, <1>2, CutOut DEF RemoveAt
  <1>4. Waiting(next) = Waiting(after) + (IF next[i].stuck THEN 0 ELSE 1)
    BY <1>1, <1>2, <1>3, RemoveOne
  <1>5. ASSUME NEW k \in 1..Len(after) PROVE StillThere(after[k], sets)
    <2>1. PICK j \in 1..Len(sets) : after[k] = next[j]
      BY ONLY <1>1, <1>3, k \in 1..Len(after), i \in 1..Len(sets),
              sets \in Seq(ChangeSetRecords) DEF IsCut, IsPut
    <2>2. CASE j = i + 1
      <3>1. after[k] = RebaseOn(sets[j], sets[1])
        BY <1>1, <2>1, <2>2 DEF IsPut
      <3>2. PICK set \in ChangeSetRecords, first \in ChangeSetRecords :
                set = sets[j] /\ first = sets[1]
        OBVIOUS
      <3>3. PICK on : on = after[k] /\ on = RebaseOn(set, first)
        BY <3>1, <3>2
      <3>4. /\ after[k].props = set.props
            /\ \A m \in Models : after[k].touches[m]
                                   = IF set.touches[m] # Unset /\ first.touches[m] # Unset
                                     THEN first.touches[m] ELSE set.touches[m]
        BY ONLY <3>3, RebaseTyped, set \in ChangeSetRecords, first \in ChangeSetRecords
      <3>5. Named(after[k].touches) = Named(set.touches)
        BY <3>4 DEF Named
      <3> QED  BY <3>2, <3>4, <3>5 DEF StillThere
    <2>3. CASE j # i + 1
      <3>1. after[k] = sets[j]
        BY <1>1, <2>1, <2>3 DEF IsPut
      <3> QED  BY <3>1 DEF StillThere
    <2> QED  BY <2>2, <2>3
  <1> QED  BY <1>1, <1>2, <1>3, <1>4, <1>5 DEF Taken

\* Whatever is denied, a reply takes one of those that wait.
LEMMA ReplyTakes ==
    ASSUME NEW sets \in Seq(ChangeSetRecords), NEW i \in 1..Len(sets), ~sets[i].stuck, NEW denied
    PROVE  Taken(sets, AfterReply(sets, i, denied))
  <1>1. PICK next : next = [sets EXCEPT ![i + 1] = RebaseOn(sets[i + 1], sets[1])]
    OBVIOUS
  <1>2. AfterReply(sets, i, denied)
          = IF denied = {} THEN RemoveAt(sets, i)
            ELSE IF denied # Named(sets[i].props) THEN [sets EXCEPT ![i].stuck = TRUE]
            ELSE IF i < Len(sets) THEN RemoveAt(next, i) ELSE RemoveAt(sets, i)
    BY <1>1 DEF AfterReply
  <1>3. Taken(sets, RemoveAt(sets, i))
    BY ReplyRemoves
  <1>4. Taken(sets, [sets EXCEPT ![i].stuck = TRUE])
    BY ReplyKeeps
  <1>5. i < Len(sets) => Taken(sets, RemoveAt(next, i))
    BY <1>1, ReplyRebases
  <1> QED  BY ONLY <1>2, <1>3, <1>4, <1>5, Zenon
-----------------------------------------------------------------------------
\* What is on its way to a client.

\* The value m will have after the messages of s.
Latest(s, m, v) ==
    LET i == SelectLastInSeq(s, LAMBDA x : Due(x, m))
    IN  IF i = 0 THEN v ELSE s[i].props[m]

DueAt(s, m) == {i \in 1..Len(s) : Due(s[i], m)}

\* The last message due decides; without one the value stays.
LEMMA LatestIs ==
    ASSUME NEW s \in Seq(Messages), NEW m, NEW v
    PROVE  /\ DueAt(s, m) = {} => Latest(s, m, v) = v
           /\ \A i \in DueAt(s, m) : (\A j \in DueAt(s, m) : j <= i)
                                        => Latest(s, m, v) = s[i].props[m]
  <1> DEFINE I == DueAt(s, m)
  <1>0. I \subseteq 1..Len(s) /\ Len(s) \in Nat
    BY DEF DueAt
  <1>1. Latest(s, m, v) = LET i == IF I # {} THEN Max(I) ELSE 0
                          IN  IF i = 0 THEN v ELSE s[i].props[m]
    BY DEF Latest, SelectLastInSeq, DueAt
  <1> HIDE DEF I
  <1>2. ASSUME NEW i \in I, \A j \in I : j <= i PROVE Max(I) = i
    <2>1. I \subseteq Nat
      BY <1>0
    <2>2. \A j \in I : (\A k \in I : j >= k) => j = i
      BY <1>2, <2>1
    <2>3. \A k \in I : i >= k
      BY <1>2, <2>1
    <2> QED  BY <2>2, <2>3 DEF Max
  <1>3. \A i \in I : i # 0
    BY <1>0
  <1> QED  BY <1>1, <1>2, <1>3 DEF I

\* A message at the end is the last if it is due.
LEMMA LatestAppend ==
    ASSUME NEW s \in Seq(Messages), NEW x \in Messages, NEW m, NEW v,
           NEW t \in Seq(Messages), IsAppended(s, x, t)
    PROVE  Latest(t, m, v) = IF Due(x, m) THEN x.props[m] ELSE Latest(s, m, v)
  <1> DEFINE n == Len(s)
             I == DueAt(s, m)
             J == DueAt(t, m)
  <1>1. /\ n \in Nat /\ Len(t) = n + 1 /\ t[n + 1] = x
        /\ \A k \in 1..n : t[k] = s[k]
    BY DEF IsAppended
  <1> HIDE DEF n
  <1>2. J = IF Due(x, m) THEN I \cup {n + 1} ELSE I
    BY <1>1 DEF DueAt, n
  <1>3. /\ I = {} => Latest(s, m, v) = v
        /\ \A i \in I : (\A j \in I : j <= i) => Latest(s, m, v) = s[i].props[m]
    BY LatestIs DEF n
  <1>4. /\ J = {} => Latest(t, m, v) = v
        /\ \A i \in J : (\A j \in J : j <= i) => Latest(t, m, v) = t[i].props[m]
    BY LatestIs
  <1>5. I \subseteq 1..n
    BY DEF DueAt, n
  <1> HIDE DEF I, J
  <1>6. CASE Due(x, m)
    <2>1. n + 1 \in J /\ \A j \in J : j <= n + 1
      BY <1>1, <1>2, <1>5, <1>6
    <2> QED  BY <1>1, <1>4, <1>6, <2>1
  <1>7. CASE ~Due(x, m) /\ I = {}
    BY <1>2, <1>3, <1>4, <1>7
  <1>8. CASE ~Due(x, m) /\ I # {}
    <2>1. PICK i \in I : \A j \in I : j <= i
      BY <1>1, <1>5, <1>8, Greatest
    <2>2. t[i] = s[i]
      BY <1>1, <1>5
    <2> QED  BY <1>2, <1>3, <1>4, <1>8, <2>1, <2>2
  <1> QED  BY <1>6, <1>7, <1>8

\* The first message is received.
LEMMA LatestTail ==
    ASSUME NEW s \in Seq(Messages), s # <<>>, NEW m, NEW v, NEW w,
           w = IF Due(Head(s), m) THEN Head(s).props[m] ELSE v
    PROVE  Latest(Tail(s), m, w) = Latest(s, m, v)
  <1> DEFINE n == Len(s)
             I == DueAt(s, m)
  <1>0. PICK t \in Seq(Messages), h \in Messages :
           /\ t = Tail(s) /\ h = Head(s) /\ IsCut(s, 1, t) /\ n \in Nat /\ n >= 1 /\ s[1] = h
    <2>1. Tail(s) \in Seq(Messages) /\ 1 \in 1..Len(s) /\ s[1] = Head(s) /\ IsCut(s, 1, Tail(s))
      BY TailIsCut
    <2>2. n \in Nat /\ n >= 1 /\ Head(s) \in Messages
      BY <2>1
    <2> HIDE DEF n
    <2>3. PICK t, h : t = Tail(s) /\ h = Head(s)
      OBVIOUS
    <2>4. /\ t \in Seq(Messages) /\ h \in Messages /\ t = Tail(s) /\ h = Head(s)
          /\ IsCut(s, 1, t) /\ n \in Nat /\ n >= 1 /\ s[1] = h
      BY ONLY <2>1, <2>2, <2>3, Zenon
    <2> QED  BY ONLY <2>4, Zenon
  <1> DEFINE J == DueAt(t, m)
  <1>1. Len(t) = n - 1 /\ \A k \in 1..(n - 1) : t[k] = s[k + 1]
    BY <1>0 DEF IsCut
  <1>3. /\ I = {} => Latest(s, m, v) = v
        /\ \A i \in I : (\A j \in I : j <= i) => Latest(s, m, v) = s[i].props[m]
    BY LatestIs
  <1>4. /\ J = {} => Latest(t, m, w) = w
        /\ \A i \in J : (\A j \in J : j <= i) => Latest(t, m, w) = t[i].props[m]
    BY LatestIs
  <1> HIDE DEF n
  <1>5. /\ I \subseteq 1..n /\ J \subseteq 1..(n - 1)
        /\ 1 \in I <=> Due(h, m)
        /\ \A i \in 1..(n - 1) : i \in J <=> i + 1 \in I
    BY <1>0, <1>1 DEF DueAt, n
  <1> HIDE DEF I, J
  <1>6. CASE J = {}
    <2>1. \A i \in I : i = 1
      <3> SUFFICES ASSUME NEW i \in I, i # 1 PROVE FALSE
        OBVIOUS
      <3>1. i - 1 \in 1..(n - 1) /\ (i - 1) + 1 = i
        BY <1>0, <1>5
      <3> QED  BY <1>5, <1>6, <3>1
    <2>2. CASE Due(h, m)
      BY <1>0, <1>3, <1>4, <1>5, <1>6, <2>1, <2>2
    <2>3. CASE ~Due(h, m)
      BY <1>0, <1>3, <1>4, <1>5, <1>6, <2>1, <2>3
    <2> QED  BY <2>2, <2>3
  <1>7. CASE J # {}
    <2>1. n - 1 \in Nat
      BY <1>0
    <2>2. PICK i \in J : \A j \in J : j <= i
      BY <1>5, <1>7, <2>1, Greatest
    <2>3. i \in 1..(n - 1) /\ i + 1 \in I /\ t[i] = s[i + 1]
      BY <1>1, <1>5
    <2>4. ASSUME NEW j \in I PROVE j <= i + 1
      <3>1. CASE j = 1
        BY <2>3, <3>1
      <3>2. CASE j # 1
        <4>1. j - 1 \in 1..(n - 1) /\ (j - 1) + 1 = j
          BY <1>0, <1>5, <3>2
        <4>2. j - 1 \in J
          BY <1>5, <4>1
        <4> QED  BY <2>2, <2>3, <4>1, <4>2
      <3> QED  BY <3>1, <3>2
    <2> QED  BY <1>0, <1>3, <1>4, <2>2, <2>3, <2>4
  <1> QED  BY <1>6, <1>7
-----------------------------------------------------------------------------
\* The inductive invariant of what holds whoever writes and whatever is denied.

Replies == {x \in Messages : x.type = "reply"}

\* A change set waits for its reply as long as it or the reply is on its way.
Counted(sets, sent, arriving) ==
    Waiting(sets) = Len(sent) + Cardinality(Places(arriving, Replies))

\* A client sends nothing of a model that its application does not edit,
Silent(sets, sent, mine, m) ==
    /\ mine.props[m] = Unset /\ mine.orig[m] = Unset
    /\ \A i \in 1..Len(sets) : sets[i].props[m] = Unset /\ sets[i].touches[m] = Unset
    /\ \A i \in 1..Len(sent) : sent[i][m] = Unset

\* nor anything at all before the state of the scope has arrived.
Idle(sets, sent, mine) ==
    sets = <<>> /\ sent = <<>> /\ mine.props = Nothing /\ mine.orig = Nothing

\* The state is the first that arrives, and of all the models.
StateFirst(arriving, waits) ==
    \A i \in 1..Len(arriving) :
        /\ arriving[i].type = "state" <=> i = 1 /\ waits
        /\ arriving[i].type = "state" => arriving[i].props \in [Models -> Values]

Bystander(c, m) == c \notin Writers[m] \/ c \notin attached

Delivery(c) ==
    /\ Counted(queue[c], toServer[c], toClient[c])
    /\ StateFirst(toClient[c], c \notin attached)
    /\ c \notin fetched => toClient[c] = <<>>
    /\ c \in fetched /\ c \notin attached => toClient[c] # <<>>
    /\ c \notin attached => Idle(queue[c], toServer[c], copy[c])
    /\ \A m \in Models : c \notin Writers[m] => Silent(queue[c], toServer[c], copy[c], m)

Follows(c) ==
    \A m \in Models : Bystander(c, m) =>
        Latest(toClient[c], m, copy[c].value[m]) = server[m]

DeliveryInv == \A c \in Clients : Delivery(c)
FollowsInv == \A c \in fetched : Follows(c)

IInv == TypeOK /\ DeliveryInv /\ FollowsInv

\* The invariant states what the property counts.
LEMMA RepliesAreCounted ==
    ASSUME TypeOK, DeliveryInv
    PROVE  RepliesExpected
  <1> SUFFICES ASSUME NEW c \in Clients
               PROVE  Cardinality({i \in DOMAIN queue[c] : ~queue[c][i].stuck})
                        = Len(toServer[c]) + Cardinality(Answers(c))
    BY DEF RepliesExpected
  <1>1. queue[c] \in Seq(ChangeSetRecords) /\ toClient[c] \in Seq(Messages)
    BY DEF TypeOK
  <1>2. \A i \in DOMAIN queue[c] : queue[c][i] \in ChangeSetRecords
    BY <1>1
  <1>3. \A i \in DOMAIN toClient[c] : toClient[c][i] \in Messages
    BY <1>1
  <1>4. {i \in DOMAIN queue[c] : ~queue[c][i].stuck} = Places(queue[c], Unstuck)
    BY <1>2 DEF Places, Unstuck
  <1>5. Answers(c) = Places(toClient[c], Replies)
    BY <1>3 DEF Answers, Places, Replies
  <1>6. Counted(queue[c], toServer[c], toClient[c])
    BY DEF DeliveryInv, Delivery
  <1> QED  BY <1>4, <1>5, <1>6 DEF Counted, Waiting

\* A reader is a bystander of the model.
LEMMA ReadersDoFollow ==
    ASSUME TypeOK, FollowsInv
    PROVE  ReadersFollow
  <1> SUFFICES ASSUME NEW c \in fetched, NEW m \in Models, c \notin Writers[m]
               PROVE  Arriving(c, m) = server[m]
    BY DEF ReadersFollow
  <1>1. Latest(toClient[c], m, copy[c].value[m]) = server[m]
    BY DEF FollowsInv, Follows, Bystander
  <1> QED  BY <1>1 DEF Arriving, Latest
-----------------------------------------------------------------------------
\* Nothing is in an empty sequence.
LEMMA NoReplies ==
    ASSUME NEW T
    PROVE  Cardinality(Places(<<>>, T)) = 0
  <1>1. Places(<<>>, T) = {}
    BY DEF Places
  <1> QED  BY <1>1, FS_EmptySet

\* At first nothing is on its way.
LEMMA InitIInv ==
    ASSUME Init
    PROVE  IInv
  <1>0. Initial \in Values
    BY ReplicasAssumption DEF Initial
  <1>1. \A c \in Clients :
           /\ copy[c] = NewCopy([m \in Models |-> Initial])
           /\ queue[c] = <<>> /\ toServer[c] = <<>> /\ toClient[c] = <<>>
    BY DEF Init
  <1>2. NewCopy([m \in Models |-> Initial]) \in Copies
    BY <1>0, NewTyped
  <1>3. TypeOK
    BY <1>0, <1>2, ReplicasAssumption DEF Init, TypeOK
  <1>4. ASSUME NEW c \in Clients PROVE Delivery(c)
    <2>1. Counted(<<>>, <<>>, <<>>)
      <3>1. Waiting(<<>>) = 0
        BY NoReplies DEF Waiting
      <3>2. Len(<<>>) = 0
        BY EmptySeq
      <3> QED  BY <3>1, <3>2, NoReplies DEF Counted
    <2>2. StateFirst(<<>>, TRUE)
      BY EmptySeq DEF StateFirst
    <2>3. copy[c].props = Nothing /\ copy[c].orig = Nothing
      BY <1>1 DEF NewCopy
    <2>4. \A m \in Models : Silent(<<>>, <<>>, copy[c], m)
      BY <2>3, EmptySeq DEF Silent, Nothing
    <2>5. attached = {} /\ fetched = {}
      BY DEF Init
    <2>6. /\ Counted(queue[c], toServer[c], toClient[c])
          /\ StateFirst(toClient[c], c \notin attached)
      BY <1>1, <2>1, <2>2, <2>5, Zenon
    <2> QED  BY <1>1, <2>3, <2>4, <2>5, <2>6 DEF Delivery, Idle
  <1> QED  BY <1>3, <1>4 DEF IInv, DeliveryInv, FollowsInv, Init
-----------------------------------------------------------------------------
\* A step that leaves what a client has, and what is on its way to and from it.
Left(d) ==
    /\ queue'[d] = queue[d] /\ toServer'[d] = toServer[d] /\ toClient'[d] = toClient[d]
    /\ copy'[d] = copy[d]
    /\ d \in attached' <=> d \in attached
    /\ d \in fetched' <=> d \in fetched

\* Nothing changes for a client that is left as it is.
LEMMA DeliveryLeft ==
    ASSUME NEW d \in Clients, Delivery(d), Left(d)
    PROVE  Delivery(d)'
  BY DEF Delivery, Left

\* It follows the server as before if that has what it had.
LEMMA FollowsLeft ==
    ASSUME NEW d \in Clients, Follows(d), Left(d), server' = server
    PROVE  Follows(d)'
  BY DEF Follows, Left, Bystander

\* A step of a single client.
LEMMA OneClient ==
    ASSUME NEW c \in Clients, IInv, TypeOK', server' = server,
           \A d \in Clients : d # c => Left(d),
           Delivery(c)', c \in fetched' => Follows(c)'
    PROVE  IInv'
  <1>1. \A d \in Clients : Delivery(d)'
    BY DeliveryLeft DEF IInv, DeliveryInv
  <1>2. ASSUME NEW d \in fetched' PROVE Follows(d)'
    <2>1. d \in Clients
      BY DEF TypeOK
    <2>2. CASE d # c
      <3>1. Left(d) /\ d \in fetched
        BY <1>2, <2>1, <2>2 DEF Left
      <3> QED  BY <2>1, <3>1, FollowsLeft DEF IInv, FollowsInv
    <2> QED  BY <1>2, <2>2
  <1> QED  BY <1>1, <1>2 DEF IInv, DeliveryInv, FollowsInv

\* The state that a fetch sends is the first message.
LEMMA FetchIInv ==
    ASSUME IInv, NEW c \in Clients, Fetch(c)
    PROVE  IInv'
  <1>0. TypeOK /\ Delivery(c) /\ c \notin fetched /\ c \notin attached
    BY DEF IInv, DeliveryInv, Fetch, TypeOK
  <1>b. PICK s \in Seq(Messages), x \in Messages : s = toClient[c] /\ x = State(server)
    BY <1>0 DEF TypeOK, State, Messages, Partial
  <1>1. PICK t : s = toClient[c] /\ x = State(server) /\ t = Append(s, x) /\ toClient'[c] = t
    BY <1>0, <1>b DEF Fetch, TypeOK
  <1>a. s = <<>> /\ Len(s) = 0
    BY <1>0, <1>1 DEF Delivery
  <1>2. t \in Seq(Messages) /\ t # <<>> /\ IsAppended(s, x, t)
    BY <1>1, Appended
  <1>3. x.type = "state" /\ x.props = server /\ x \notin Replies
    BY <1>1 DEF State, Replies
  <1>4. toClient' = [toClient EXCEPT ![c] = t]
    BY <1>1 DEF Fetch
  <1>5. TypeOK'
    BY <1>0, <1>2, <1>4 DEF TypeOK, Fetch
  <1>6. ASSUME NEW d \in Clients, d # c PROVE Left(d)
    BY <1>0, <1>6 DEF Fetch, TypeOK, Left
  <1>7. Delivery(c)'
    <2>1. /\ queue'[c] = queue[c] /\ toServer'[c] = toServer[c] /\ copy'[c] = copy[c]
          /\ toClient'[c] = t /\ c \in fetched' /\ c \notin attached'
      BY <1>0, <1>1 DEF Fetch
    <2>2. Counted(queue[c], toServer[c], t)
      <3>1. Cardinality(Places(t, Replies)) = Cardinality(Places(s, Replies)) + 0
        BY <1>2, <1>3, PlacesAppend
      <3>2. Cardinality(Places(s, Replies)) = 0
        BY <1>a, NoReplies
      <3> QED  BY <1>0, <1>1, <3>1, <3>2 DEF Delivery, Counted
    <2>3. StateFirst(t, TRUE)
      <3>1. Len(t) = 1 /\ t[1] = x
        BY <1>a, <1>2 DEF IsAppended
      <3> QED  BY <1>0, <1>3, <3>1 DEF StateFirst, TypeOK
    <2>4. StateFirst(t, c \notin attached')
      BY <2>1, <2>3, Zenon
    <2> QED  BY <1>0, <1>2, <2>1, <2>2, <2>4 DEF Delivery
  <1>8. Follows(c)'
    <2> SUFFICES ASSUME NEW m \in Models PROVE Latest(t, m, copy'[c].value[m]) = server[m]
      BY <1>1 DEF Follows, Fetch
    <2>1. Due(x, m) /\ x.props[m] = server[m]
      BY <1>0, <1>3, ChangeSetsAssumption DEF Due, TypeOK
    <2> QED  BY <1>2, <2>1, LatestAppend
  <1> QED  BY <1>5, <1>6, <1>7, <1>8, OneClient DEF Fetch

\* Who edits a model is no bystander of it.
LEMMA EditIInv ==
    ASSUME IInv, NEW c \in Clients, NEW m \in Models, NEW v \in Values, EditModel(c, m, v)
    PROVE  IInv'
  <1>0. TypeOK /\ Delivery(c) /\ c \in attached /\ c \in Writers[m]
    BY DEF IInv, DeliveryInv, EditModel, TypeOK
  <1>1. PICK changes \in Partial : /\ changes = [Nothing EXCEPT ![m] = v]
                                   /\ \A k \in Models : k # m => changes[k] = Unset
    <2> DEFINE changes == [Nothing EXCEPT ![m] = v]
    <2>1. changes \in Partial /\ \A k \in Models : k # m => changes[k] = Unset
      BY DEF Nothing, Partial
    <2> QED  BY <2>1
  <1>2. PICK mine \in Copies, set \in Copies :
           mine = copy[c] /\ set = SetValues(mine, changes) /\ set = copy'[c]
    BY <1>0, <1>1, SetValuesTyped DEF EditModel, TypeOK
  <1>3. ASSUME NEW k \in Models, k # m
        PROVE  /\ set.value[k] = mine.value[k]
               /\ set.props[k] = mine.props[k] /\ set.orig[k] = mine.orig[k]
    <2>1. changes[k] = Unset /\ set = SetValues(mine, changes)
      BY <1>1, <1>2, <1>3
    <2> QED  BY ONLY <2>1, SetValuesAt, mine \in Copies, changes \in Partial, k \in Models
  <1>4. TypeOK'
    <2>1. copy' = [copy EXCEPT ![c] = set]
      BY <1>2 DEF EditModel
    <2>2. edits' \in 0..MaxEdits
      BY <1>0, ReplicasAssumption DEF EditModel, TypeOK
    <2> QED  BY <1>0, <2>1, <2>2 DEF TypeOK, EditModel
  <1>5. ASSUME NEW d \in Clients, d # c PROVE Left(d)
    BY <1>0, <1>5 DEF EditModel, TypeOK, Left
  <1>6. /\ queue'[c] = queue[c] /\ toServer'[c] = toServer[c] /\ toClient'[c] = toClient[c]
        /\ attached' = attached /\ fetched' = fetched /\ server' = server
    BY DEF EditModel
  <1>7. Delivery(c)'
    <2>1. ASSUME NEW k \in Models, c \notin Writers[k]
          PROVE  Silent(queue[c], toServer[c], set, k)
      <3>1. k # m
        BY <1>0, <2>1
      <3> QED  BY <1>0, <1>2, <1>3, <2>1, <3>1 DEF Delivery, Silent
    <2> QED  BY <1>0, <1>2, <1>6, <2>1 DEF Delivery
  <1>8. ASSUME c \in fetched PROVE Follows(c)'
    <2> SUFFICES ASSUME NEW k \in Models, c \notin Writers[k]
                 PROVE  Latest(toClient[c], k, set.value[k]) = server[k]
      BY <1>0, <1>2, <1>6 DEF Follows, Bystander
    <2>1. set.value[k] = copy[c].value[k]
      BY <1>0, <1>2, <1>3
    <2> QED  BY <1>8, <2>1 DEF IInv, FollowsInv, Follows, Bystander
  <1> QED  BY <1>4, <1>5, <1>6, <1>7, <1>8, OneClient

\* One more change set waits, and is on its way.
LEMMA SendIInv ==
    ASSUME IInv, NEW c \in Clients, SendChanges(c)
    PROVE  IInv'
  <1>0. TypeOK /\ Delivery(c)
    BY DEF IInv, DeliveryInv
  <1>1. PICK mine \in Copies : mine = copy[c] /\ Named(mine.props) # {}
    BY <1>0 DEF TypeOK, SendChanges
  <1>a. PICK s \in Seq(ChangeSetRecords), x \in ChangeSetRecords :
           s = queue[c] /\ x = NewChangeSet(mine)
    BY <1>0, <1>1, NewTyped DEF TypeOK
  <1>2. PICK t : s = queue[c] /\ x = NewChangeSet(mine) /\ t = Append(s, x) /\ queue'[c] = t
    BY <1>0, <1>1, <1>a DEF TypeOK, SendChanges
  <1>b. PICK out \in Seq(Partial), p \in Partial : out = toServer[c] /\ p = mine.props
    BY <1>0, <1>1 DEF TypeOK, Copies
  <1>3. PICK sent :
           /\ out = toServer[c] /\ p = mine.props /\ sent = Append(out, p)
           /\ toServer'[c] = sent
    BY <1>0, <1>1, <1>b DEF TypeOK, SendChanges
  <1>4. t \in Seq(ChangeSetRecords) /\ IsAppended(s, x, t)
    BY <1>2, Appended
  <1>5. sent \in Seq(Partial) /\ IsAppended(out, p, sent)
    BY <1>3, Appended
  <1>6. PICK cleared \in Copies :
           /\ cleared = copy'[c] /\ cleared.value = mine.value
           /\ cleared.props = Nothing /\ cleared.orig = Nothing
    <2>1. copy'[c] = NewCopy(mine.value) /\ mine.value \in [Models -> Values]
      BY <1>0, <1>1 DEF TypeOK, SendChanges, ClearFragments, Copies
    <2> QED  BY <2>1, NewTyped DEF NewCopy
  <1>7. /\ queue' = [queue EXCEPT ![c] = t] /\ toServer' = [toServer EXCEPT ![c] = sent]
        /\ copy' = [copy EXCEPT ![c] = cleared]
    BY <1>1, <1>2, <1>3, <1>6 DEF SendChanges
  <1>8. TypeOK'
    BY <1>0, <1>4, <1>5, <1>7 DEF TypeOK, SendChanges
  <1>9. ASSUME NEW d \in Clients, d # c PROVE Left(d)
    BY <1>0, <1>9 DEF SendChanges, TypeOK, Left
  <1>10. /\ queue'[c] = t /\ toServer'[c] = sent /\ copy'[c] = cleared
         /\ toClient'[c] = toClient[c]
         /\ attached' = attached /\ fetched' = fetched /\ server' = server
    BY <1>2, <1>3, <1>6 DEF SendChanges
  <1>11. c \in attached
    <2>1. mine.props # Nothing
      BY <1>1, NewTyped
    <2> QED  BY <1>0, <1>1, <2>1 DEF Delivery, Idle
  <1>12. Delivery(c)'
    <2>1. Counted(t, sent, toClient[c])
      <3>1. x \in Unstuck /\ Waiting(s) \in Nat /\ Len(out) \in Nat
        BY <1>2, PlacesFinite DEF NewChangeSet, Unstuck, Waiting
      <3>2. Waiting(t) = Waiting(s) + 1
        BY <1>4, <3>1, PlacesAppend DEF Waiting
      <3>3. Len(sent) = Len(out) + 1
        BY <1>5 DEF IsAppended
      <3>4. Counted(s, out, toClient[c])
        BY <1>0, <1>2, <1>3 DEF Delivery
      <3>5. Cardinality(Places(toClient[c], Replies)) \in Nat
        <4>1. toClient[c] \in Seq(Messages)
          BY <1>0 DEF TypeOK
        <4> QED  BY <4>1, PlacesFinite
      <3> QED  BY <3>1, <3>2, <3>3, <3>4, <3>5 DEF Counted
    <2>2. ASSUME NEW m \in Models, c \notin Writers[m]
          PROVE  Silent(t, sent, cleared, m)
      <3>1. Silent(s, out, mine, m)
        BY <1>0, <1>1, <1>2, <1>3, <2>2 DEF Delivery
      <3>2. x.props[m] = Unset /\ x.touches[m] = Unset /\ p[m] = Unset
        BY <1>2, <1>3, <3>1 DEF NewChangeSet, Silent
      <3>3. cleared.props[m] = Unset /\ cleared.orig[m] = Unset
        BY <1>6 DEF Nothing
      <3>4. \A i \in 1..Len(t) : t[i].props[m] = Unset /\ t[i].touches[m] = Unset
        BY <1>4, <3>1, <3>2 DEF Silent, IsAppended
      <3>5. \A i \in 1..Len(sent) : sent[i][m] = Unset
        BY <1>5, <3>1, <3>2 DEF Silent, IsAppended
      <3> QED  BY <3>3, <3>4, <3>5 DEF Silent
    <2> QED  BY <1>0, <1>10, <1>11, <2>1, <2>2 DEF Delivery
  <1>13. ASSUME c \in fetched PROVE Follows(c)'
    BY <1>1, <1>6, <1>10, <1>13 DEF IInv, FollowsInv, Follows, Bystander
  <1> QED  BY <1>8, <1>9, <1>10, <1>12, <1>13, OneClient
-----------------------------------------------------------------------------
\* What the server does with a change set, and what it sends to whom.
Applied(props, denied) == [m \in Models |-> IF m \in denied THEN Unset ELSE props[m]]

\* What the server applies, by name.
LEMMA Applies ==
    ASSUME TypeOK, NEW c \in Clients, NEW denied \in SUBSET Models, ServerApplies(c, denied)
    PROVE  \E props \in Partial, applied \in Partial, rest \in Seq(Partial) :
              /\ toServer[c] # <<>> /\ props = Head(toServer[c]) /\ rest = Tail(toServer[c])
              /\ props = toServer[c][1] /\ IsCut(toServer[c], 1, rest)
              /\ applied = Applied(props, denied)
              /\ denied \in Denials(Named(props))
              /\ server' = [m \in Models |-> IF applied[m] # Unset
                                             THEN applied[m] ELSE server[m]]
              /\ toServer' = [toServer EXCEPT ![c] = rest]
              /\ toClient' = [d \in Clients |->
                    CASE d = c -> Append(toClient[d], Reply(denied))
                      [] d # c /\ d \in fetched /\ denied # Named(props)
                           -> Append(toClient[d], Sync(applied))
                      [] OTHER -> toClient[d]]
  <1>1. toServer[c] \in Seq(Partial) /\ toServer[c] # <<>>
    BY DEF TypeOK, ServerApplies
  <1>2. PICK s \in Seq(Partial) : s = toServer[c] /\ s # <<>>
    BY <1>1
  <1>3. PICK props \in Partial, rest \in Seq(Partial) :
           props = Head(s) /\ rest = Tail(s) /\ props = s[1] /\ IsCut(s, 1, rest)
    <2>1. Tail(s) \in Seq(Partial) /\ s[1] = Head(s) /\ IsCut(s, 1, Tail(s))
      BY <1>2, TailIsCut
    <2>2. Head(s) \in Partial
      BY <1>2
    <2>3. PICK props, rest : props = Head(s) /\ rest = Tail(s)
      OBVIOUS
    <2> QED  BY ONLY <2>1, <2>2, <2>3, Zenon
  <1>4. PICK applied \in Partial : applied = Applied(props, denied)
    BY DEF Applied, Partial
  <1> QED  BY <1>2, <1>3, <1>4 DEF ServerApplies, Applied

\* What each client is told of it.
Tells(c, d, props, denied) ==
    /\ toClient'[d] \in Seq(Messages)
    /\ d = c => IsAppended(toClient[d], Reply(denied), toClient'[d])
    /\ d # c /\ d \in fetched /\ denied # Named(props)
          => IsAppended(toClient[d], Sync(Applied(props, denied)), toClient'[d])
    /\ d # c /\ ~(d \in fetched /\ denied # Named(props)) => toClient'[d] = toClient[d]

\* Each step of the server by what follows from it.
Served(c, props, denied, rest) ==
    /\ c \in attached /\ c \in fetched
    /\ toServer[c] \in Seq(Partial) /\ Len(toServer[c]) \in Nat \ {0}
    /\ props = toServer[c][1] /\ IsCut(toServer[c], 1, rest)
    /\ denied \in SUBSET Models /\ denied \in Denials(Named(props))
    /\ Reply(denied) \in Messages /\ Sync(Applied(props, denied)) \in Messages
    /\ server' \in [Models -> Values]
    /\ \A m \in Models : server'[m] = IF Applied(props, denied)[m] # Unset
                                      THEN Applied(props, denied)[m] ELSE server[m]
    /\ toServer' = [toServer EXCEPT ![c] = rest]
    /\ \A d \in Clients : Tells(c, d, props, denied)
    /\ UNCHANGED <<copy, queue, attached, fetched, unsettled, edits, policy>>

\* What a step of the server changes, for each client.
LEMMA ServerStep ==
    ASSUME TypeOK, DeliveryInv, NEW c \in Clients, NEW denied \in SUBSET Models,
           ServerApplies(c, denied)
    PROVE  \E props \in Partial, rest \in Seq(Partial) : Served(c, props, denied, rest)
  <1>1. PICK props \in Partial, applied \in Partial, rest \in Seq(Partial) :
              /\ toServer[c] # <<>> /\ props = Head(toServer[c]) /\ rest = Tail(toServer[c])
              /\ props = toServer[c][1] /\ IsCut(toServer[c], 1, rest)
              /\ applied = Applied(props, denied)
              /\ denied \in Denials(Named(props))
              /\ server' = [m \in Models |-> IF applied[m] # Unset
                                             THEN applied[m] ELSE server[m]]
              /\ toServer' = [toServer EXCEPT ![c] = rest]
              /\ toClient' = [d \in Clients |->
                    CASE d = c -> Append(toClient[d], Reply(denied))
                      [] d # c /\ d \in fetched /\ denied # Named(props)
                           -> Append(toClient[d], Sync(applied))
                      [] OTHER -> toClient[d]]
    BY Applies
  <1>2. PICK reply \in Messages, sync \in Messages :
           reply = Reply(denied) /\ sync = Sync(applied)
    BY DEF Reply, Sync, Messages
  <1>3. ASSUME NEW d \in Clients PROVE Tells(c, d, props, denied)
    <2>1. PICK s \in Seq(Messages) : s = toClient[d]
      BY DEF TypeOK
    <2>2. CASE d = c
      <3>1. PICK t : t = Append(s, reply) /\ t = toClient'[d]
        BY <1>1, <1>2, <2>1, <2>2
      <3>2. t \in Seq(Messages) /\ IsAppended(s, reply, t)
        BY <3>1, Appended
      <3> QED  BY <1>2, <2>1, <2>2, <3>1, <3>2 DEF Tells
    <2>3. CASE d # c /\ d \in fetched /\ denied # Named(props)
      <3>1. PICK t : t = Append(s, sync) /\ t = toClient'[d]
        BY <1>1, <1>2, <2>1, <2>3
      <3>2. t \in Seq(Messages) /\ IsAppended(s, sync, t)
        BY <3>1, Appended
      <3> QED  BY <1>1, <1>2, <2>1, <2>3, <3>1, <3>2 DEF Tells
    <2>4. CASE d # c /\ ~(d \in fetched /\ denied # Named(props))
      <3>1. toClient'[d] = s
        BY <1>1, <2>1, <2>4
      <3> QED  BY <2>1, <2>4, <3>1 DEF Tells
    <2> QED  BY <2>2, <2>3, <2>4
  <1>4. c \in attached /\ c \in fetched
    BY <1>1 DEF DeliveryInv, Delivery, Idle, TypeOK
  <1>5. toServer[c] \in Seq(Partial) /\ Len(toServer[c]) \in Nat \ {0}
    BY <1>1, EmptySeq DEF TypeOK
  <1>6. server' \in [Models -> Values]
    BY <1>1 DEF TypeOK, Partial
  <1>7. \A m \in Models : server'[m] = IF applied[m] # Unset THEN applied[m] ELSE server[m]
    BY <1>1
  <1>8. UNCHANGED <<copy, queue, attached, fetched, unsettled, edits, policy>>
    BY DEF ServerApplies
  <1> QED  BY <1>1, <1>2, <1>3, <1>4, <1>5, <1>6, <1>7, <1>8 DEF Served

\* What is told later comes after the state.
LEMMA StateStaysFirst ==
    ASSUME NEW s \in Seq(Messages), NEW t \in Seq(Messages), NEW x \in Messages,
           IsAppended(s, x, t), x.type # "state", NEW waits \in BOOLEAN,
           waits => Len(s) # 0, StateFirst(s, waits)
    PROVE  StateFirst(t, waits)
  <1>1. Len(s) \in Nat /\ Len(t) = Len(s) + 1
    BY DEF IsAppended
  <1>2. ASSUME NEW i \in 1..Len(t)
        PROVE  /\ t[i].type = "state" <=> i = 1 /\ waits
               /\ t[i].type = "state" => t[i].props \in [Models -> Values]
    <2>1. CASE i \in 1..Len(s)
      BY <2>1 DEF StateFirst, IsAppended
    <2>2. CASE i = Len(s) + 1
      BY <1>1, <2>2 DEF IsAppended
    <2> QED  BY <1>1, <2>1, <2>2
  <1> QED  BY <1>2 DEF StateFirst

\* A change set becomes a reply; who follows is told what is applied.
LEMMA ServerIInv ==
    ASSUME IInv, NEW c \in Clients, ServerTakes(c)
    PROVE  IInv'
  <1>0. TypeOK /\ DeliveryInv
    BY DEF IInv
  <1>1. PICK denied \in SUBSET Models : ServerApplies(c, denied)
    BY DEF ServerTakes
  <1>2. PICK props \in Partial, rest \in Seq(Partial) : Served(c, props, denied, rest)
    BY <1>0, <1>1, ServerStep
  <1>3. PICK reply \in Messages, sync \in Messages, applied \in {Applied(props, denied)} :
           /\ reply = Reply(denied) /\ sync = Sync(applied)
           /\ applied = Applied(props, denied)
           /\ reply.type = "reply" /\ reply \in Replies
           /\ sync.type = "sync" /\ sync \notin Replies /\ sync.props = applied
    BY <1>2 DEF Served, Reply, Sync, Replies
  <1>4. \A m \in Models : server'[m] = IF applied[m] # Unset THEN applied[m] ELSE server[m]
    BY <1>2, <1>3 DEF Served
  <1>5. TypeOK'
    <2>1. DOMAIN toClient' = Clients /\ toClient' = [d \in Clients |-> toClient'[d]]
      BY <1>1 DEF ServerApplies
    <2>2. \A d \in Clients : toClient'[d] \in Seq(Messages)
      BY <1>2 DEF Served, Tells
    <2>3. toClient' \in [Clients -> Seq(Messages)]
      BY <2>1, <2>2
    <2> QED  BY <1>0, <1>2, <2>3 DEF TypeOK, Served
  <1>6. ASSUME NEW d \in Clients PROVE Delivery(d)'
    <2>1. PICK s \in Seq(Messages), t \in Seq(Messages) :
             s = toClient[d] /\ t = toClient'[d] /\ Len(s) \in Nat
      BY <1>0, <1>5 DEF TypeOK
    <2>2. /\ queue'[d] = queue[d] /\ copy'[d] = copy[d]
          /\ attached' = attached /\ fetched' = fetched
          /\ Delivery(d)
      BY <1>0, <1>2 DEF Served, DeliveryInv
    <2>3. CASE d = c
      <3>1. IsAppended(s, reply, t) /\ t # <<>>
        <4>1. IsAppended(s, reply, t)
          BY <1>2, <1>3, <2>1, <2>3 DEF Served, Tells
        <4> QED  BY <2>1, <4>1, EmptySeq DEF IsAppended
      <3>2. PICK out \in Seq(Partial) : out = toServer[d] /\ rest = toServer'[d] /\ IsCut(out, 1, rest)
        BY <1>0, <1>2, <2>3 DEF Served, TypeOK
      <3>3. Len(out) \in Nat \ {0} /\ Len(rest) = Len(out) - 1
        BY <1>2, <2>3, <3>2 DEF Served, IsCut
      <3>4. Counted(queue[d], rest, t)
        <4>1. Cardinality(Places(t, Replies)) = Cardinality(Places(s, Replies)) + 1
          BY <1>3, <3>1, PlacesAppend
        <4>2. Cardinality(Places(s, Replies)) \in Nat
          BY PlacesFinite
        <4>3. Counted(queue[d], out, s)
          BY <2>1, <2>2, <3>2 DEF Delivery
        <4> QED  BY <3>3, <4>1, <4>2, <4>3 DEF Counted
      <3>5. StateFirst(t, d \notin attached)
        <4>1. d \in attached /\ StateFirst(s, d \notin attached)
          BY <1>2, <2>1, <2>2, <2>3 DEF Served, Delivery
        <4> QED  BY <1>3, <3>1, <4>1, StateStaysFirst
      <3>6. ASSUME NEW m \in Models, d \notin Writers[m]
            PROVE  Silent(queue[d], rest, copy[d], m)
        <4>1. Silent(queue[d], out, copy[d], m)
          BY <2>2, <3>2, <3>6 DEF Delivery
        <4>2. \A i \in 1..Len(rest) : rest[i] = out[i + 1] /\ i + 1 \in 1..Len(out)
          BY ONLY <3>2, <3>3 DEF IsCut
        <4>3. \A i \in 1..Len(rest) : rest[i][m] = Unset
          BY <4>1, <4>2 DEF Silent
        <4> QED  BY <4>1, <4>3 DEF Silent
      <3>7. d \in attached /\ d \in fetched
        BY <1>2, <2>3 DEF Served
      <3> QED  BY <2>1, <2>2, <3>2, <3>4, <3>5, <3>6, <3>7 DEF Delivery
    <2>4. CASE d # c
      <3>0. toServer'[d] = toServer[d]
        BY <1>2, <2>4 DEF Served
      <3>1. CASE d \in fetched /\ denied # Named(props)
        <4>1. IsAppended(s, sync, t) /\ t # <<>>
          <5>1. IsAppended(s, sync, t)
            BY <1>2, <1>3, <2>1, <2>4, <3>1 DEF Served, Tells
          <5> QED  BY <2>1, <5>1, EmptySeq DEF IsAppended
        <4>2. Counted(queue[d], toServer[d], t)
          <5>1. Cardinality(Places(t, Replies)) = Cardinality(Places(s, Replies)) + 0
            BY <1>3, <4>1, PlacesAppend
          <5>2. Cardinality(Places(s, Replies)) \in Nat
            BY PlacesFinite
          <5> QED  BY <2>1, <2>2, <5>1, <5>2 DEF Delivery, Counted
        <4>3. StateFirst(t, d \notin attached)
          <5>1. StateFirst(s, d \notin attached) /\ (d \notin attached => Len(s) # 0)
            BY <2>1, <2>2, <3>1, EmptySeq DEF Delivery
          <5> QED  BY <1>3, <4>1, <5>1, StateStaysFirst
        <4> QED  BY <2>1, <2>2, <3>0, <3>1, <4>1, <4>2, <4>3 DEF Delivery
      <3>2. CASE ~(d \in fetched /\ denied # Named(props))
        <4>1. toClient'[d] = toClient[d]
          BY <1>2, <2>4, <3>2 DEF Served, Tells
        <4> QED  BY <2>2, <3>0, <4>1 DEF Delivery
      <3> QED  BY <3>1, <3>2
    <2> QED  BY <2>3, <2>4
  <1>7. ASSUME NEW d \in fetched PROVE Follows(d)'
    <2>1. d \in Clients /\ attached' = attached /\ copy'[d] = copy[d]
      BY <1>0, <1>2 DEF TypeOK, Served
    <2>2. PICK s \in Seq(Messages), t \in Seq(Messages) :
             s = toClient[d] /\ t = toClient'[d]
      BY <1>0, <1>5, <2>1 DEF TypeOK
    <2> SUFFICES ASSUME NEW m \in Models, Bystander(d, m)
                 PROVE  Latest(t, m, copy[d].value[m]) = server'[m]
      BY <2>1, <2>2 DEF Follows, Bystander
    <2>3. Latest(s, m, copy[d].value[m]) = server[m]
      BY <2>2 DEF IInv, FollowsInv, Follows
    <2>4. CASE d = c
      <3>1. props[m] = Unset
        <4>1. d \notin Writers[m] /\ Delivery(d)
          BY <1>0, <1>2, <2>1, <2>4 DEF Served, Bystander, DeliveryInv
        <4>2. props = toServer[c][1] /\ 1 \in 1..Len(toServer[c])
          BY <1>2 DEF Served
        <4> QED  BY <2>4, <4>1, <4>2 DEF Delivery, Silent
      <3>2. server'[m] = server[m]
        BY <1>3, <1>4, <3>1 DEF Applied
      <3>3. IsAppended(s, reply, t) /\ ~Due(reply, m)
        BY <1>2, <1>3, <2>1, <2>2, <2>4 DEF Served, Tells, Due
      <3>4. Latest(t, m, copy[d].value[m]) = Latest(s, m, copy[d].value[m])
        BY <3>3, LatestAppend
      <3> QED  BY <2>3, <3>2, <3>4
    <2>5. CASE d # c /\ denied # Named(props)
      <3>1. IsAppended(s, sync, t) /\ (Due(sync, m) <=> applied[m] # Unset)
        BY <1>2, <1>3, <2>1, <2>2, <2>5 DEF Served, Tells, Due
      <3>2. Latest(t, m, copy[d].value[m])
              = IF Due(sync, m) THEN sync.props[m] ELSE Latest(s, m, copy[d].value[m])
        BY <3>1, LatestAppend
      <3> QED  BY <1>3, <1>4, <2>3, <3>1, <3>2
    <2>6. CASE d # c /\ denied = Named(props)
      <3>1. t = s
        BY <1>2, <2>1, <2>2, <2>6 DEF Served, Tells
      <3>2. applied[m] = Unset
        BY <1>3, <2>6 DEF Applied, Named
      <3> QED  BY <1>4, <2>3, <3>1, <3>2
    <2> QED  BY <2>4, <2>5, <2>6
  <1>8. fetched' = fetched
    BY <1>2 DEF Served
  <1> QED  BY <1>5, <1>6, <1>7, <1>8 DEF IInv, DeliveryInv, FollowsInv
-----------------------------------------------------------------------------
\* The first message x is taken, and t is left.
Takes(c, x, t) ==
    /\ x = Head(toClient[c]) /\ x = toClient[c][1]
    /\ toClient[c] \in Seq(Messages) /\ 1 \in 1..Len(toClient[c])
    /\ IsCut(toClient[c], 1, t)
    /\ toClient' = [toClient EXCEPT ![c] = t]
    /\ \A m \in Models : \A v, w :
          w = (IF Due(x, m) THEN x.props[m] ELSE v)
            => Latest(t, m, w) = Latest(toClient[c], m, v)

\* A client takes its first message.
LEMMA Taking ==
    ASSUME TypeOK, NEW c \in Clients, NEW type, Receive(c, type), Received(c)
    PROVE  \E x \in Messages, t \in Seq(Messages) : Takes(c, x, t) /\ x.type = type
  <1>1. PICK s \in Seq(Messages) : s = toClient[c] /\ s # <<>>
    BY DEF TypeOK, Receive
  <1>2. PICK x \in Messages, t \in Seq(Messages) :
           x = Head(s) /\ t = Tail(s) /\ x = s[1] /\ IsCut(s, 1, t) /\ 1 \in 1..Len(s)
    <2>1. Tail(s) \in Seq(Messages) /\ s[1] = Head(s) /\ IsCut(s, 1, Tail(s)) /\ 1 \in 1..Len(s)
      BY <1>1, TailIsCut
    <2>2. Head(s) \in Messages
      BY <1>1
    <2>3. PICK x, t : x = Head(s) /\ t = Tail(s)
      OBVIOUS
    <2> QED  BY ONLY <2>1, <2>2, <2>3, Zenon
  <1>3. ASSUME NEW m \in Models, NEW v, NEW w,
               w = IF Due(x, m) THEN x.props[m] ELSE v
        PROVE  Latest(t, m, w) = Latest(s, m, v)
    <2>1. Latest(Tail(s), m, w) = Latest(s, m, v)
      BY <1>1, <1>2, <1>3, LatestTail
    <2> QED  BY <1>2, <2>1
  <1>4. toClient' = [toClient EXCEPT ![c] = t]
    BY <1>1, <1>2 DEF Received
  <1>5. x.type = type
    BY <1>1, <1>2 DEF Receive
  <1>6. \A m \in Models : \A v, w :
           w = (IF Due(x, m) THEN x.props[m] ELSE v) => Latest(t, m, w) = Latest(s, m, v)
    BY <1>3
  <1>7. Takes(c, x, t)
    BY ONLY <1>1, <1>2, <1>4, <1>6, Zenon DEF Takes
  <1> QED  BY <1>5, <1>7

\* Once it is received, no other follows.
LEMMA StateIsGone ==
    ASSUME NEW s \in Seq(Messages), NEW t \in Seq(Messages), IsCut(s, 1, t),
           NEW waits \in BOOLEAN, StateFirst(s, waits), 1 \in 1..Len(s)
    PROVE  StateFirst(t, FALSE)
  <1>1. ASSUME NEW i \in 1..Len(t) PROVE t[i].type # "state"
    <2>1. t[i] = s[i + 1] /\ i + 1 \in 1..Len(s) /\ i + 1 # 1
      BY DEF IsCut
    <2> QED  BY <2>1 DEF StateFirst
  <1> QED  BY <1>1 DEF StateFirst

\* A state or a change of others: it is applied and sends nothing.
LEMMA RemoteIInv ==
    ASSUME IInv, NEW c \in Clients, OnScopeState(c) \/ OnScopeSync(c)
    PROVE  IInv'
  <1>0. TypeOK /\ Delivery(c)
    BY DEF IInv, DeliveryInv
  <1>1. PICK x \in Messages, t \in Seq(Messages) :
           Takes(c, x, t) /\ x.type \in {"state", "sync"} /\ c \in attached'
           /\ attached' = attached \cup {c}
    <2>1. CASE OnScopeState(c)
      <3>1. PICK x \in Messages, t \in Seq(Messages) : Takes(c, x, t) /\ x.type = "state"
        BY <1>0, <2>1, Taking DEF OnScopeState
      <3> QED  BY <2>1, <3>1 DEF OnScopeState
    <2>2. CASE OnScopeSync(c)
      <3>1. PICK x \in Messages, t \in Seq(Messages) : Takes(c, x, t) /\ x.type = "sync"
        BY <1>0, <2>2, Taking DEF OnScopeSync
      <3>2. c \in attached
        BY <1>0, <3>1 DEF Takes, Delivery, StateFirst
      <3> QED  BY <2>2, <3>1, <3>2 DEF OnScopeSync
    <2> QED  BY <2>1, <2>2
  <1>2. x.props \in Partial /\ x \notin Replies
    BY <1>1 DEF Messages, Replies
  <1>3. PICK mine \in Copies, set \in Copies :
           /\ mine = copy[c] /\ set = copy'[c] /\ copy' = [copy EXCEPT ![c] = set]
           /\ set.props = mine.props /\ set.orig = mine.orig
           /\ \A m \in Models :
                 set.value[m] = IF x.props[m] # Unset THEN x.props[m] ELSE mine.value[m]
    <2>0. PICK mine \in Copies, changes \in Partial : mine = copy[c] /\ changes = x.props
      BY <1>0, <1>2 DEF TypeOK
    <2>1. PICK set :
             /\ mine = copy[c] /\ changes = x.props /\ set = ApplyRemote(mine, changes)
             /\ set = copy'[c] /\ copy' = [copy EXCEPT ![c] = set]
      BY <1>0, <1>1, <2>0 DEF TypeOK, OnScopeState, OnScopeSync, Takes
    <2>2. /\ set \in Copies /\ set.props = mine.props /\ set.orig = mine.orig
          /\ \A m \in Models :
                set.value[m] = IF changes[m] # Unset THEN changes[m] ELSE mine.value[m]
      <3>1. set = ApplyRemote(mine, changes)
        BY <2>1
      <3> QED  BY ONLY <3>1, mine \in Copies, changes \in Partial, ApplyRemoteTyped
    <2> QED  BY <2>1, <2>2
  <1>4. /\ UNCHANGED <<queue, fetched, server, toServer, unsettled, edits, policy>>
        /\ toClient' = [toClient EXCEPT ![c] = t]
    BY <1>1 DEF OnScopeState, OnScopeSync, Takes
  <1>5. c \in fetched
    BY <1>0, <1>1, EmptySeq DEF Takes, Delivery
  <1>6. TypeOK'
    BY <1>0, <1>1, <1>3, <1>4, <1>5 DEF TypeOK
  <1>7. ASSUME NEW d \in Clients, d # c PROVE Left(d)
    BY <1>0, <1>1, <1>3, <1>4, <1>7 DEF TypeOK, Left
  <1>8. toClient'[c] = t
    BY <1>0, <1>4 DEF TypeOK
  <1>9. Delivery(c)'
    <2>1. Counted(queue[c], toServer[c], t)
      <3>1. Cardinality(Places(toClient[c], Replies)) = Cardinality(Places(t, Replies)) + 0
        BY <1>1, <1>2, PlacesCut DEF Takes
      <3>2. Cardinality(Places(t, Replies)) \in Nat
        BY PlacesFinite
      <3> QED  BY <1>0, <3>1, <3>2 DEF Delivery, Counted
    <2>2. StateFirst(t, FALSE)
      BY <1>0, <1>1, StateIsGone DEF Takes, Delivery
    <2>3. StateFirst(t, c \notin attached')
      BY <1>1, <2>2, Zenon
    <2>4. ASSUME NEW m \in Models, c \notin Writers[m]
          PROVE  Silent(queue[c], toServer[c], set, m)
      BY <1>0, <1>3, <2>4 DEF Delivery, Silent
    <2> QED  BY <1>1, <1>3, <1>4, <1>5, <1>8, <2>1, <2>3, <2>4 DEF Delivery
  <1>10. Follows(c)'
    <2> SUFFICES ASSUME NEW m \in Models, Bystander(c, m)
                 PROVE  Latest(t, m, set.value[m]) = server[m]
      BY <1>1, <1>3, <1>4, <1>8 DEF Follows, Bystander
    <2>1. Latest(toClient[c], m, mine.value[m]) = server[m]
      BY <1>3, <1>5 DEF IInv, FollowsInv, Follows
    <2>2. Due(x, m) <=> x.props[m] # Unset
      BY <1>1 DEF Due
    <2>3. set.value[m] = IF Due(x, m) THEN x.props[m] ELSE mine.value[m]
      BY <1>3, <2>2
    <2> QED  BY <1>1, <2>1, <2>3 DEF Takes
  <1> QED  BY <1>4, <1>6, <1>7, <1>9, <1>10, OneClient

\* A reply is for the first change set that waits.
Answered(c, x, t, i, changes, set, after) ==
    /\ Takes(c, x, t) /\ x.type = "reply" /\ x.denied \in SUBSET Models
    /\ c \in attached /\ c \in fetched
    /\ i = Replied(queue[c]) /\ i \in 1..Len(queue[c]) /\ ~queue[c][i].stuck
    /\ changes = ToRevert(queue[c], i, x.denied)
    /\ set = SetValues(copy[c], changes)
    /\ after = AfterReply(queue[c], i, x.denied)
    /\ copy' = [copy EXCEPT ![c] = set] /\ queue' = [queue EXCEPT ![c] = after]
    /\ UNCHANGED <<attached, fetched, server, toServer, edits, policy>>

\* What a reply changes: its change set is there.
LEMMA ReplyStep ==
    ASSUME TypeOK, NEW c \in Clients, Delivery(c), OnReply(c)
    PROVE  \E x \in Messages, t \in Seq(Messages) :
              \E i \in 1..Len(queue[c]), changes \in Partial :
              \E set \in Copies, after \in Seq(ChangeSetRecords) :
                 Answered(c, x, t, i, changes, set, after) /\ Taken(queue[c], after)
  <1>1. PICK x \in Messages, t \in Seq(Messages) : Takes(c, x, t) /\ x.type = "reply"
    BY Taking DEF OnReply
  <1>2. x \in Replies /\ x.denied \in SUBSET Models
    BY <1>1 DEF Replies, Messages
  <1>3. PICK sets \in Seq(ChangeSetRecords) : sets = queue[c] /\ Len(sets) \in Nat
    BY DEF TypeOK
  <1>4. Waiting(sets) \in Nat \ {0}
    <2>1. PICK s \in Seq(Messages) : s = toClient[c] /\ IsCut(s, 1, t) /\ s[1] = x /\ 1 \in 1..Len(s)
      BY <1>1 DEF Takes
    <2>2. Cardinality(Places(s, Replies)) = Cardinality(Places(t, Replies)) + 1
      BY <1>2, <2>1, PlacesCut
    <2>3. Cardinality(Places(t, Replies)) \in Nat
      BY PlacesFinite
    <2>4. Counted(sets, toServer[c], s) /\ Len(toServer[c]) \in Nat
      BY <1>3, <2>1 DEF Delivery, TypeOK
    <2> QED  BY <2>2, <2>3, <2>4 DEF Counted
  <1>5. PICK k \in 1..Len(sets) : ~sets[k].stuck
    <2>1. Places(sets, Unstuck) # {}
      BY <1>4, FS_EmptySet DEF Waiting
    <2> QED  BY <2>1 DEF Places, Unstuck
  <1>6. PICK i \in 1..Len(sets) : i = Replied(sets) /\ ~sets[i].stuck
    BY <1>5, RepliedFirst
  <1>7. PICK changes \in Partial : changes = ToRevert(sets, i, x.denied)
    BY ToRevertTyped
  <1>8. PICK set \in Copies : set = SetValues(copy[c], changes)
    BY SetValuesTyped DEF TypeOK
  <1>9. PICK after \in Seq(ChangeSetRecords) :
           after = AfterReply(sets, i, x.denied) /\ Taken(sets, after)
    <2>1. Taken(sets, AfterReply(sets, i, x.denied))
      BY <1>6, ReplyTakes
    <2> QED  BY <2>1 DEF Taken
  <1>10. copy' = [copy EXCEPT ![c] = set] /\ queue' = [queue EXCEPT ![c] = after]
    BY <1>1, <1>3, <1>6, <1>7, <1>8, <1>9 DEF OnReply, Takes
  <1>11. c \in attached /\ c \in fetched
    <2>1. c \in attached
      BY <1>3, <1>5 DEF Delivery, Idle
    <2> QED  BY <2>1 DEF TypeOK
  <1>12. UNCHANGED <<attached, fetched, server, toServer, edits, policy>>
    BY DEF OnReply
  <1>13. Answered(c, x, t, i, changes, set, after)
    BY ONLY <1>1, <1>2, <1>3, <1>6, <1>7, <1>8, <1>9, <1>10, <1>11, <1>12, Zenon DEF Answered
  <1> QED  BY <1>3, <1>9, <1>13

\* One change set and its reply are gone.
LEMMA ReplyIInv ==
    ASSUME IInv, NEW c \in Clients, OnReply(c)
    PROVE  IInv'
  <1>0. TypeOK /\ Delivery(c)
    BY DEF IInv, DeliveryInv
  <1>1. PICK x \in Messages, t \in Seq(Messages),
             i \in 1..Len(queue[c]), changes \in Partial,
             set \in Copies, after \in Seq(ChangeSetRecords) :
                 Answered(c, x, t, i, changes, set, after) /\ Taken(queue[c], after)
    BY <1>0, ReplyStep
  <1>2. /\ toClient' = [toClient EXCEPT ![c] = t]
        /\ copy' = [copy EXCEPT ![c] = set] /\ queue' = [queue EXCEPT ![c] = after]
        /\ UNCHANGED <<attached, fetched, server, toServer, edits, policy>>
        /\ c \in attached /\ c \in fetched
    BY <1>1 DEF Answered, Takes
  <1>3. unsettled' \subseteq Clients
    BY <1>0 DEF TypeOK, OnReply
  <1>4. TypeOK'
    BY <1>0, <1>2, <1>3 DEF TypeOK
  <1>5. ASSUME NEW d \in Clients, d # c PROVE Left(d)
    BY <1>0, <1>2, <1>5 DEF TypeOK, Left
  <1>6. toClient'[c] = t /\ copy'[c] = set /\ queue'[c] = after /\ toServer'[c] = toServer[c]
    BY <1>0, <1>2 DEF TypeOK
  <1>7. PICK sets \in Seq(ChangeSetRecords), mine \in Copies :
           sets = queue[c] /\ mine = copy[c] /\ Len(sets) \in Nat
    BY <1>0 DEF TypeOK
  \* What it reverts is of the models that its own application edits.
  <1>8. ASSUME NEW m \in Models, c \notin Writers[m]
        PROVE  /\ Silent(after, toServer[c], set, m)
               /\ set.value[m] = mine.value[m]
    <2>1. Silent(sets, toServer[c], mine, m)
      BY <1>0, <1>7, <1>8 DEF Delivery
    <2>2. PICK denied : denied = x.denied /\ changes = ToRevert(sets, i, denied)
      BY <1>1, <1>7 DEF Answered
    <2>3. changes[m] = Unset
      <3>1. changes[m] # Unset => changes[m] = sets[i].touches[m]
        BY <1>7, <2>2, ToRevertTyped
      <3> QED  BY <1>7, <2>1, <3>1 DEF Silent
    <2>4. set = SetValues(mine, changes)
      BY <1>1, <1>7 DEF Answered
    <2>5. /\ set.value[m] = mine.value[m]
          /\ set.props[m] = mine.props[m] /\ set.orig[m] = mine.orig[m]
      BY ONLY <2>3, <2>4, SetValuesAt, mine \in Copies, changes \in Partial, m \in Models
    <2>6. ASSUME NEW k \in 1..Len(after)
          PROVE  after[k].props[m] = Unset /\ after[k].touches[m] = Unset
      <3>1. PICK j \in 1..Len(sets) : /\ after[k].props = sets[j].props
                                      /\ Named(after[k].touches) = Named(sets[j].touches)
        BY <1>1, <1>7 DEF Taken, StillThere
      <3> QED  BY <2>1, <3>1 DEF Silent, Named
    <2> QED  BY <2>1, <2>5, <2>6 DEF Silent
  <1>9. Delivery(c)'
    <2>1. Counted(after, toServer[c], t)
      <3>1. x \in Replies
        BY <1>1 DEF Answered, Replies
      <3>2. Cardinality(Places(toClient[c], Replies)) = Cardinality(Places(t, Replies)) + 1
        BY <1>1, <3>1, PlacesCut DEF Answered, Takes
      <3>3. Cardinality(Places(t, Replies)) \in Nat /\ Waiting(after) \in Nat
        BY PlacesFinite DEF Waiting
      <3>4. Waiting(queue[c]) = Waiting(after) + 1
        BY <1>1 DEF Taken
      <3>5. Len(toServer[c]) \in Nat
        BY <1>0 DEF TypeOK
      <3>6. Counted(queue[c], toServer[c], toClient[c])
        BY <1>0 DEF Delivery
      <3>7. PICK a \in Nat, l \in Nat, r \in Nat :
               a = Waiting(after) /\ l = Len(toServer[c]) /\ r = Cardinality(Places(t, Replies))
        BY <3>3, <3>5
      <3>8. a + 1 = l + (r + 1)
        BY <3>2, <3>4, <3>6, <3>7, Zenon DEF Counted
      <3>9. a = l + r
        BY <3>8
      <3> QED  BY <3>7, <3>9, Zenon DEF Counted
    <2>2. StateFirst(t, FALSE)
      BY <1>0, <1>1, StateIsGone DEF Answered, Takes, Delivery
    <2>3. StateFirst(t, c \notin attached')
      BY <1>2, <2>2, Zenon
    <2> QED  BY <1>2, <1>6, <1>8, <2>1, <2>3 DEF Delivery
  <1>10. Follows(c)'
    <2> SUFFICES ASSUME NEW m \in Models, c \notin Writers[m]
                 PROVE  Latest(t, m, set.value[m]) = server[m]
      BY <1>2, <1>6 DEF Follows, Bystander
    <2>1. Latest(toClient[c], m, mine.value[m]) = server[m]
      BY <1>2, <1>7 DEF IInv, FollowsInv, Follows, Bystander
    <2>2. ~Due(x, m)
      BY <1>1 DEF Due, Answered
    <2> QED  BY <1>1, <1>8, <2>1, <2>2 DEF Answered, Takes
  <1> QED  BY <1>2, <1>4, <1>5, <1>9, <1>10, OneClient

\* Nothing changes.
LEMMA StutterIInv ==
    ASSUME IInv, UNCHANGED vars
    PROVE  IInv'
  <1>1. TypeOK'
    BY DEF IInv, TypeOK, vars
  <1>2. \A d \in Clients : Delivery(d)'
    BY DEF IInv, DeliveryInv, Delivery, vars
  <1>3. \A d \in fetched' : Follows(d)'
    BY DEF IInv, FollowsInv, Follows, Bystander, vars
  <1> QED  BY <1>1, <1>2, <1>3 DEF IInv, DeliveryInv, FollowsInv

\* Each step keeps the invariant.
LEMMA NextIInv ==
    ASSUME IInv, [Next]_vars
    PROVE  IInv'
  <1>1. CASE UNCHANGED vars
    BY <1>1, StutterIInv
  <1>2. ASSUME NEW c \in Clients, Fetch(c) PROVE IInv'
    BY <1>2, FetchIInv
  <1>3. ASSUME NEW c \in Clients, NEW m \in Models, NEW v \in Values, EditModel(c, m, v)
        PROVE  IInv'
    BY <1>3, EditIInv
  <1>4. ASSUME NEW c \in Clients, SendChanges(c) PROVE IInv'
    BY <1>4, SendIInv
  <1>5. ASSUME NEW c \in Clients, ServerTakes(c) PROVE IInv'
    BY <1>5, ServerIInv
  <1>6. ASSUME NEW c \in Clients, OnMessage(c) PROVE IInv'
    BY <1>6, RemoteIInv, ReplyIInv DEF OnMessage
  <1> QED  BY <1>1, <1>2, <1>3, <1>4, <1>5, <1>6 DEF Next
-----------------------------------------------------------------------------
\* The only writer of a model, where the server denies all or nothing.

\* For one model m: its place in the change sets of q, those of them that
\* were accepted by the replies on their way, the value v the client has, the
\* fragment p and its original o not sent yet, and the server's value.

Touching(q, m) == {i \in 1..Len(q) : q[i].touches[m] # Unset}
Accepted(q, replies, m) ==
    {i \in Touching(q, m) : i <= Len(replies) /\ replies[i].denied = {}}

\* The change sets that name m follow each other, and each continues from the
\* value of the one before.
Chained(q, m) ==
    /\ \A i, k \in Touching(q, m) : \A j \in i..k : j \in Touching(q, m)
    /\ \A i \in Touching(q, m) : i + 1 \in Touching(q, m) =>
          q[i + 1].touches[m] = q[i].props[m]

\* A fragment continues from the last of them, or from the server's value, or
\* restores that after a denial.
Gathered(q, v, p, o, value, uns, m) ==
    p # Unset =>
        /\ v = p /\ o # Unset
        /\ Touching(q, m) = {} => o = value \/ (p = value /\ uns)
        /\ Touching(q, m) # {} => Len(q) \in Touching(q, m) /\ o = q[Len(q)].props[m]

\* Without a fragment the client has the value it sent last.
AllSent(q, v, p, o, value, m) ==
    p = Unset =>
        /\ o = Unset
        /\ Touching(q, m) = {} => v = value
        /\ \A i \in Touching(q, m) :
              (\A j \in Touching(q, m) : j <= i) => v = q[i].props[m]

\* The server has the value it accepted last; if that was answered before, it
\* is what the first change set would restore, or what it would set again.
Decided(q, replies, p, value, uns, m) ==
    /\ \A i \in Accepted(q, replies, m) :
          (\A j \in Accepted(q, replies, m) : j <= i) => q[i].props[m] = value
    /\ Accepted(q, replies, m) = {} =>
          \A i \in Touching(q, m) : (\A j \in Touching(q, m) : i <= j) =>
              \/ q[i].touches[m] = value
              \/ q[i].props[m] = value /\ Touching(q, m) = {i} /\ p = Unset /\ uns

Ahead(q, replies, v, p, o, value, uns, m) ==
    /\ Chained(q, m)
    /\ Gathered(q, v, p, o, value, uns, m)
    /\ AllSent(q, v, p, o, value, m)
    /\ Decided(q, replies, p, value, uns, m)

\* The change sets of q wait for the replies on their way, and after those for
\* the ones to the change sets that are on their way to the server.
Lined(q, replies, sent) ==
    /\ \A i \in 1..Len(q) : ~q[i].stuck /\ Named(q[i].props) = Named(q[i].touches)
    /\ Len(q) = Len(replies) + Len(sent)
    /\ \A i \in 1..Len(sent) : sent[i] = q[Len(replies) + i].props
    /\ \A i \in 1..Len(replies) : replies[i].denied \in {{}, Named(q[i].props)}

\* The application sets m.
LEMMA AheadEdited ==
    ASSUME NEW q, NEW replies, NEW v, NEW p, NEW o, NEW value, NEW m, NEW set,
           Ahead(q, replies, v, p, o, value, FALSE, m), v # Unset, set # Unset,
           Touching(q, m) = {} \/ Len(q) \in Touching(q, m), Len(q) \in Nat
    PROVE  Ahead(q, replies, set, set, IF o = Unset THEN v ELSE o, value, FALSE, m)
  <1> DEFINE T == Touching(q, m)
  <1>1. /\ Chained(q, m) /\ Gathered(q, v, p, o, value, FALSE, m)
        /\ AllSent(q, v, p, o, value, m) /\ Decided(q, replies, p, value, FALSE, m)
    BY DEF Ahead
  <1>2. \A j \in T : j <= Len(q)
    BY DEF Touching
  <1>3. Gathered(q, set, set, IF o = Unset THEN v ELSE o, value, FALSE, m)
    <2>1. CASE p = Unset
      BY <1>1, <1>2, <2>1 DEF Gathered, AllSent
    <2>2. CASE p # Unset
      BY <1>1, <2>2 DEF Gathered
    <2> QED  BY <2>1, <2>2
  <1>4. AllSent(q, set, set, IF o = Unset THEN v ELSE o, value, m)
    BY DEF AllSent
  <1>5. Decided(q, replies, set, value, FALSE, m)
    BY <1>1 DEF Decided
  <1> QED  BY <1>1, <1>3, <1>4, <1>5 DEF Ahead

\* What was gathered leaves in a change set.
LEMMA AheadSent ==
    ASSUME NEW q \in Seq(ChangeSetRecords), NEW x \in ChangeSetRecords,
           NEW r \in Seq(ChangeSetRecords), IsAppended(q, x, r), NEW replies, NEW v, NEW p, NEW o,
           NEW value, NEW uns, NEW m, Ahead(q, replies, v, p, o, value, uns, m),
           x.props[m] = p, x.touches[m] = o, Len(replies) \in Nat, Len(replies) <= Len(q)
    PROVE  Ahead(r, replies, v, Unset, Unset, value, uns, m)
  <1> DEFINE n == Len(q)
             T == Touching(q, m)
             U == Touching(r, m)
  <1>1. /\ Chained(q, m) /\ Gathered(q, v, p, o, value, uns, m)
        /\ AllSent(q, v, p, o, value, m) /\ Decided(q, replies, p, value, uns, m)
    BY DEF Ahead
  <1>2. /\ n \in Nat /\ Len(r) = n + 1 /\ r[n + 1] = x /\ \A k \in 1..n : r[k] = q[k]
    BY DEF IsAppended
  <1>3. p = Unset <=> o = Unset
    BY <1>1 DEF Gathered, AllSent
  <1>4. U = IF p = Unset THEN T ELSE T \cup {n + 1}
    BY <1>2, <1>3 DEF Touching
  <1>5. T \subseteq 1..n
    BY DEF Touching
  <1>6. Accepted(r, replies, m) = Accepted(q, replies, m) /\ Accepted(q, replies, m) \subseteq T
    BY <1>2, <1>4, <1>5 DEF Accepted
  <1>7. p # Unset => T = {} \/ n \in T
    BY <1>1 DEF Gathered
  <1>8. Chained(r, m)
    <2>1. ASSUME NEW i \in U, NEW k \in U, NEW j \in i..k PROVE j \in U
      BY <1>1, <1>2, <1>4, <1>5, <1>7 DEF Chained
    <2>2. ASSUME NEW i \in U, i + 1 \in U PROVE r[i + 1].touches[m] = r[i].props[m]
      <3>1. CASE i + 1 \in T
        <4>1. i \in T
          BY <1>2, <1>4, <1>5, <3>1
        <4> QED  BY <1>1, <1>2, <1>5, <3>1, <4>1 DEF Chained
      <3>2. CASE i + 1 = n + 1 /\ p # Unset
        <4>1. i = n /\ i \in T
          BY <1>2, <1>4, <1>5, <3>2
        <4>2. o = q[n].props[m]
          BY <1>1, <3>2, <4>1 DEF Gathered
        <4> QED  BY <1>2, <1>5, <4>1, <4>2
      <3> QED  BY <1>4, <2>2, <3>1, <3>2
    <2> QED  BY <2>1, <2>2 DEF Chained
  <1>9. AllSent(r, v, Unset, Unset, value, m)
    <2>1. U = {} => v = value
      BY <1>1, <1>4 DEF AllSent
    <2>2. ASSUME NEW i \in U, \A j \in U : j <= i PROVE v = r[i].props[m]
      <3>1. CASE p = Unset
        BY <1>1, <1>2, <1>4, <1>5, <2>2, <3>1 DEF AllSent
      <3>2. CASE p # Unset
        <4>1. i = n + 1
          BY <1>2, <1>4, <1>5, <2>2, <3>2
        <4> QED  BY <1>1, <1>2, <3>2, <4>1 DEF Gathered
      <3> QED  BY <3>1, <3>2
    <2> QED  BY <2>1, <2>2 DEF AllSent
  <1>10. Decided(r, replies, Unset, value, uns, m)
    <2> DEFINE A == Accepted(q, replies, m)
    <2>1. ASSUME NEW i \in A, \A j \in A : j <= i PROVE r[i].props[m] = value
      BY <1>1, <1>2, <1>5, <1>6, <2>1 DEF Decided
    <2>2. ASSUME A = {}, NEW i \in U, \A j \in U : i <= j
          PROVE  \/ r[i].touches[m] = value
                 \/ r[i].props[m] = value /\ U = {i} /\ uns
      <3>1. CASE T = {}
        BY <1>1, <1>2, <1>4, <2>2, <3>1 DEF Gathered
      <3>2. CASE T # {}
        <4>1. i \in T /\ (\A j \in T : i <= j) /\ r[i] = q[i]
          BY <1>2, <1>4, <1>5, <2>2, <3>2
        <4> QED  BY <1>1, <1>4, <2>2, <4>1 DEF Decided
      <3> QED  BY <3>1, <3>2
    <2> QED  BY <1>6, <2>1, <2>2 DEF Decided
  <1>11. Gathered(r, v, Unset, Unset, value, uns, m)
    BY DEF Gathered
  <1> QED  BY <1>8, <1>9, <1>10, <1>11 DEF Ahead

\* The server decides on the first change set that it has not answered.
LEMMA AheadServed ==
    ASSUME NEW q \in Seq(ChangeSetRecords), NEW replies \in Seq(Messages), NEW reply \in Messages,
           NEW answered \in Seq(Messages), IsAppended(replies, reply, answered),
           NEW next, next = Len(replies) + 1, next <= Len(q),
           Named(q[next].props) = Named(q[next].touches),
           reply.denied \in {{}, Named(q[next].props)},
           NEW v, NEW p, NEW o, NEW value, NEW uns, NEW m \in Models,
           Ahead(q, replies, v, p, o, value, uns, m),
           NEW now, now = IF m \notin reply.denied /\ q[next].props[m] # Unset
                          THEN q[next].props[m] ELSE value
    PROVE  Ahead(q, answered, v, p, o, now, uns, m)
  <1> DEFINE T == Touching(q, m)
             A == Accepted(q, replies, m)
             B == Accepted(q, answered, m)
  <1>1. /\ Chained(q, m) /\ Gathered(q, v, p, o, value, uns, m)
        /\ AllSent(q, v, p, o, value, m) /\ Decided(q, replies, p, value, uns, m)
    BY DEF Ahead
  <1>2. /\ Len(replies) \in Nat /\ Len(answered) = next /\ answered[next] = reply
        /\ \A k \in 1..Len(replies) : answered[k] = replies[k]
        /\ next \in Nat /\ next \in 1..Len(q) /\ next \notin 1..Len(replies)
    BY DEF IsAppended
  <1>3. T \subseteq 1..Len(q) /\ (next \in T <=> q[next].props[m] # Unset)
    BY <1>2 DEF Touching, Named
  <1>4. A \subseteq T /\ B = IF next \in T /\ reply.denied = {} THEN A \cup {next} ELSE A
    BY <1>2, <1>3 DEF Accepted
  <1>5. next \in T => (m \notin reply.denied <=> reply.denied = {})
    BY <1>3 DEF Named
  <1>6. now = IF next \in T /\ reply.denied = {} THEN q[next].props[m] ELSE value
    BY <1>3, <1>5
  <1>7. \A i \in A : i < next
    BY <1>2, <1>3 DEF Accepted
  <1>8. CASE next \in T /\ reply.denied = {}
    <2>1. T # {} /\ B # {} /\ next \in B /\ \A j \in B : j <= next
      BY <1>2, <1>3, <1>4, <1>7, <1>8
    <2>2. \A i \in B : (\A j \in B : j <= i) => i = next
      BY <1>2, <1>3, <1>4, <1>7, <2>1
    <2>3. Decided(q, answered, p, now, uns, m)
      BY <1>6, <1>8, <2>1, <2>2 DEF Decided
    <2>4. Gathered(q, v, p, o, now, uns, m) /\ AllSent(q, v, p, o, now, m)
      BY <1>1, <2>1 DEF Gathered, AllSent
    <2> QED  BY <1>1, <2>3, <2>4 DEF Ahead
  <1>9. CASE ~(next \in T /\ reply.denied = {})
    <2>1. now = value /\ B = A
      BY <1>4, <1>6, <1>9
    <2> QED  BY <1>1, <2>1 DEF Ahead, Decided
  <1> QED  BY <1>8, <1>9

\* The first change set was accepted: it leaves.
LEMMA AheadCompleted ==
    ASSUME NEW q \in Seq(ChangeSetRecords), NEW r \in Seq(ChangeSetRecords), IsCut(q, 1, r),
           NEW replies \in Seq(Messages), NEW rest \in Seq(Messages), IsCut(replies, 1, rest),
           1 \in 1..Len(replies), 1 \in 1..Len(q), replies[1].denied = {},
           NEW v, NEW p, NEW o, NEW value, NEW uns, NEW now, NEW m,
           Ahead(q, replies, v, p, o, value, uns, m),
           uns => now \/ (Len(r) = 0 /\ p = Unset)
    PROVE  Ahead(r, rest, v, p, o, value, now, m)
  <1> DEFINE T == Touching(q, m)
             U == Touching(r, m)
             A == Accepted(q, replies, m)
             B == Accepted(r, rest, m)
             n == Len(q)
  <1>1. /\ Chained(q, m) /\ Gathered(q, v, p, o, value, uns, m)
        /\ AllSent(q, v, p, o, value, m) /\ Decided(q, replies, p, value, uns, m)
    BY DEF Ahead
  <1>2. /\ n \in Nat /\ n >= 1 /\ Len(r) = n - 1 /\ \A k \in 1..(n - 1) : r[k] = q[k + 1]
        /\ Len(replies) \in Nat /\ Len(replies) >= 1 /\ Len(rest) = Len(replies) - 1
        /\ \A k \in 1..(Len(replies) - 1) : rest[k] = replies[k + 1]
    BY DEF IsCut
  <1>3. U \subseteq 1..(n - 1) /\ T \subseteq 1..n
    BY <1>2 DEF Touching
  <1>4. \A k \in 1..(n - 1) : k \in U <=> k + 1 \in T
    BY <1>2 DEF Touching
  <1>5. B \subseteq U /\ A \subseteq T /\ (1 \in A <=> 1 \in T)
    BY <1>2 DEF Accepted
  <1>6. \A k \in 1..(n - 1) : k \in B <=> k + 1 \in A
    BY <1>2, <1>4 DEF Accepted
  <1>7. \A j \in T : j # 1 => j - 1 \in 1..(n - 1) /\ j - 1 \in U /\ (j - 1) + 1 = j
    BY <1>2, <1>3, <1>4
  <1>8. \A j \in A : j # 1 => j - 1 \in 1..(n - 1) /\ j - 1 \in B /\ (j - 1) + 1 = j
    BY <1>2, <1>3, <1>5, <1>6
  <1>9. \A k \in U : k + 1 \in T /\ r[k] = q[k + 1] /\ k \in 1..(n - 1)
    BY <1>2, <1>3, <1>4
  \* If the one that leaves is the last to name m, the server has its value.
  <1>10. ASSUME B = {}, 1 \in T PROVE q[1].props[m] = value
    <2>1. 1 \in A /\ \A j \in A : j <= 1
      BY <1>2, <1>5, <1>8, <1>10
    <2> QED  BY <1>1, <2>1 DEF Decided
  <1>11. U = {} => B = {} /\ \A j \in T : j = 1
    BY <1>5, <1>7
  <1>12. Chained(r, m)
    <2>1. ASSUME NEW i \in U, NEW k \in U, NEW j \in i..k PROVE j \in U
      <3>1. i + 1 \in T /\ k + 1 \in T /\ j + 1 \in (i + 1)..(k + 1) /\ j \in 1..(n - 1)
        BY <1>2, <1>9
      <3> QED  BY <1>1, <1>4, <3>1 DEF Chained
    <2>2. ASSUME NEW i \in U, i + 1 \in U PROVE r[i + 1].touches[m] = r[i].props[m]
      <3>1. i + 1 \in T /\ (i + 1) + 1 \in T
        BY <1>9, <2>2
      <3> QED  BY <1>1, <1>9, <2>2, <3>1 DEF Chained
    <2> QED  BY <2>1, <2>2 DEF Chained
  <1>13. Gathered(r, v, p, o, value, now, m)
    <2> SUFFICES ASSUME p # Unset
                 PROVE  /\ v = p /\ o # Unset
                        /\ U = {} => o = value \/ (p = value /\ now)
                        /\ U # {} => Len(r) \in U /\ o = r[Len(r)].props[m]
      BY DEF Gathered
    <2>1. /\ v = p /\ o # Unset
          /\ T = {} => o = value \/ (p = value /\ now)
          /\ T # {} => n \in T /\ o = q[n].props[m]
      BY <1>1 DEF Gathered
    <2>2. CASE U = {} /\ T = {}
      BY <2>1, <2>2
    <2>3. CASE U = {} /\ T # {}
      <3>1. 1 \in T /\ n = 1
        BY <1>11, <2>1, <2>3
      <3> QED  BY <1>10, <1>11, <2>1, <2>3, <3>1
    <2>4. CASE U # {}
      <3>1. T # {} /\ n # 1
        BY <1>3, <1>9, <2>4
      <3>2. n - 1 \in U /\ (n - 1) + 1 = n
        BY <1>2, <1>7, <2>1, <3>1
      <3>3. r[n - 1] = q[n]
        BY <1>9, <3>2
      <3> QED  BY <1>2, <2>1, <2>4, <3>1, <3>2, <3>3
    <2> QED  BY <2>2, <2>3, <2>4
  <1>14. AllSent(r, v, p, o, value, m)
    <2> SUFFICES ASSUME p = Unset
                 PROVE  /\ o = Unset
                        /\ U = {} => v = value
                        /\ \A i \in U : (\A j \in U : j <= i) => v = r[i].props[m]
      BY DEF AllSent
    <2>1. /\ o = Unset
          /\ T = {} => v = value
          /\ \A i \in T : (\A j \in T : j <= i) => v = q[i].props[m]
      BY <1>1 DEF AllSent
    <2>2. U = {} => v = value
      <3>1. CASE T = {}
        BY <2>1, <3>1
      <3>2. CASE U = {} /\ T # {}
        <4>1. 1 \in T /\ \A j \in T : j <= 1
          BY <1>11, <3>2
        <4> QED  BY <1>10, <1>11, <2>1, <3>2, <4>1
      <3> QED  BY <3>1, <3>2
    <2>3. ASSUME NEW i \in U, \A j \in U : j <= i PROVE v = r[i].props[m]
      <3>2. i + 1 \in T /\ r[i] = q[i + 1] /\ i \in 1..(n - 1)
        BY <1>9
      <3>1. ASSUME NEW j \in T PROVE j <= i + 1
        <4>1. CASE j = 1
          BY <3>2, <4>1
        <4>2. CASE j # 1
          BY <1>7, <2>3, <3>2, <4>2
        <4> QED  BY <4>1, <4>2
      <3> QED  BY <2>1, <3>1, <3>2
    <2> QED  BY <2>1, <2>2, <2>3
  <1>15. Decided(r, rest, p, value, now, m)
    <2>1. ASSUME NEW i \in B, \A j \in B : j <= i PROVE r[i].props[m] = value
      <3>1. i + 1 \in A /\ r[i] = q[i + 1] /\ i \in 1..(n - 1)
        BY <1>3, <1>5, <1>6, <1>9
      <3>2. ASSUME NEW j \in A PROVE j <= i + 1
        <4>1. CASE j = 1
          BY <3>1, <4>1
        <4>2. CASE j # 1
          BY <1>8, <2>1, <3>1, <4>2
        <4> QED  BY <4>1, <4>2
      <3> QED  BY <1>1, <3>1, <3>2 DEF Decided
    <2>2. ASSUME B = {}, NEW i \in U, \A j \in U : i <= j
          PROVE  \/ r[i].touches[m] = value
                 \/ r[i].props[m] = value /\ U = {i} /\ p = Unset /\ now
      <3>1. i + 1 \in T /\ r[i] = q[i + 1] /\ i \in 1..(n - 1)
        BY <1>9
      <3>2. CASE 1 \in T
        <4>1. 2 \in 1..(i + 1) /\ 1 + 1 = 2
          BY <3>1
        <4>2. 2 \in T
          BY <1>1, <3>1, <3>2, <4>1 DEF Chained
        <4>3. 1 \in U
          BY <1>7, <4>2
        <4>4. i = 1
          BY <2>2, <3>1, <4>3
        <4>5. q[2].touches[m] = q[1].props[m]
          BY <1>1, <3>2, <4>1, <4>2 DEF Chained
        <4> QED  BY <1>10, <2>2, <3>1, <3>2, <4>1, <4>4, <4>5
      <3>3. CASE 1 \notin T
        <4>1. A = {}
          BY <1>3, <1>5, <1>8, <2>2, <3>3
        <4>2. \A j \in T : i + 1 <= j
          BY <1>7, <2>2, <3>1, <3>3
        <4>3. \/ q[i + 1].touches[m] = value
              \/ q[i + 1].props[m] = value /\ T = {i + 1} /\ p = Unset /\ uns
          BY <1>1, <3>1, <4>1, <4>2 DEF Decided
        <4>4. ASSUME T = {i + 1} PROVE U = {i}
          <5>1. \A k \in U : k = i
            BY <1>9, <3>1, <4>4
          <5> QED  BY <5>1
        <4>5. Len(r) # 0
          BY <1>2, <3>1
        <4> QED  BY <3>1, <4>3, <4>4, <4>5
      <3> QED  BY <3>2, <3>3
    <2> QED  BY <2>1, <2>2 DEF Decided
  <1> QED  BY <1>12, <1>13, <1>14, <1>15 DEF Ahead

\* What is left when the first change set is reverted and the next is rebased.
Rebasing(q, r, m) ==
    /\ Len(r) = Len(q) - 1
    /\ \A k \in 1..(Len(q) - 1) :
          /\ r[k].props[m] = q[k + 1].props[m]
          /\ r[k].touches[m] = IF k = 1 /\ q[1].touches[m] # Unset /\ q[2].touches[m] # Unset
                               THEN q[1].touches[m] ELSE q[k + 1].touches[m]

\* The first change set was denied, but is not the only one that names m.
LEMMA AheadDenied ==
    ASSUME NEW q \in Seq(ChangeSetRecords), NEW r \in Seq(ChangeSetRecords),
           NEW replies \in Seq(Messages), NEW rest \in Seq(Messages), IsCut(replies, 1, rest),
           1 \in 1..Len(replies), 1 \in 1..Len(q), replies[1].denied # {},
           NEW v, NEW p, NEW o, NEW value, NEW uns, NEW m, Rebasing(q, r, m),
           Ahead(q, replies, v, p, o, value, uns, m), Touching(q, m) # {1}
    PROVE  Ahead(r, rest, v, p, o, value, TRUE, m)
  <1> DEFINE T == Touching(q, m)
             U == Touching(r, m)
             A == Accepted(q, replies, m)
             B == Accepted(r, rest, m)
             n == Len(q)
  <1>1. /\ Chained(q, m) /\ Gathered(q, v, p, o, value, uns, m)
        /\ AllSent(q, v, p, o, value, m) /\ Decided(q, replies, p, value, uns, m)
    BY DEF Ahead
  <1>2. /\ n \in Nat /\ n >= 1 /\ Len(r) = n - 1
        /\ \A k \in 1..(n - 1) :
              /\ r[k].props[m] = q[k + 1].props[m]
              /\ r[k].touches[m] = IF k = 1 /\ q[1].touches[m] # Unset /\ q[2].touches[m] # Unset
                                   THEN q[1].touches[m] ELSE q[k + 1].touches[m]
        /\ Len(replies) \in Nat /\ Len(replies) >= 1 /\ Len(rest) = Len(replies) - 1
        /\ \A k \in 1..(Len(replies) - 1) : rest[k] = replies[k + 1]
    <2>1. n \in Nat /\ n >= 1 /\ Len(replies) \in Nat /\ Len(replies) >= 1
      OBVIOUS
    <2>2. \A k \in 1..(Len(replies) - 1) : ~(k < 1)
      BY <2>1
    <2>3. Len(rest) = Len(replies) - 1 /\ \A k \in 1..(Len(replies) - 1) : rest[k] = replies[k + 1]
      BY <2>2 DEF IsCut
    <2>4. /\ Len(r) = n - 1
          /\ \A k \in 1..(n - 1) :
                /\ r[k].props[m] = q[k + 1].props[m]
                /\ r[k].touches[m] = IF k = 1 /\ q[1].touches[m] # Unset /\ q[2].touches[m] # Unset
                                     THEN q[1].touches[m] ELSE q[k + 1].touches[m]
      BY Zenon DEF Rebasing
    <2> QED  BY <2>1, <2>3, <2>4
  <1>3. U \subseteq 1..(n - 1) /\ T \subseteq 1..n
    BY <1>2 DEF Touching
  <1>4. \A k \in 1..(n - 1) : k \in U <=> k + 1 \in T
    <2> SUFFICES ASSUME NEW k \in 1..(n - 1) PROVE k \in U <=> k + 1 \in T
      OBVIOUS
    <2>1. k \in 1..Len(r) /\ k + 1 \in 1..n
      BY <1>2
    <2>2. r[k].touches[m] = IF k = 1 /\ q[1].touches[m] # Unset /\ q[2].touches[m] # Unset
                            THEN q[1].touches[m] ELSE q[k + 1].touches[m]
      BY <1>2
    <2>3. k = 1 => q[k + 1] = q[2]
      OBVIOUS
    <2>4. r[k].touches[m] # Unset <=> q[k + 1].touches[m] # Unset
      BY <2>2, <2>3, Zenon
    <2> QED  BY <2>1, <2>4 DEF Touching
  <1>5. B \subseteq U /\ A \subseteq T /\ 1 \notin A
    BY <1>2 DEF Accepted
  <1>6. \A k \in 1..(n - 1) : k \in B <=> k + 1 \in A
    BY <1>2, <1>4 DEF Accepted
  <1>7. \A j \in T : j # 1 => j - 1 \in 1..(n - 1) /\ j - 1 \in U /\ (j - 1) + 1 = j
    BY <1>2, <1>3, <1>4
  <1>8. \A j \in A : j - 1 \in 1..(n - 1) /\ j - 1 \in B /\ (j - 1) + 1 = j
    BY <1>2, <1>3, <1>5, <1>6
  <1>9. \A k \in U : k + 1 \in T /\ k \in 1..(n - 1)
    BY <1>2, <1>3, <1>4
  <1>10. 1 \in T => 2 \in T
    <2> SUFFICES ASSUME 1 \in T PROVE 2 \in T
      OBVIOUS
    <2>1. PICK j \in T : j # 1
      BY <1>3
    <2>2. 2 \in 1..j
      BY <1>3, <2>1
    <2> QED  BY <1>1, <2>1, <2>2 DEF Chained
  <1>11. T = {} <=> U = {}
    BY <1>7, <1>9, <1>10
  <1>12. \A k \in U : k # 1 \/ 1 \notin T => r[k].touches[m] = q[k + 1].touches[m]
    BY <1>2, <1>9 DEF Touching
  <1>13. 1 \in T => r[1].touches[m] = q[1].touches[m]
    <2> SUFFICES ASSUME 1 \in T PROVE r[1].touches[m] = q[1].touches[m]
      OBVIOUS
    <2>1. 1 \in 1..(n - 1) /\ q[1].touches[m] # Unset /\ q[2].touches[m] # Unset
      BY <1>2, <1>3, <1>10 DEF Touching
    <2> QED  BY <1>2, <2>1
  <1>14. Chained(r, m)
    <2>1. ASSUME NEW i \in U, NEW k \in U, NEW j \in i..k PROVE j \in U
      <3>1. i + 1 \in T /\ k + 1 \in T /\ j + 1 \in (i + 1)..(k + 1) /\ j \in 1..(n - 1)
        BY <1>2, <1>9
      <3> QED  BY <1>1, <1>4, <3>1 DEF Chained
    <2>2. ASSUME NEW i \in U, i + 1 \in U PROVE r[i + 1].touches[m] = r[i].props[m]
      <3>1. i + 1 \in T /\ (i + 1) + 1 \in T /\ i \in 1..(n - 1) /\ i + 1 # 1
        BY <1>9, <2>2
      <3>2. q[(i + 1) + 1].touches[m] = q[i + 1].props[m]
        BY <1>1, <3>1 DEF Chained
      <3>3. r[i + 1].touches[m] = q[(i + 1) + 1].touches[m]
        BY <1>12, <2>2, <3>1
      <3> QED  BY <1>2, <3>1, <3>2, <3>3
    <2> QED  BY <2>1, <2>2 DEF Chained
  <1>15. Gathered(r, v, p, o, value, TRUE, m)
    <2> SUFFICES ASSUME p # Unset
                 PROVE  /\ v = p /\ o # Unset
                        /\ U = {} => o = value \/ p = value
                        /\ U # {} => Len(r) \in U /\ o = r[Len(r)].props[m]
      BY DEF Gathered
    <2>1. /\ v = p /\ o # Unset
          /\ T = {} => o = value \/ p = value
          /\ T # {} => n \in T /\ o = q[n].props[m]
      BY <1>1 DEF Gathered
    <2>2. ASSUME U # {} PROVE Len(r) \in U /\ o = r[Len(r)].props[m]
      <3>1. n \in T /\ n # 1 /\ o = q[n].props[m]
        BY <1>3, <1>9, <1>11, <2>1, <2>2
      <3>2. n - 1 \in U /\ n - 1 \in 1..(n - 1) /\ (n - 1) + 1 = n
        BY <1>2, <1>7, <3>1
      <3>3. r[n - 1].props[m] = q[n].props[m]
        BY <1>2, <3>2
      <3> QED  BY <1>2, <3>1, <3>2, <3>3
    <2> QED  BY <1>11, <2>1, <2>2
  <1>16. AllSent(r, v, p, o, value, m)
    <2> SUFFICES ASSUME p = Unset
                 PROVE  /\ o = Unset
                        /\ U = {} => v = value
                        /\ \A i \in U : (\A j \in U : j <= i) => v = r[i].props[m]
      BY DEF AllSent
    <2>1. /\ o = Unset
          /\ T = {} => v = value
          /\ \A i \in T : (\A j \in T : j <= i) => v = q[i].props[m]
      BY <1>1 DEF AllSent
    <2>2. ASSUME NEW i \in U, \A j \in U : j <= i PROVE v = r[i].props[m]
      <3>1. i + 1 \in T /\ r[i].props[m] = q[i + 1].props[m] /\ i \in 1..(n - 1)
        BY <1>2, <1>9
      <3>2. ASSUME NEW j \in T PROVE j <= i + 1
        <4>1. CASE j = 1
          BY <3>1, <4>1
        <4>2. CASE j # 1
          BY <1>7, <2>2, <3>1, <4>2
        <4> QED  BY <4>1, <4>2
      <3> QED  BY <2>1, <3>1, <3>2
    <2> QED  BY <1>11, <2>1, <2>2
  <1>17. Decided(r, rest, p, value, TRUE, m)
    <2>1. ASSUME NEW i \in B, \A j \in B : j <= i PROVE r[i].props[m] = value
      <3>1. i + 1 \in A /\ r[i].props[m] = q[i + 1].props[m] /\ i \in 1..(n - 1)
        BY <1>2, <1>3, <1>5, <1>6
      <3>2. ASSUME NEW j \in A PROVE j <= i + 1
        BY <1>8, <2>1, <3>1
      <3> QED  BY <1>1, <3>1, <3>2 DEF Decided
    <2>2. ASSUME B = {}, NEW i \in U, \A j \in U : i <= j
          PROVE  \/ r[i].touches[m] = value
                 \/ r[i].props[m] = value /\ U = {i} /\ p = Unset
      <3>1. i + 1 \in T /\ r[i].props[m] = q[i + 1].props[m] /\ i \in 1..(n - 1)
        BY <1>2, <1>9
      <3>2. A = {}
        BY <1>8, <2>2
      <3>3. CASE 1 \in T
        <4>1. \A j \in T : 1 <= j
          BY <1>3
        <4>2. q[1].touches[m] = value
          BY <1>1, <1>10, <3>2, <3>3, <4>1 DEF Decided
        <4>3. 1 \in U
          BY <1>7, <1>10, <3>3
        <4>4. i = 1
          BY <2>2, <3>1, <4>3
        <4> QED  BY <1>13, <3>3, <4>2, <4>4
      <3>4. CASE 1 \notin T
        <4>1. \A j \in T : i + 1 <= j
          BY <1>7, <2>2, <3>1, <3>4
        <4>2. \/ q[i + 1].touches[m] = value
              \/ q[i + 1].props[m] = value /\ T = {i + 1} /\ p = Unset
          BY <1>1, <3>1, <3>2, <4>1 DEF Decided
        <4>3. ASSUME T = {i + 1} PROVE U = {i}
          <5>1. \A k \in U : k = i
            BY <1>9, <3>1, <4>3
          <5> QED  BY <5>1
        <4>4. r[i].touches[m] = q[i + 1].touches[m]
          BY <1>12, <3>4
        <4> QED  BY <3>1, <4>2, <4>3, <4>4
      <3> QED  BY <3>3, <3>4
    <2> QED  BY <2>1, <2>2 DEF Decided
  <1> QED  BY <1>14, <1>15, <1>16, <1>17 DEF Ahead

\* It was the only one: what it touched is restored.
LEMMA AheadReverted ==
    ASSUME NEW q \in Seq(ChangeSetRecords), NEW r \in Seq(ChangeSetRecords),
           NEW replies \in Seq(Messages), NEW rest, 1 \in 1..Len(q), replies[1].denied # {},
           NEW v, NEW p, NEW o, NEW value, NEW uns, NEW m, Rebasing(q, r, m),
           Ahead(q, replies, v, p, o, value, uns, m), Touching(q, m) = {1}, v # Unset
    PROVE  /\ v = q[1].touches[m] => Ahead(r, rest, v, p, o, value, TRUE, m)
           /\ v # q[1].touches[m] => Ahead(r, rest, q[1].touches[m], q[1].touches[m],
                                         IF o = Unset THEN v ELSE o, value, TRUE, m)
  <1> DEFINE t == q[1].touches[m]
  <1>1. /\ Chained(q, m) /\ Gathered(q, v, p, o, value, uns, m)
        /\ AllSent(q, v, p, o, value, m) /\ Decided(q, replies, p, value, uns, m)
    BY DEF Ahead
  <1>2. Len(q) \in Nat /\ 1 \in Touching(q, m) /\ t # Unset
    BY DEF Touching
  <1>3. Touching(r, m) = {}
    <2>1. ASSUME NEW k \in 1..(Len(q) - 1) PROVE r[k].touches[m] = Unset
      <3>1. k + 1 \in 1..Len(q) /\ k + 1 # 1
        BY <1>2
      <3>2. q[k + 1].touches[m] = Unset
        BY <3>1 DEF Touching
      <3>3. k = 1 => q[2].touches[m] = Unset
        BY <3>2
      <3> QED  BY <3>2, <3>3 DEF Rebasing
    <2> QED  BY <2>1 DEF Touching, Rebasing
  <1>4. Accepted(r, rest, m) = {} /\ Accepted(q, replies, m) = {}
    BY <1>3 DEF Accepted
  \* What it would restore is the server's value, or what it set is.
  <1>5. \/ t = value
        \/ q[1].props[m] = value /\ p = Unset /\ uns
    BY <1>1, <1>2, <1>4 DEF Decided
  <1>6. /\ p # Unset => v = p /\ o # Unset
        /\ p = Unset => o = Unset /\ v = q[1].props[m]
    BY <1>1 DEF Gathered, AllSent
  <1>7. /\ Chained(r, m)
        /\ Decided(r, rest, p, value, TRUE, m) /\ Decided(r, rest, t, value, TRUE, m)
    BY <1>3, <1>4 DEF Chained, Decided
  <1>8. ASSUME v = t PROVE Ahead(r, rest, v, p, o, value, TRUE, m)
    <2>1. Gathered(r, v, p, o, value, TRUE, m)
      BY <1>3, <1>5, <1>6, <1>8 DEF Gathered
    <2>2. AllSent(r, v, p, o, value, m)
      BY <1>3, <1>5, <1>6, <1>8 DEF AllSent
    <2> QED  BY <1>7, <1>8, <2>1, <2>2 DEF Ahead
  <1>9. ASSUME v # t PROVE Ahead(r, rest, t, t, IF o = Unset THEN v ELSE o, value, TRUE, m)
    <2>1. Gathered(r, t, t, IF o = Unset THEN v ELSE o, value, TRUE, m)
      BY <1>2, <1>3, <1>5, <1>6, <1>9 DEF Gathered
    <2>2. AllSent(r, t, t, IF o = Unset THEN v ELSE o, value, m)
      BY <1>2 DEF AllSent
    <2> QED  BY <1>7, <1>9, <2>1, <2>2 DEF Ahead
  <1> QED  BY <1>8, <1>9

\* With no denial on its way the client has the value that the server will have.
LEMMA AheadExpected ==
    ASSUME NEW q \in Seq(ChangeSetRecords), NEW replies \in Seq(Messages), NEW sent \in Seq(Partial),
           NEW v, NEW p, NEW o, NEW value, NEW uns, NEW m \in Models,
           Lined(q, replies, sent), Ahead(q, replies, v, p, o, value, uns, m),
           \A i \in 1..Len(replies) : m \notin replies[i].denied
    PROVE  /\ p # Unset => v = p
           /\ p = Unset /\ (\A i \in 1..Len(sent) : sent[i][m] = Unset) => v = value
           /\ p = Unset => \A i \in 1..Len(sent) :
                 sent[i][m] # Unset /\ (\A j \in 1..Len(sent) : sent[j][m] # Unset => j <= i)
                    => v = sent[i][m]
  <1> DEFINE T == Touching(q, m)
             A == Accepted(q, replies, m)
             n == Len(replies)
  <1>1. /\ Chained(q, m) /\ Gathered(q, v, p, o, value, uns, m)
        /\ AllSent(q, v, p, o, value, m) /\ Decided(q, replies, p, value, uns, m)
    BY DEF Ahead
  <1>2. n \in Nat /\ Len(sent) \in Nat /\ Len(q) = n + Len(sent)
    BY DEF Lined
  <1>3. \A i \in 1..Len(sent) : n + i \in 1..Len(q) /\ sent[i] = q[n + i].props
    BY <1>2 DEF Lined
  <1>4. \A i \in 1..Len(q) : i \in T <=> q[i].props[m] # Unset
    BY DEF Lined, Named, Touching
  <1>5. \A i \in T : i \in 1..Len(q) /\ (i > n => i - n \in 1..Len(sent) /\ n + (i - n) = i)
    BY <1>2 DEF Touching
  <1>6. \A i \in T : i <= n => i \in A
    <2> SUFFICES ASSUME NEW i \in T, i <= n PROVE i \in A
      OBVIOUS
    <2>1. i \in 1..n /\ m \in Named(q[i].props)
      BY <1>2, <1>4, <1>5 DEF Named
    <2>2. replies[i].denied = {}
      BY <2>1 DEF Lined
    <2> QED  BY <2>2 DEF Accepted
  <1>7. p # Unset => v = p
    BY <1>1 DEF Gathered
  <1>8. ASSUME p = Unset, \A i \in 1..Len(sent) : sent[i][m] = Unset PROVE v = value
    <2>1. CASE T = {}
      BY <1>1, <1>8, <2>1 DEF AllSent
    <2>2. CASE T # {}
      <3>1. T \in SUBSET (1..Len(q)) /\ Len(q) \in Nat
        BY <1>2 DEF Touching
      <3>2. PICK i \in T : \A j \in T : j <= i
        BY <2>2, <3>1, Greatest
      <3>3. i <= n
        <4>1. ASSUME i > n PROVE FALSE
          <5>1. i - n \in 1..Len(sent) /\ sent[i - n] = q[i].props
            BY <1>3, <1>5, <4>1
          <5> QED  BY <1>4, <1>5, <1>8, <5>1
        <4> QED  BY <1>2, <1>5, <4>1
      <3>4. i \in A /\ \A j \in A : j <= i
        BY <1>6, <3>2, <3>3 DEF Accepted
      <3>5. v = q[i].props[m]
        BY <1>1, <1>8, <3>2 DEF AllSent
      <3>6. q[i].props[m] = value
        BY <1>1, <3>4 DEF Decided
      <3> QED  BY <3>5, <3>6
    <2> QED  BY <2>1, <2>2
  <1>9. ASSUME p = Unset, NEW i \in 1..Len(sent), sent[i][m] # Unset,
               \A j \in 1..Len(sent) : sent[j][m] # Unset => j <= i
        PROVE  v = sent[i][m]
    <2>1. n + i \in T
      BY <1>3, <1>4, <1>9
    <2>2. ASSUME NEW j \in T PROVE j <= n + i
      <3>1. CASE j <= n
        BY <1>2, <1>5, <3>1
      <3>2. CASE j > n
        <4>1. j - n \in 1..Len(sent) /\ n + (j - n) = j
          BY <1>5, <3>2
        <4>2. sent[j - n] = q[j].props
          BY <1>3, <4>1
        <4>3. sent[j - n][m] # Unset
          BY <1>4, <1>5, <4>2
        <4>4. j - n <= i
          BY <1>9, <4>1, <4>3
        <4> QED  BY <1>2, <1>5, <4>4
      <3> QED  BY <1>2, <1>5, <3>1, <3>2
    <2>3. v = q[n + i].props[m]
      BY <1>1, <1>9, <2>1, <2>2 DEF AllSent
    <2> QED  BY <1>3, <2>3
  <1> QED  BY <1>7, <1>8, <1>9
-----------------------------------------------------------------------------
\* The inductive invariant of the only writers.

Others == {x \in Messages : x.type # "reply"}
Said(c) == Without(toClient[c], Others)

Strict == Patient /\ ~Returning /\ policy # "part"

\* Only the client itself changes the model.
Unheard(arriving, m, value) ==
    \A i \in 1..Len(arriving) :
        /\ arriving[i].type = "sync" => arriving[i].props[m] = Unset
        /\ arriving[i].type = "state" => arriving[i].props[m] = value

Owned(c) ==
    /\ Lined(queue[c], Said(c), toServer[c])
    /\ Named(copy[c].props) = Named(copy[c].orig)
    /\ \A m \in Models : Writers[m] = {c} =>
          /\ Unheard(toClient[c], m, server[m])
          /\ c \in attached =>
                Ahead(queue[c], Said(c), copy[c].value[m], copy[c].props[m], copy[c].orig[m],
                      server[m], c \in unsettled, m)

OwnersInv == Strict => \A c \in Clients : Owned(c)

\* Nothing changes for an owner that is left as it is.
LEMMA OwnedLeft ==
    ASSUME NEW d \in Clients, Owned(d), Left(d), server' = server,
           d \in unsettled' <=> d \in unsettled
    PROVE  Owned(d)'
  <1>1. /\ queue'[d] = queue[d] /\ toServer'[d] = toServer[d] /\ toClient'[d] = toClient[d]
        /\ copy'[d] = copy[d] /\ (d \in attached') = (d \in attached)
        /\ (d \in unsettled') = (d \in unsettled) /\ server' = server
    BY DEF Left
  <1>2. Said(d)' = Said(d)
    BY <1>1, Zenon DEF Said
  <1> QED  BY <1>1, <1>2, Zenon DEF Owned

\* A step of a single client.
LEMMA OneOwner ==
    ASSUME NEW c \in Clients, OwnersInv, server' = server, policy' = policy,
           \A d \in Clients : d # c => Left(d) /\ (d \in unsettled' <=> d \in unsettled),
           Strict => Owned(c)'
    PROVE  OwnersInv'
  <1>1. Strict' <=> Strict
    BY DEF Strict
  <1>2. ASSUME Strict, NEW d \in Clients PROVE Owned(d)'
    <2>1. Owned(d)
      BY <1>2 DEF OwnersInv
    <2> QED  BY <1>2, <2>1, OwnedLeft
  <1> QED  BY <1>1, <1>2 DEF OwnersInv

\* What a client said of the messages to it.
LEMMA SaidTyped ==
    ASSUME TypeOK, NEW c \in Clients
    PROVE  Said(c) \in Seq(Messages)
  <1>1. toClient[c] \in Seq(Messages)
    BY DEF TypeOK
  <1> QED  BY <1>1, WithoutType DEF Said

\* One more message is on its way,
LEMMA SaidMore ==
    ASSUME NEW s \in Seq(Messages), NEW t \in Seq(Messages), NEW x \in Messages,
           IsAppended(s, x, t), NEW a, a = Without(s, Others), NEW b, b = Without(t, Others)
    PROVE  /\ a \in Seq(Messages) /\ b \in Seq(Messages)
           /\ x \in Others => b = a
           /\ x \notin Others => IsAppended(a, x, b)
  <1>1. a \in Seq(Messages) /\ b \in Seq(Messages)
    BY WithoutType
  <1>2. t = Append(s, x)
    <2>1. PICK u \in Seq(Messages) : u = Append(s, x)
      <3>1. PICK u : u = Append(s, x)
        OBVIOUS
      <3>2. u \in Seq(Messages)
        BY <3>1, Appended
      <3> QED  BY <3>1, <3>2
    <2>2. IsAppended(s, x, u)
      BY <2>1, Appended
    <2>3. Len(t) = Len(u) /\ \A i \in 1..Len(t) : t[i] = u[i]
      <3>1. Len(s) \in Nat
        OBVIOUS
      <3> QED  BY <2>2, <3>1 DEF IsAppended
    <2>4. t = u
      BY <2>3, SeqEqual
    <2> QED  BY <2>1, <2>4
  <1>3. Without(Append(s, x), Others)
          = IF x \in Others THEN Without(s, Others) ELSE Append(Without(s, Others), x)
    BY WithoutAppend
  <1>4. b = IF x \in Others THEN a ELSE Append(a, x)
    BY <1>2, <1>3, Zenon
  <1> QED  BY <1>1, <1>4, Appended

\* or the first one is received.
LEMMA SaidLess ==
    ASSUME NEW s \in Seq(Messages), NEW t \in Seq(Messages), 1 \in 1..Len(s), IsCut(s, 1, t)
    PROVE  \E a \in Seq(Messages), b \in Seq(Messages) :
              /\ a = Without(s, Others) /\ b = Without(t, Others)
              /\ s[1] \in Others => b = a
              /\ s[1] \notin Others => 1 \in 1..Len(a) /\ a[1] = s[1] /\ IsCut(a, 1, b)
  <1> DEFINE x == s[1]
  <1>0. PICK a, b : a = Without(s, Others) /\ b = Without(t, Others)
    OBVIOUS
  <1>1. a \in Seq(Messages) /\ b \in Seq(Messages)
    BY <1>0, WithoutType
  <1>2. s # <<>> /\ x = Head(s) /\ x \in Messages
    OBVIOUS
  <1> HIDE DEF x
  <1>3. t = Tail(s)
    <2>1. PICK u \in Seq(Messages) : u = Tail(s) /\ IsCut(s, 1, u)
      BY <1>2, TailIsCut
    <2>2. Len(t) = Len(u) /\ \A i \in 1..Len(t) : t[i] = u[i]
      BY <2>1 DEF IsCut
    <2>3. t = u
      BY <2>2, SeqEqual
    <2> QED  BY <2>1, <2>3
  <1>4. Without(s, Others) = IF Head(s) \in Others THEN Without(Tail(s), Others)
                             ELSE <<Head(s)>> \o Without(Tail(s), Others)
    BY <1>2, WithoutHead
  <1>5. a = IF x \in Others THEN b ELSE <<x>> \o b
    BY <1>0, <1>2, <1>3, <1>4, Zenon
  <1>6. ASSUME x \notin Others PROVE 1 \in 1..Len(a) /\ a[1] = x /\ IsCut(a, 1, b)
    <2>1. a = <<x>> \o b
      BY <1>5, <1>6
    <2>2. /\ Len(b) \in Nat /\ Len(a) = 1 + Len(b) /\ a[1] = x
          /\ \A k \in 1..Len(b) : a[k + 1] = b[k]
      BY <1>1, <2>1
    <2> QED  BY <2>2 DEF IsCut
  <1> QED  BY <1>0, <1>1, <1>5, <1>6 DEF x

\* At first nothing has been written.
LEMMA InitOwners ==
    ASSUME Init
    PROVE  OwnersInv
  <1> SUFFICES ASSUME NEW c \in Clients PROVE Owned(c)
    BY DEF OwnersInv
  <1>1. /\ copy[c] = NewCopy([m \in Models |-> Initial])
        /\ queue[c] = <<>> /\ toServer[c] = <<>> /\ toClient[c] = <<>>
        /\ attached = {}
    BY DEF Init
  <1>2. Said(c) = <<>>
    BY <1>1, WithoutNone DEF Said
  <1>3. Lined(<<>>, <<>>, <<>>)
    BY EmptySeq DEF Lined
  <1>4. Named(copy[c].props) = Named(copy[c].orig)
    BY <1>1 DEF NewCopy
  <1>5. \A m \in Models : Unheard(<<>>, m, server[m])
    BY EmptySeq DEF Unheard
  <1> QED  BY <1>1, <1>2, <1>3, <1>4, <1>5 DEF Owned

\* The state has the values the server has.
LEMMA FetchOwners ==
    ASSUME IInv, OwnersInv, NEW c \in Clients, Fetch(c)
    PROVE  OwnersInv'
  <1>0. TypeOK /\ Delivery(c) /\ c \notin fetched /\ c \notin attached
    BY DEF IInv, DeliveryInv, Fetch, TypeOK
  <1>1. PICK s \in Seq(Messages), x \in Messages : s = toClient[c] /\ x = State(server)
    BY <1>0 DEF TypeOK, State, Messages, Partial
  <1>2. PICK t : t = Append(s, x) /\ toClient'[c] = t
    BY <1>0, <1>1 DEF Fetch, TypeOK
  <1>3. t \in Seq(Messages) /\ IsAppended(s, x, t)
    BY <1>2, Appended
  <1>4. x.type = "state" /\ x.props = server /\ x \in Others
    BY <1>1 DEF State, Others
  <1>5. s = <<>> /\ Len(s) = 0
    BY <1>0, <1>1 DEF Delivery
  <1>6. ASSUME NEW d \in Clients, d # c PROVE Left(d) /\ (d \in unsettled' <=> d \in unsettled)
    BY <1>0, <1>6 DEF Fetch, TypeOK, Left
  <1>7. ASSUME Strict PROVE Owned(c)'
    <2>1. /\ queue'[c] = queue[c] /\ toServer'[c] = toServer[c] /\ copy'[c] = copy[c]
          /\ c \notin attached' /\ server' = server
      BY <1>0 DEF Fetch
    <2>2. Owned(c)
      BY <1>7 DEF OwnersInv
    <2>3. Said(c)' = Said(c)
      <3>1. PICK a, b : a = Without(s, Others) /\ b = Without(t, Others)
        OBVIOUS
      <3>2. b = a
        BY <1>3, <1>4, <3>1, SaidMore
      <3> QED  BY <1>1, <1>2, <3>1, <3>2, Zenon DEF Said
    <2>4. \A m \in Models : Unheard(t, m, server[m])
      <3>1. Len(t) = 1 /\ t[1] = x
        BY <1>3, <1>5 DEF IsAppended
      <3> QED  BY <1>4, <3>1 DEF Unheard
    <2>5. /\ Lined(queue[c], Said(c), toServer[c])'
          /\ Named(copy'[c].props) = Named(copy'[c].orig)
      BY <2>1, <2>2, <2>3, Zenon DEF Owned
    <2>6. \A m \in Models : Unheard(toClient'[c], m, server'[m])
      BY <1>2, <2>1, <2>4, Zenon
    <2> QED  BY <2>1, <2>5, <2>6 DEF Owned
  <1> QED  BY <1>6, <1>7, OneOwner DEF Fetch

\* The fragments and their originals are of the same models.
LEMMA SetValuesNames ==
    ASSUME NEW mine \in Copies, NEW changes \in Partial, NEW set \in Copies,
           set = SetValues(mine, changes), Named(mine.props) = Named(mine.orig)
    PROVE  Named(set.props) = Named(set.orig)
  <1>1. ASSUME NEW m \in Models PROVE set.props[m] = Unset <=> set.orig[m] = Unset
    <2>1. mine.value[m] # Unset
      BY ChangeSetsAssumption DEF Copies
    <2>2. mine.props[m] = Unset <=> mine.orig[m] = Unset
      BY DEF Named
    <2>3. CASE changes[m] = Unset \/ mine.value[m] = changes[m]
      <3>1. set.props[m] = mine.props[m] /\ set.orig[m] = mine.orig[m]
        BY <2>3, SetValuesAt
      <3> QED  BY <2>2, <3>1
    <2>4. CASE changes[m] # Unset /\ mine.value[m] # changes[m]
      <3>1. /\ set.props[m] = changes[m]
            /\ set.orig[m] = IF mine.orig[m] = Unset THEN mine.value[m] ELSE mine.orig[m]
        BY <2>4, SetValuesAt
      <3> QED  BY <2>1, <2>4, <3>1
    <2> QED  BY <2>3, <2>4
  <1> QED  BY <1>1 DEF Named

\* A model that no change set names but the last, or that no other follows.
LEMMA NamedLastTouches ==
    ASSUME NEW c \in Clients, NEW m \in Models, TypeOK, NamedLast(c, m)
    PROVE  Touching(queue[c], m) = {} \/ Len(queue[c]) \in Touching(queue[c], m)
  <1>1. PICK q \in Seq(ChangeSetRecords) : q = queue[c] /\ DOMAIN q = 1..Len(q) /\ Len(q) \in Nat
    BY DEF TypeOK
  <1> SUFFICES ASSUME Touching(q, m) # {} PROVE Len(q) \in Touching(q, m)
    BY <1>1
  <1>2. PICK i \in 1..Len(q) : q[i].touches[m] # Unset
    BY DEF Touching
  <1>3. Last(q).touches[m] # Unset
    BY <1>1, <1>2 DEF NamedLast
  <1>4. Last(q) = q[Len(q)] /\ Len(q) \in 1..Len(q)
    BY <1>1, <1>2 DEF Last
  <1> QED  BY <1>3, <1>4 DEF Touching

\* A patient owner edits a model it has settled.
LEMMA EditOwners ==
    ASSUME IInv, OwnersInv, NEW c \in Clients, NEW m \in Models, NEW v \in Values,
           EditModel(c, m, v)
    PROVE  OwnersInv'
  <1>0. TypeOK
    BY DEF IInv
  <1>1. PICK changes \in Partial : /\ changes = [Nothing EXCEPT ![m] = v] /\ changes[m] = v
                                   /\ \A k \in Models : k # m => changes[k] = Unset
    <2> DEFINE changes == [Nothing EXCEPT ![m] = v]
    <2>1. /\ changes \in Partial /\ changes[m] = v
          /\ \A k \in Models : k # m => changes[k] = Unset
      BY DEF Nothing, Partial
    <2> QED  BY <2>1
  <1>2. PICK mine \in Copies, set \in Copies :
           mine = copy[c] /\ set = SetValues(mine, changes) /\ set = copy'[c]
    BY <1>0, <1>1, SetValuesTyped DEF EditModel, TypeOK
  <1>3. ASSUME NEW k \in Models
        PROVE  /\ k # m => /\ set.value[k] = mine.value[k] /\ set.props[k] = mine.props[k]
                           /\ set.orig[k] = mine.orig[k]
               /\ k = m => /\ set.value[k] = v /\ set.props[k] = v
                           /\ set.orig[k] = IF mine.orig[k] = Unset THEN mine.value[k]
                                            ELSE mine.orig[k]
    <2>1. k # m => changes[k] = Unset
      BY <1>1
    <2>2. k = m => changes[k] # Unset /\ mine.value[k] # changes[k]
      BY <1>1, <1>2, ChangeSetsAssumption DEF EditModel
    <2>3. /\ changes[k] = Unset \/ mine.value[k] = changes[k] =>
                 /\ set.value[k] = mine.value[k]
                 /\ set.props[k] = mine.props[k] /\ set.orig[k] = mine.orig[k]
          /\ changes[k] # Unset /\ mine.value[k] # changes[k] =>
                 /\ set.value[k] = changes[k] /\ set.props[k] = changes[k]
                 /\ set.orig[k] = IF mine.orig[k] = Unset THEN mine.value[k]
                                  ELSE mine.orig[k]
      <3>1. set = SetValues(mine, changes)
        BY <1>2
      <3> QED  BY ONLY <3>1, SetValuesAt, mine \in Copies, changes \in Partial, k \in Models
    <2>4. k = m => changes[k] = v
      BY <1>1
    <2>5. CASE k # m
      BY <2>1, <2>3, <2>5
    <2>6. CASE k = m
      BY <2>2, <2>3, <2>4, <2>6
    <2> QED  BY <2>5, <2>6
  <1>4. ASSUME NEW d \in Clients, d # c PROVE Left(d) /\ (d \in unsettled' <=> d \in unsettled)
    BY <1>0, <1>4 DEF EditModel, TypeOK, Left
  <1>5. /\ queue'[c] = queue[c] /\ toServer'[c] = toServer[c] /\ toClient'[c] = toClient[c]
        /\ (c \in attached') = (c \in attached) /\ server' = server
        /\ (c \in unsettled') = (c \in unsettled)
    BY DEF EditModel
  <1>6. ASSUME Strict PROVE Owned(c)'
    <2>1. Owned(c) /\ c \notin unsettled
      BY <1>6 DEF OwnersInv, Strict, EditModel
    <2>2. PICK q, said : q \in Seq(ChangeSetRecords) /\ q = queue[c] /\ said = Said(c)
      BY <1>0 DEF TypeOK
    <2>3. Said(c)' = said
      BY <1>5, <2>2, Zenon DEF Said
    <2>4. Named(set.props) = Named(set.orig)
      BY <1>2, <2>1, SetValuesNames DEF Owned
    <2>5. ASSUME NEW k \in Models, Writers[k] = {c}, c \in attached
          PROVE  Ahead(q, said, set.value[k], set.props[k], set.orig[k], server[k],
                       c \in unsettled, k)
      <3>1. PICK w, p, o, value, uns : /\ w = mine.value[k] /\ p = mine.props[k] /\ o = mine.orig[k]
                                       /\ value = server[k] /\ uns = (c \in unsettled)
        OBVIOUS
      <3>2. Ahead(q, said, w, p, o, value, uns, k)
        BY <1>2, <2>1, <2>2, <2>5, <3>1, Zenon DEF Owned
      <3>3. CASE k # m
        BY <1>3, <3>1, <3>2, <3>3
      <3>4. CASE k = m
        <4>1. Touching(q, m) = {} \/ Len(q) \in Touching(q, m)
          <5>1. NamedLast(c, m)
            BY <1>6, Zenon DEF Strict, EditModel
          <5> QED  BY <1>0, <2>2, <5>1, NamedLastTouches
        <4>2. uns = FALSE /\ w # Unset /\ v # Unset /\ Len(q) \in Nat
          <5>1. uns = FALSE
            <6>1. (c \in unsettled) = FALSE
              BY <2>1
            <6> QED  BY <3>1, <6>1, Zenon
          <5>2. w \in Values
            BY <3>1 DEF Copies
          <5> QED  BY <5>1, <5>2, ChangeSetsAssumption
        <4>3. Touching(q, k) = {} \/ Len(q) \in Touching(q, k)
          BY <3>4, <4>1, Zenon
        <4>0. Ahead(q, said, w, p, o, value, FALSE, k)
          BY <3>2, <4>2, Zenon
        <4>4. Ahead(q, said, v, v, IF o = Unset THEN w ELSE o, value, FALSE, k)
          BY ONLY <4>0, <4>2, <4>3, AheadEdited
        <4>5. /\ set.value[k] = v /\ set.props[k] = v
              /\ set.orig[k] = IF o = Unset THEN w ELSE o
          BY <1>3, <3>1, <3>4
        <4> QED  BY <3>1, <4>2, <4>4, <4>5, Zenon
      <3> QED  BY <3>3, <3>4
    <2>6. ASSUME NEW k \in Models, Writers[k] = {c} PROVE Unheard(toClient[c], k, server[k])
      BY <2>1, <2>6 DEF Owned
    <2>7. Lined(q, said, toServer[c])
      BY <2>1, <2>2 DEF Owned
    <2> QED  BY <1>2, <1>5, <2>2, <2>3, <2>4, <2>5, <2>6, <2>7, Zenon DEF Owned
  <1> QED  BY <1>4, <1>6, OneOwner DEF EditModel

\* One more change set waits, and is on its way.
LEMMA LinedSent ==
    ASSUME NEW q \in Seq(ChangeSetRecords), NEW r \in Seq(ChangeSetRecords),
           NEW x \in ChangeSetRecords, IsAppended(q, x, r),
           ~x.stuck, Named(x.props) = Named(x.touches), NEW replies \in Seq(Messages),
           NEW out \in Seq(Partial), NEW sent \in Seq(Partial), IsAppended(out, x.props, sent),
           Lined(q, replies, out)
    PROVE  Lined(r, replies, sent) /\ Len(replies) <= Len(q)
  <1> DEFINE n == Len(replies)
             l == Len(out)
  <1>1. /\ n \in Nat /\ l \in Nat /\ Len(q) = n + l
        /\ \A i \in 1..Len(q) : ~q[i].stuck /\ Named(q[i].props) = Named(q[i].touches)
        /\ \A i \in 1..l : out[i] = q[n + i].props
        /\ \A i \in 1..n : replies[i].denied \in {{}, Named(q[i].props)}
    BY DEF Lined
  <1>2. /\ Len(r) = (n + l) + 1 /\ r[(n + l) + 1] = x
        /\ \A k \in 1..(n + l) : r[k] = q[k]
    BY <1>1 DEF IsAppended
  <1>3. Len(sent) = l + 1 /\ sent[l + 1] = x.props /\ \A k \in 1..l : sent[k] = out[k]
    BY DEF IsAppended
  <1> HIDE DEF n, l
  <1>4. \A i \in 1..Len(r) : ~r[i].stuck /\ Named(r[i].props) = Named(r[i].touches)
    <2> SUFFICES ASSUME NEW i \in 1..Len(r)
                 PROVE  ~r[i].stuck /\ Named(r[i].props) = Named(r[i].touches)
      OBVIOUS
    <2>1. i = (n + l) + 1 \/ i \in 1..(n + l)
      BY <1>1, <1>2
    <2> QED  BY <1>1, <1>2, <2>1
  <1>5. ASSUME NEW i \in 1..(l + 1) PROVE sent[i] = r[n + i].props
    <2>1. CASE i \in 1..l
      <3>1. n + i \in 1..(n + l)
        BY <1>1, <2>1
      <3> QED  BY <1>1, <1>2, <1>3, <2>1, <3>1
    <2>2. CASE i = l + 1
      <3>1. n + i = (n + l) + 1
        BY <1>1, <2>2
      <3> QED  BY <1>2, <1>3, <2>2, <3>1
    <2> QED  BY <1>1, <2>1, <2>2
  <1>6. \A i \in 1..n : i \in 1..(n + l) /\ r[i] = q[i]
    BY <1>1, <1>2
  <1>7. Len(r) = n + (l + 1)
    BY <1>1, <1>2
  <1>8. n <= Len(q)
    BY <1>1
  <1>9. \A i \in 1..n : replies[i].denied \in {{}, Named(r[i].props)}
    BY <1>1, <1>6
  <1>10. Lined(r, replies, sent)
    BY <1>3, <1>4, <1>5, <1>7, <1>9, Zenon DEF Lined, n
  <1> QED  BY <1>8, <1>10 DEF n

\* The fragments are the last change set.
LEMMA SendOwners ==
    ASSUME IInv, OwnersInv, NEW c \in Clients, SendChanges(c)
    PROVE  OwnersInv'
  <1>0. TypeOK /\ Delivery(c)
    BY DEF IInv, DeliveryInv
  <1>1. PICK mine \in Copies, q \in Seq(ChangeSetRecords), out \in Seq(Partial) :
           /\ mine = copy[c] /\ q = queue[c] /\ out = toServer[c]
           /\ Named(mine.props) # {}
    BY <1>0 DEF TypeOK, SendChanges
  <1>2. PICK x \in ChangeSetRecords :
           /\ x = NewChangeSet(mine) /\ ~x.stuck
           /\ x.props = mine.props /\ x.touches = mine.orig /\ x.props \in Partial
    <2>1. NewChangeSet(mine) \in ChangeSetRecords /\ mine.props \in Partial
      BY NewTyped DEF Copies
    <2> QED  BY <2>1 DEF NewChangeSet
  <1>3. PICK r, sent :
           /\ r = Append(q, x) /\ r = queue'[c]
           /\ sent = Append(out, x.props) /\ sent = toServer'[c]
    BY <1>0, <1>1, <1>2 DEF TypeOK, SendChanges
  <1>4. /\ r \in Seq(ChangeSetRecords) /\ IsAppended(q, x, r)
        /\ sent \in Seq(Partial) /\ IsAppended(out, x.props, sent)
    <2>1. PICK p \in Partial : p = x.props
      BY <1>2
    <2>2. sent \in Seq(Partial) /\ IsAppended(out, p, sent)
      BY <1>3, <2>1, Appended
    <2> QED  BY <1>3, <2>1, <2>2, Appended
  <1>5. PICK cleared \in Copies :
           /\ cleared = copy'[c] /\ cleared.value = mine.value
           /\ cleared.props = Nothing /\ cleared.orig = Nothing
    <2>1. copy'[c] = NewCopy(mine.value) /\ mine.value \in [Models -> Values]
      BY <1>0, <1>1 DEF TypeOK, SendChanges, ClearFragments, Copies
    <2> QED  BY <2>1, NewTyped DEF NewCopy
  <1>6. ASSUME NEW d \in Clients, d # c PROVE Left(d) /\ (d \in unsettled' <=> d \in unsettled)
    BY <1>0, <1>6 DEF SendChanges, TypeOK, Left
  <1>7. /\ toClient'[c] = toClient[c] /\ (c \in attached') = (c \in attached)
        /\ server' = server /\ (c \in unsettled') = (c \in unsettled)
    BY DEF SendChanges
  <1>8. ASSUME Strict PROVE Owned(c)'
    <2>1. Owned(c)
      BY <1>8 DEF OwnersInv
    <2>2. PICK said \in Seq(Messages) : said = Said(c)
      BY <1>0, SaidTyped
    <2>3. Said(c)' = said
      BY <1>7, <2>2, Zenon DEF Said
    <2>4. Named(x.props) = Named(x.touches) /\ Lined(q, said, out)
      BY <1>1, <1>2, <2>1, <2>2, Zenon DEF Owned
    <2>5. Lined(r, said, sent) /\ Len(said) <= Len(q)
      BY <1>2, <1>4, <2>4, LinedSent
    <2>6. ASSUME NEW m \in Models, Writers[m] = {c}, c \in attached
          PROVE  Ahead(r, said, cleared.value[m], cleared.props[m], cleared.orig[m], server[m],
                       c \in unsettled, m)
      <3>1. PICK v, p, o, value, uns : /\ v = mine.value[m] /\ p = mine.props[m] /\ o = mine.orig[m]
                                       /\ value = server[m] /\ uns = (c \in unsettled)
        OBVIOUS
      <3>2. Ahead(q, said, v, p, o, value, uns, m)
        BY <1>1, <2>1, <2>2, <2>6, <3>1, Zenon DEF Owned
      <3>3. x.props[m] = p /\ x.touches[m] = o
        BY <1>2, <3>1
      <3>4. Len(said) \in Nat
        OBVIOUS
      <3>5. Ahead(r, said, v, Unset, Unset, value, uns, m)
        BY <1>4, <2>5, <3>2, <3>3, <3>4, AheadSent
      <3>6. cleared.value[m] = v /\ cleared.props[m] = Unset /\ cleared.orig[m] = Unset
        BY <1>5, <3>1 DEF Nothing
      <3> QED  BY <3>1, <3>5, <3>6, Zenon
    <2>7. ASSUME NEW m \in Models, Writers[m] = {c} PROVE Unheard(toClient[c], m, server[m])
      BY <2>1, <2>7 DEF Owned
    <2>8. Named(cleared.props) = Named(cleared.orig)
      BY <1>5
    <2> QED  BY <1>3, <1>5, <1>7, <2>3, <2>5, <2>6, <2>7, <2>8, Zenon DEF Owned
  <1> QED  BY <1>6, <1>8, OneOwner DEF SendChanges

\* The server answers the first of those on their way, which is the first that
\* no reply on its way is for.
LEMMA LinedServed ==
    ASSUME NEW q \in Seq(ChangeSetRecords), NEW replies \in Seq(Messages), NEW reply \in Messages,
           NEW answered \in Seq(Messages), IsAppended(replies, reply, answered),
           NEW out \in Seq(Partial), NEW rest \in Seq(Partial), 1 \in 1..Len(out), IsCut(out, 1, rest),
           reply.denied \in {{}, Named(out[1])}, Lined(q, replies, out)
    PROVE  /\ Lined(q, answered, rest)
           /\ Len(replies) + 1 <= Len(q) /\ q[Len(replies) + 1].props = out[1]
           /\ Named(q[Len(replies) + 1].props) = Named(q[Len(replies) + 1].touches)
  <1> DEFINE n == Len(replies)
             l == Len(out)
  <1>1. /\ n \in Nat /\ l \in Nat /\ l >= 1 /\ Len(q) = n + l
        /\ \A i \in 1..Len(q) : ~q[i].stuck /\ Named(q[i].props) = Named(q[i].touches)
        /\ \A i \in 1..l : out[i] = q[n + i].props
        /\ \A i \in 1..n : replies[i].denied \in {{}, Named(q[i].props)}
    BY DEF Lined
  <1>2. /\ Len(answered) = n + 1 /\ answered[n + 1] = reply
        /\ \A k \in 1..n : answered[k] = replies[k]
    BY DEF IsAppended
  <1>3. Len(rest) = l - 1 /\ \A k \in 1..(l - 1) : rest[k] = out[k + 1]
    BY <1>1 DEF IsCut
  <1>4. reply.denied \in {{}, Named(q[n + 1].props)} /\ out[1] = q[n + 1].props
    BY <1>1
  <1> HIDE DEF n, l
  <1>5. ASSUME NEW i \in 1..(l - 1) PROVE rest[i] = q[(n + 1) + i].props
    <2>1. i + 1 \in 1..l /\ n + (i + 1) = (n + 1) + i
      BY <1>1
    <2>2. rest[i] = out[i + 1] /\ out[i + 1] = q[n + (i + 1)].props
      BY <1>1, <1>3, <2>1
    <2> QED  BY <2>1, <2>2
  <1>6. ASSUME NEW i \in 1..(n + 1) PROVE answered[i].denied \in {{}, Named(q[i].props)}
    <2>1. i \in 1..n \/ i = n + 1
      BY <1>1
    <2> QED  BY <1>1, <1>2, <1>4, <2>1
  <1>7. Len(q) = (n + 1) + (l - 1) /\ n + 1 <= Len(q) /\ n + 1 \in 1..Len(q)
    BY <1>1
  <1>8. Lined(q, answered, rest)
    BY <1>1, <1>2, <1>3, <1>5, <1>6, <1>7, Zenon DEF Lined
  <1> QED  BY <1>1, <1>4, <1>7, <1>8 DEF n

\* One more message leaves what the client hears of the model.
LEMMA UnheardMore ==
    ASSUME NEW s \in Seq(Messages), NEW t \in Seq(Messages), NEW x, IsAppended(s, x, t),
           NEW m, NEW value, NEW now, Unheard(s, m, value), x.type # "state",
           x.type = "sync" => x.props[m] = Unset,
           value = now \/ (\A i \in 1..Len(s) : s[i].type # "state")
    PROVE  Unheard(t, m, now)
  <1>1. /\ Len(s) \in Nat /\ Len(t) = Len(s) + 1 /\ t[Len(s) + 1] = x
        /\ \A k \in 1..Len(s) : t[k] = s[k]
    BY DEF IsAppended
  <1>2. ASSUME NEW i \in 1..Len(t)
        PROVE  /\ t[i].type = "sync" => t[i].props[m] = Unset
               /\ t[i].type = "state" => t[i].props[m] = now
    <2>1. CASE i \in 1..Len(s)
      BY <1>1, <2>1 DEF Unheard
    <2>2. CASE i = Len(s) + 1
      BY <1>1, <2>2
    <2> QED  BY <1>1, <2>1, <2>2
  <1> QED  BY <1>2 DEF Unheard

\* The first change set on its way is accepted or denied.
LEMMA ServerOwners ==
    ASSUME IInv, OwnersInv, NEW c \in Clients, ServerTakes(c)
    PROVE  OwnersInv'
  <1>0. TypeOK /\ DeliveryInv
    BY DEF IInv
  <1>1. PICK denied \in SUBSET Models : ServerApplies(c, denied)
    BY DEF ServerTakes
  <1>2. PICK props \in Partial, rest \in Seq(Partial) : Served(c, props, denied, rest)
    BY <1>0, <1>1, ServerStep
  <1>3. PICK reply \in Messages, sync \in Messages :
           /\ reply = Reply(denied) /\ sync = Sync(Applied(props, denied))
           /\ reply.type = "reply" /\ reply.denied = denied /\ reply \notin Others
           /\ sync.type = "sync" /\ sync \in Others
           /\ \A m \in Models : props[m] = Unset => sync.props[m] = Unset
    <2>1. PICK reply \in Messages, sync \in Messages :
             reply = Reply(denied) /\ sync = Sync(Applied(props, denied))
      BY <1>2 DEF Served
    <2> QED  BY <2>1 DEF Reply, Sync, Others, Applied
  <1>4. ASSUME NEW m \in Models
        PROVE  server'[m] = IF m \notin denied /\ props[m] # Unset THEN props[m] ELSE server[m]
    BY <1>2, <1>4 DEF Served, Applied
  <1>5. UNCHANGED <<copy, queue, attached, unsettled, policy>> /\ c \in attached
    BY <1>2 DEF Served
  <1> SUFFICES ASSUME Strict, NEW d \in Clients PROVE Owned(d)'
    <2>1. Strict' <=> Strict
      BY <1>5 DEF Strict
    <2> QED  BY <2>1 DEF OwnersInv
  <1>6. Owned(d) /\ Delivery(d) /\ Delivery(c)
    BY <1>0 DEF OwnersInv, DeliveryInv
  <1>7. PICK q \in Seq(ChangeSetRecords), s \in Seq(Messages), t \in Seq(Messages),
             out \in Seq(Partial), said \in Seq(Messages), now \in Seq(Messages) :
           /\ q = queue[d] /\ s = toClient[d] /\ t = toClient'[d] /\ out = toServer[d]
           /\ said = Without(s, Others) /\ now = Without(t, Others)
    <2>1. toClient[d] \in Seq(Messages) /\ toClient'[d] \in Seq(Messages)
      BY <1>0, <1>2 DEF TypeOK, Served, Tells
    <2>2. /\ Without(toClient[d], Others) \in Seq(Messages)
          /\ Without(toClient'[d], Others) \in Seq(Messages)
      BY <2>1, WithoutType
    <2> QED  BY <1>0, <2>1, <2>2 DEF TypeOK
  <1>8. said = Said(d) /\ now = Said(d)'
    BY <1>7, Zenon DEF Said
  <1>9. Lined(q, said, out)
    BY <1>6, <1>7, <1>8 DEF Owned
  <1>10. /\ queue'[d] = queue[d] /\ copy'[d] = copy[d] /\ (d \in attached') = (d \in attached)
         /\ (d \in unsettled') = (d \in unsettled)
    BY <1>5
  <1>11. CASE d = c
    <2>1. IsAppended(s, reply, t)
      BY <1>2, <1>3, <1>7, <1>11 DEF Served, Tells
    <2>2. said \in Seq(Messages) /\ now \in Seq(Messages) /\ IsAppended(said, reply, now)
      BY <1>3, <1>7, <2>1, SaidMore
    <2>3. toServer'[d] = rest /\ IsCut(out, 1, rest) /\ 1 \in 1..Len(out) /\ props = out[1]
      BY <1>0, <1>2, <1>7, <1>11 DEF Served, TypeOK
    <2>4. reply.denied \in {{}, Named(out[1])}
      <3>1. policy \in {"accept", "whole"}
        BY <1>0, ReplicasAssumption DEF Strict, TypeOK
      <3>2. denied \in Denials(Named(props))
        BY <1>2 DEF Served
      <3> QED  BY <1>3, <2>3, <3>1, <3>2 DEF Denials
    <2>5. /\ Lined(q, now, rest)
          /\ Len(said) + 1 <= Len(q) /\ q[Len(said) + 1].props = props
          /\ Named(q[Len(said) + 1].props) = Named(q[Len(said) + 1].touches)
      BY <1>9, <2>2, <2>3, <2>4, LinedServed
    <2>6. ASSUME NEW m \in Models, Writers[m] = {d} PROVE Unheard(t, m, server'[m])
      <3>1. Unheard(s, m, server[m])
        BY <1>6, <1>7, <2>6 DEF Owned
      <3>2. \A i \in 1..Len(s) : s[i].type # "state"
        BY <1>5, <1>6, <1>7, <1>11 DEF Delivery, StateFirst
      <3> QED  BY <1>3, <2>1, <3>1, <3>2, UnheardMore, ZenonT(40)
    <2>7. ASSUME NEW m \in Models, Writers[m] = {d}, d \in attached
          PROVE  Ahead(q, now, copy[d].value[m], copy[d].props[m], copy[d].orig[m], server'[m],
                       d \in unsettled, m)
      <3>1. PICK v, p, o, value, uns, next, after :
               /\ v = copy[d].value[m] /\ p = copy[d].props[m] /\ o = copy[d].orig[m]
               /\ value = server[m] /\ uns = (d \in unsettled)
               /\ next = Len(said) + 1 /\ after = server'[m]
        OBVIOUS
      <3>2. Ahead(q, said, v, p, o, value, uns, m)
        BY <1>6, <1>7, <1>8, <2>7, <3>1, Zenon DEF Owned
      <3>3. after = IF m \notin reply.denied /\ q[next].props[m] # Unset
                    THEN q[next].props[m] ELSE value
        BY <1>3, <1>4, <2>5, <3>1
      <3>4. /\ next <= Len(q) /\ Named(q[next].props) = Named(q[next].touches)
            /\ reply.denied \in {{}, Named(q[next].props)}
        BY <2>3, <2>4, <2>5, <3>1
      <3>5. Ahead(q, now, v, p, o, after, uns, m)
        BY <2>2, <3>1, <3>2, <3>3, <3>4, AheadServed
      <3> QED  BY <3>1, <3>5, Zenon
    <2> QED  BY <1>6, <1>7, <1>8, <1>10, <2>3, <2>5, <2>6, <2>7, Zenon DEF Owned
  <1>12. CASE d # c
    <2>1. toServer'[d] = toServer[d]
      BY <1>2, <1>12 DEF Served
    <2>2. ASSUME NEW m \in Models, Writers[m] = {d} PROVE props[m] = Unset /\ server'[m] = server[m]
      <3>1. Silent(queue[c], toServer[c], copy[c], m)
        BY <1>6, <1>12, <2>2 DEF Delivery
      <3>2. props = toServer[c][1] /\ 1 \in 1..Len(toServer[c])
        BY <1>2 DEF Served
      <3>3. props[m] = Unset
        BY <3>1, <3>2 DEF Silent
      <3> QED  BY <1>4, <3>3
    <2>3. \/ t = s
          \/ IsAppended(s, sync, t)
      BY <1>2, <1>3, <1>7, <1>12 DEF Served, Tells
    <2>4. now = said
      <3>1. CASE t = s
        BY <1>7, <3>1
      <3>2. CASE IsAppended(s, sync, t)
        BY <1>3, <1>7, <3>2, SaidMore
      <3> QED  BY <2>3, <3>1, <3>2
    <2>5. ASSUME NEW m \in Models, Writers[m] = {d} PROVE Unheard(t, m, server'[m])
      <3>1. PICK value : value = server[m] /\ value = server'[m] /\ Unheard(s, m, value)
        BY <1>6, <1>7, <2>2, <2>5 DEF Owned
      <3>2. CASE t = s
        BY <3>1, <3>2
      <3>3. CASE IsAppended(s, sync, t)
        <4>1. sync.props[m] = Unset
          BY <1>3, <2>2, <2>5
        <4>2. Unheard(t, m, value)
          BY <1>3, <3>1, <3>3, <4>1, UnheardMore
        <4> QED  BY <3>1, <4>2
      <3> QED  BY <2>3, <3>2, <3>3
    <2>6. ASSUME NEW m \in Models, Writers[m] = {d}, d \in attached
          PROVE  Ahead(q, said, copy[d].value[m], copy[d].props[m], copy[d].orig[m], server'[m],
                       d \in unsettled, m)
      BY <1>6, <1>7, <1>8, <2>2, <2>6, Zenon DEF Owned
    <2> QED  BY <1>6, <1>7, <1>8, <1>9, <1>10, <2>1, <2>4, <2>5, <2>6, Zenon DEF Owned
  <1> QED  BY <1>11, <1>12

\* With nothing gathered and nothing sent.
LEMMA AheadIdle ==
    ASSUME NEW q, q = <<>>, NEW replies, NEW v, NEW uns, NEW m
    PROVE  Ahead(q, replies, v, Unset, Unset, v, uns, m)
  <1>1. Touching(q, m) = {} /\ Accepted(q, replies, m) = {}
    BY EmptySeq DEF Touching, Accepted
  <1> QED  BY <1>1 DEF Ahead, Chained, Gathered, AllSent, Decided

\* The rest of the messages, once the first is received.
LEMMA UnheardLess ==
    ASSUME NEW s \in Seq(Messages), NEW t \in Seq(Messages), 1 \in 1..Len(s), IsCut(s, 1, t),
           NEW m, NEW value, Unheard(s, m, value)
    PROVE  Unheard(t, m, value)
  <1>1. ASSUME NEW i \in 1..Len(t) PROVE t[i] = s[i + 1] /\ i + 1 \in 1..Len(s)
    BY DEF IsCut
  <1> QED  BY <1>1 DEF Unheard

\* States and syncs of others leave the owner its values.
LEMMA RemoteOwners ==
    ASSUME IInv, OwnersInv, NEW c \in Clients, OnScopeState(c) \/ OnScopeSync(c)
    PROVE  OwnersInv'
  <1>0. TypeOK /\ Delivery(c)
    BY DEF IInv, DeliveryInv
  <1>1. PICK x \in Messages, t \in Seq(Messages) :
           /\ Takes(c, x, t) /\ x.type \in {"state", "sync"} /\ c \in attached'
           /\ attached' = attached \cup {c}
           /\ x.type = "state" <=> c \notin attached
    <2>1. CASE OnScopeState(c)
      <3>1. PICK x \in Messages, t \in Seq(Messages) : Takes(c, x, t) /\ x.type = "state"
        BY <1>0, <2>1, Taking DEF OnScopeState
      <3>2. c \notin attached
        BY <1>0, <3>1 DEF Takes, Delivery, StateFirst
      <3> QED  BY <2>1, <3>1, <3>2 DEF OnScopeState
    <2>2. CASE OnScopeSync(c)
      <3>1. PICK x \in Messages, t \in Seq(Messages) : Takes(c, x, t) /\ x.type = "sync"
        BY <1>0, <2>2, Taking DEF OnScopeSync
      <3>2. c \in attached
        BY <1>0, <3>1 DEF Takes, Delivery, StateFirst
      <3> QED  BY <2>2, <3>1, <3>2 DEF OnScopeSync
    <2> QED  BY <2>1, <2>2
  <1>2. x.props \in Partial /\ x \in Others
    BY <1>1 DEF Messages, Others
  <1>3. PICK mine \in Copies, set \in Copies :
           /\ mine = copy[c] /\ set = copy'[c] /\ copy' = [copy EXCEPT ![c] = set]
           /\ set.props = mine.props /\ set.orig = mine.orig
           /\ \A m \in Models :
                 set.value[m] = IF x.props[m] # Unset THEN x.props[m] ELSE mine.value[m]
    <2>0. PICK mine \in Copies, changes \in Partial : mine = copy[c] /\ changes = x.props
      BY <1>0, <1>2 DEF TypeOK
    <2>1. PICK set :
             /\ mine = copy[c] /\ changes = x.props /\ set = ApplyRemote(mine, changes)
             /\ set = copy'[c] /\ copy' = [copy EXCEPT ![c] = set]
      BY <1>0, <1>1, <2>0 DEF TypeOK, OnScopeState, OnScopeSync, Takes
    <2>2. /\ set \in Copies /\ set.props = mine.props /\ set.orig = mine.orig
          /\ \A m \in Models :
                set.value[m] = IF changes[m] # Unset THEN changes[m] ELSE mine.value[m]
      <3>1. set = ApplyRemote(mine, changes)
        BY <2>1
      <3> QED  BY ONLY <3>1, mine \in Copies, changes \in Partial, ApplyRemoteTyped
    <2> QED  BY <2>1, <2>2
  <1>4. /\ UNCHANGED <<queue, fetched, server, toServer, unsettled, edits, policy>>
        /\ toClient' = [toClient EXCEPT ![c] = t]
    BY <1>1 DEF OnScopeState, OnScopeSync, Takes
  <1>5. ASSUME NEW d \in Clients, d # c PROVE Left(d) /\ (d \in unsettled' <=> d \in unsettled)
    BY <1>0, <1>1, <1>3, <1>4, <1>5 DEF TypeOK, Left
  <1>6. /\ toClient'[c] = t /\ queue'[c] = queue[c] /\ toServer'[c] = toServer[c]
        /\ server' = server /\ (c \in unsettled') = (c \in unsettled)
    BY <1>0, <1>4 DEF TypeOK
  <1>7. ASSUME Strict PROVE Owned(c)'
    <2>1. Owned(c)
      BY <1>7 DEF OwnersInv
    <2>2. PICK s \in Seq(Messages) :
             /\ s = toClient[c] /\ 1 \in 1..Len(s) /\ x = s[1] /\ IsCut(s, 1, t)
      BY <1>0, <1>1 DEF TypeOK, Takes
    <2> DEFINE said == Without(s, Others)
    <2>3. Without(t, Others) = said
      BY <1>2, <2>2, SaidLess
    <2>4. said = Said(c) /\ said = Said(c)'
      <3>1. said = Said(c)
        BY <2>2, Zenon DEF Said
      <3>2. Said(c)' = Without(t, Others)
        BY <1>6, Zenon DEF Said
      <3> QED  BY <2>3, <3>1, <3>2, Zenon
    <2> HIDE DEF said
    <2>5. ASSUME NEW m \in Models, Writers[m] = {c}
          PROVE  /\ Unheard(t, m, server[m])
                 /\ x.type = "sync" => x.props[m] = Unset
                 /\ x.type = "state" => x.props[m] = server[m]
      <3>1. PICK value : value = server[m] /\ Unheard(s, m, value)
        BY <2>1, <2>2, <2>5 DEF Owned
      <3>2. Unheard(t, m, value)
        BY <2>2, <3>1, UnheardLess
      <3> QED  BY <2>2, <3>1, <3>2 DEF Unheard
    <2>6. ASSUME NEW m \in Models, Writers[m] = {c}
          PROVE  Ahead(queue[c], said, set.value[m], set.props[m], set.orig[m], server[m],
                       c \in unsettled, m)
      <3>1. CASE c \in attached
        <4>1. x.props[m] = Unset
          BY <1>1, <2>5, <2>6, <3>1
        <4>2. set.value[m] = mine.value[m]
          BY <1>3, <4>1
        <4> QED  BY <1>3, <2>1, <2>4, <2>6, <3>1, <4>2, Zenon DEF Owned
      <3>2. CASE c \notin attached
        <4>1. queue[c] = <<>> /\ set.props[m] = Unset /\ set.orig[m] = Unset
          BY <1>0, <1>3, <3>2 DEF Delivery, Idle, Nothing
        <4>2. server[m] # Unset
          BY <1>0, ChangeSetsAssumption DEF TypeOK
        <4>3. set.value[m] = server[m]
          BY <1>1, <1>3, <2>5, <2>6, <3>2, <4>2
        <4>4. PICK q, v, uns : q = queue[c] /\ v = server[m] /\ uns = (c \in unsettled)
          OBVIOUS
        <4>5. Ahead(q, said, v, Unset, Unset, v, uns, m)
          BY <4>1, <4>4, AheadIdle
        <4> QED  BY <4>1, <4>3, <4>4, <4>5, Zenon
      <3> QED  BY <3>1, <3>2
    <2>7. Named(set.props) = Named(set.orig) /\ Lined(queue[c], said, toServer[c])
      BY <1>3, <2>1, <2>4 DEF Owned
    <2> QED  BY <1>3, <1>6, <2>4, <2>5, <2>6, <2>7, Zenon DEF Owned
  <1> QED  BY <1>4, <1>5, <1>7, OneOwner

\* What is left of the queue without the first change set, but for what the
\* others would restore.
Shifted(q, r) ==
    /\ Len(r) = Len(q) - 1
    /\ \A k \in 1..(Len(q) - 1) :
          /\ r[k].props = q[k + 1].props /\ r[k].stuck = q[k + 1].stuck
          /\ Named(r[k].touches) = Named(q[k + 1].touches)

\* The change sets behind the one answered keep their places.
LEMMA LinedAnswered ==
    ASSUME NEW q \in Seq(ChangeSetRecords), NEW r \in Seq(ChangeSetRecords), Shifted(q, r),
           NEW said \in Seq(Messages), NEW now \in Seq(Messages), 1 \in 1..Len(said),
           IsCut(said, 1, now), NEW out \in Seq(Partial), Lined(q, said, out)
    PROVE  Lined(r, now, out)
  <1> DEFINE n == Len(said)
             l == Len(out)
  <1>1. /\ n \in Nat /\ n >= 1 /\ l \in Nat /\ Len(q) = n + l
        /\ \A i \in 1..Len(q) : ~q[i].stuck /\ Named(q[i].props) = Named(q[i].touches)
        /\ \A i \in 1..l : out[i] = q[n + i].props
        /\ \A i \in 1..n : said[i].denied \in {{}, Named(q[i].props)}
    <2>1. n \in Nat /\ n >= 1 /\ l \in Nat
      OBVIOUS
    <2>2. Lined(q, said, out)
      OBVIOUS
    <2> QED  BY ONLY <2>1, <2>2 DEF Lined
  <1>2. /\ Len(r) = (n + l) - 1
        /\ \A k \in 1..((n + l) - 1) :
              /\ r[k].props = q[k + 1].props /\ r[k].stuck = q[k + 1].stuck
              /\ Named(r[k].touches) = Named(q[k + 1].touches)
    BY <1>1, Zenon DEF Shifted
  <1>3. Len(now) = n - 1 /\ \A k \in 1..(n - 1) : now[k] = said[k + 1]
    BY <1>1 DEF IsCut
  <1> HIDE DEF n, l
  <1>4. ASSUME NEW i \in 1..Len(r) PROVE ~r[i].stuck /\ Named(r[i].props) = Named(r[i].touches)
    <2>1. i + 1 \in 1..Len(q) /\ i \in 1..((n + l) - 1)
      BY <1>1, <1>2
    <2> QED  BY <1>1, <1>2, <2>1
  <1>5. ASSUME NEW i \in 1..l PROVE out[i] = r[(n - 1) + i].props
    <2>1. (n - 1) + i \in 1..((n + l) - 1) /\ ((n - 1) + i) + 1 = n + i
      BY <1>1
    <2> QED  BY <1>1, <1>2, <2>1
  <1>6. ASSUME NEW i \in 1..(n - 1) PROVE now[i].denied \in {{}, Named(r[i].props)}
    <2>1. i + 1 \in 1..n /\ i \in 1..((n + l) - 1)
      BY <1>1
    <2> QED  BY <1>1, <1>2, <1>3, <2>1
  <1>7. Len(r) = (n - 1) + l
    BY <1>1, <1>2
  <1> QED  BY <1>3, <1>4, <1>5, <1>6, <1>7, Zenon DEF Lined, l

\* The first change set leaves the queue: with it accepted, the rest is as it was.
LEMMA FirstCompleted ==
    ASSUME NEW q \in Seq(ChangeSetRecords), 1 \in 1..Len(q), NEW r, r = RemoveAt(q, 1)
    PROVE  r \in Seq(ChangeSetRecords) /\ IsCut(q, 1, r) /\ Shifted(q, r)
  <1>1. r \in Seq(ChangeSetRecords) /\ IsCut(q, 1, r)
    BY CutOut DEF RemoveAt
  <1>2. \A k \in 1..(Len(q) - 1) : r[k] = q[k + 1]
    BY <1>1 DEF IsCut
  <1> QED  BY <1>1, <1>2 DEF IsCut, Shifted

\* With it denied, the next one is rebased.
LEMMA FirstReverted ==
    ASSUME NEW q \in Seq(ChangeSetRecords), 1 \in 1..Len(q), NEW denied, denied # {},
           denied = Named(q[1].props), NEW r, r = AfterReply(q, 1, denied)
    PROVE  /\ r \in Seq(ChangeSetRecords) /\ Shifted(q, r)
           /\ \A m \in Models : Rebasing(q, r, m)
  <1>1. CASE Len(q) = 1
    <2>1. r = RemoveAt(q, 1)
      BY <1>1 DEF AfterReply
    <2>2. r \in Seq(ChangeSetRecords) /\ IsCut(q, 1, r) /\ Shifted(q, r)
      BY <2>1, FirstCompleted
    <2>3. \A m \in Models : Rebasing(q, r, m)
      BY <1>1, <2>2 DEF IsCut, Rebasing
    <2> QED  BY <2>2, <2>3
  <1>2. CASE Len(q) # 1
    <2>1. 1 < Len(q) /\ 1 + 1 = 2 /\ 2 \in 1..Len(q) /\ Len(q) \in Nat
      <3>1. PICK n \in Nat : n = Len(q) /\ 1 \in 1..n /\ n # 1
        BY <1>2
      <3>2. 1 < n /\ 1 + 1 = 2 /\ 2 \in 1..n
        BY <3>1
      <3> QED  BY <3>1, <3>2
    <2>2. PICK next : next = [q EXCEPT ![1 + 1] = RebaseOn(q[1 + 1], q[1])]
      OBVIOUS
    <2>3. r = RemoveAt(next, 1)
      BY <2>1, <2>2 DEF AfterReply
    <2>4. next \in Seq(ChangeSetRecords) /\ IsPut(q, 1 + 1, RebaseOn(q[1 + 1], q[1]), next)
      BY <2>1, <2>2, Rebased
    <2>5. PICK one \in ChangeSetRecords, two \in ChangeSetRecords : one = q[1] /\ two = q[2]
      BY <2>1
    <2>6. PICK on \in ChangeSetRecords :
             /\ on = RebaseOn(two, one) /\ on.props = two.props /\ on.stuck = two.stuck
             /\ \A m \in Models :
                   on.touches[m] = IF two.touches[m] # Unset /\ one.touches[m] # Unset
                                   THEN one.touches[m] ELSE two.touches[m]
      BY RebaseTyped
    <2>7. Len(next) = Len(q) /\ next[2] = on /\ \A k \in 1..Len(q) : k # 2 => next[k] = q[k]
      BY <2>1, <2>4, <2>5, <2>6 DEF IsPut
    <2>8. r \in Seq(ChangeSetRecords) /\ IsCut(next, 1, r)
      BY <2>1, <2>3, <2>4, <2>7, FirstCompleted
    <2>9. Len(r) = Len(q) - 1 /\ \A k \in 1..(Len(q) - 1) : r[k] = next[k + 1]
      BY <2>1, <2>7, <2>8 DEF IsCut
    <2>10. ASSUME NEW k \in 1..(Len(q) - 1)
           PROVE  r[k] = IF k = 1 THEN on ELSE q[k + 1]
      <3>1. k + 1 \in 1..Len(q) /\ (k = 1 <=> k + 1 = 2)
        BY <2>1
      <3> QED  BY <2>7, <2>9, <3>1
    <2>11. Named(on.touches) = Named(two.touches)
      BY <2>6 DEF Named
    <2>12. Shifted(q, r)
      BY <2>1, <2>5, <2>6, <2>9, <2>10, <2>11 DEF Shifted
    <2>13. ASSUME NEW m \in Models PROVE Rebasing(q, r, m)
      BY <2>1, <2>5, <2>6, <2>9, <2>10 DEF Rebasing
    <2> QED  BY <2>8, <2>12, <2>13
  <1> QED  BY <1>1, <1>2

\* The reply is for the first change set, and is the first that was said.
LEMMA RepliedIsFirst ==
    ASSUME NEW q \in Seq(ChangeSetRecords), \A i \in 1..Len(q) : ~q[i].stuck, 1 \in 1..Len(q)
    PROVE  Replied(q) = 1
  <1>1. 1 \in DOMAIN q /\ ~q[1].stuck
    OBVIOUS
  <1>2. Replied(q) \in DOMAIN q /\ Replied(q) <= 1
    BY <1>1, RepliedFirst
  <1> QED  BY <1>2

\* Once nothing waits, an application may edit again.
LEMMA SettledIs ==
    ASSUME NEW mine, NEW r \in Seq(ChangeSetRecords), \A i \in 1..Len(r) : ~r[i].stuck,
           Settled(mine, r), NEW m \in Models
    PROVE  Len(r) = 0 /\ mine.props[m] = Unset
  <1>1. Len(r) = 0
    <2> SUFFICES ASSUME Len(r) # 0 PROVE FALSE
      OBVIOUS
    <2>1. 1 \in 1..Len(r)
      OBVIOUS
    <2> QED  BY <2>1, RepliedIsFirst DEF Settled
  <1> QED  BY <1>1 DEF Settled, Named

\* An answered change set leaves the chain, or is reverted to what it was.
LEMMA ReplyOwners ==
    ASSUME IInv, OwnersInv, NEW c \in Clients, OnReply(c)
    PROVE  OwnersInv'
  <1>0. TypeOK /\ Delivery(c)
    BY DEF IInv, DeliveryInv
  <1>1. PICK x \in Messages, t \in Seq(Messages),
             i \in 1..Len(queue[c]), changes \in Partial,
             set \in Copies, after \in Seq(ChangeSetRecords) :
                 Answered(c, x, t, i, changes, set, after)
    BY <1>0, ReplyStep
  <1>2. /\ toClient' = [toClient EXCEPT ![c] = t]
        /\ copy' = [copy EXCEPT ![c] = set] /\ queue' = [queue EXCEPT ![c] = after]
        /\ UNCHANGED <<attached, fetched, server, toServer, edits, policy>>
        /\ c \in attached /\ x.type = "reply"
    BY <1>1 DEF Answered, Takes
  <1>3. ASSUME NEW d \in Clients, d # c PROVE Left(d) /\ (d \in unsettled' <=> d \in unsettled)
    <2>1. Left(d)
      BY <1>0, <1>2, <1>3 DEF TypeOK, Left
    <2>2. \/ unsettled' = unsettled \cup {c}
          \/ unsettled' = unsettled \ {c}
          \/ unsettled' = unsettled
      BY DEF OnReply
    <2> QED  BY <1>3, <2>1, <2>2
  <1>4. toClient'[c] = t /\ copy'[c] = set /\ queue'[c] = after /\ toServer'[c] = toServer[c]
    BY <1>0, <1>2 DEF TypeOK
  <1>5. PICK q \in Seq(ChangeSetRecords), mine \in Copies, s \in Seq(Messages),
             out \in Seq(Partial), said \in Seq(Messages), now \in Seq(Messages) :
           /\ q = queue[c] /\ mine = copy[c] /\ s = toClient[c] /\ out = toServer[c]
           /\ said = Without(s, Others) /\ now = Without(t, Others)
    <2>1. toClient[c] \in Seq(Messages)
      BY <1>0 DEF TypeOK
    <2>2. Without(toClient[c], Others) \in Seq(Messages) /\ Without(t, Others) \in Seq(Messages)
      BY <2>1, WithoutType
    <2> QED  BY <1>0, <2>2 DEF TypeOK
  <1>6. said = Said(c) /\ now = Said(c)'
    BY <1>4, <1>5, Zenon DEF Said
  <1>7. /\ said \in Seq(Messages) /\ now \in Seq(Messages)
        /\ 1 \in 1..Len(said) /\ said[1] = x /\ IsCut(said, 1, now)
    <2>1. x = s[1] /\ 1 \in 1..Len(s) /\ IsCut(s, 1, t)
      BY <1>1, <1>5 DEF Answered, Takes
    <2>2. x \notin Others
      BY <1>2 DEF Others
    <2>3. x \in Messages /\ t \in Seq(Messages)
      BY <1>1 DEF Answered, Takes
    <2>4. said = Without(s, Others) /\ now = Without(t, Others)
      BY <1>5
    <2>5. PICK a \in Seq(Messages), b \in Seq(Messages) :
              /\ a = Without(s, Others) /\ b = Without(t, Others)
              /\ s[1] \notin Others => 1 \in 1..Len(a) /\ a[1] = s[1] /\ IsCut(a, 1, b)
      <3>1. IsCut(s, 1, t) /\ 1 \in 1..Len(s)
        BY <2>1
      <3>2. s \in Seq(Messages) /\ t \in Seq(Messages)
        BY <2>3
      <3> QED  BY ONLY <3>1, <3>2, SaidLess
    <2>6. a = said /\ b = now
      BY <2>4, <2>5
    <2> QED  BY <2>1, <2>2, <2>5, <2>6
  <1>8. ASSUME Strict PROVE Owned(c)'
    <2>1. Owned(c)
      BY <1>8 DEF OwnersInv
    <2>2. Lined(q, said, out) /\ Named(mine.props) = Named(mine.orig)
      BY <1>5, <1>6, <2>1 DEF Owned
    <2>3. 1 \in 1..Len(q) /\ \A k \in 1..Len(q) : ~q[k].stuck
      <3>1. i \in 1..Len(q)
        BY <1>5
      <3> QED  BY <2>2, <3>1 DEF Lined
    <2>4. i = 1
      BY <1>1, <1>5, <2>3, RepliedIsFirst DEF Answered
    <2>5. PICK denied : denied = x.denied /\ denied \in {{}, Named(q[1].props)}
      BY <1>7, <2>2 DEF Lined
    <2>6. /\ changes = ToRevert(q, 1, denied) /\ set = SetValues(mine, changes)
          /\ after = AfterReply(q, 1, denied)
      BY <1>1, <1>5, <2>4, <2>5, Zenon DEF Answered
    <2>7. Named(set.props) = Named(set.orig)
      BY <2>2, <2>6, SetValuesNames
    <2>8. ASSUME NEW m \in Models, Writers[m] = {c} PROVE Unheard(t, m, server[m])
      <3>1. PICK value : value = server[m] /\ Unheard(s, m, value)
        BY <1>5, <2>1, <2>8 DEF Owned
      <3>2. 1 \in 1..Len(s) /\ IsCut(s, 1, t)
        BY <1>1, <1>5 DEF Answered, Takes
      <3>3. Unheard(t, m, value)
        BY <3>1, <3>2, UnheardLess
      <3> QED  BY <3>1, <3>3
    <2>9. Shifted(q, after)
      <3>1. CASE denied = {}
        <4>1. after = RemoveAt(q, 1)
          BY <2>6, <3>1 DEF AfterReply
        <4> QED  BY <2>3, <4>1, FirstCompleted
      <3>2. CASE denied # {}
        BY <2>3, <2>5, <2>6, <3>2, FirstReverted
      <3> QED  BY <3>1, <3>2
    <2>10. Lined(after, now, out)
      BY <1>7, <2>2, <2>9, LinedAnswered
    <2>11. ASSUME NEW m \in Models, Writers[m] = {c}
           PROVE  Ahead(after, now, set.value[m], set.props[m], set.orig[m], server[m],
                        c \in unsettled', m)
      <3>1. PICK v, p, o, value, uns, later :
               /\ v = mine.value[m] /\ p = mine.props[m] /\ o = mine.orig[m]
               /\ value = server[m] /\ uns = (c \in unsettled) /\ later = (c \in unsettled')
        OBVIOUS
      <3>2. Ahead(q, said, v, p, o, value, uns, m)
        BY <1>2, <1>5, <1>6, <2>1, <2>11, <3>1, Zenon DEF Owned
      <3>3. /\ changes[m] = Unset \/ v = changes[m] =>
                  set.value[m] = v /\ set.props[m] = p /\ set.orig[m] = o
            /\ changes[m] # Unset /\ v # changes[m] =>
                  /\ set.value[m] = changes[m] /\ set.props[m] = changes[m]
                  /\ set.orig[m] = IF o = Unset THEN v ELSE o
        <4>1. set = SetValues(mine, changes)
          BY <2>6
        <4> QED  BY ONLY <3>1, <4>1, SetValuesAt, mine \in Copies, changes \in Partial, m \in Models
      <3>4. changes[m] # Unset => /\ m \in denied /\ changes[m] = q[1].touches[m]
                                  /\ \A j \in 2..Len(q) : q[j].touches[m] = Unset
        BY <2>3, <2>6, ToRevertTyped
      <3>5. CASE denied = {}
        <4>1. set.value[m] = v /\ set.props[m] = p /\ set.orig[m] = o
          BY <3>3, <3>4, <3>5
        <4>2. IsCut(q, 1, after)
          <5>1. after = RemoveAt(q, 1)
            BY <2>6, <3>5 DEF AfterReply
          <5> QED  BY <2>3, <5>1, FirstCompleted
        <4>3. uns => later \/ (Len(after) = 0 /\ p = Unset)
          <5>1. CASE Settled(mine, after)
            <6>1. \A k \in 1..Len(after) : ~after[k].stuck
              BY <2>10 DEF Lined
            <6> QED  BY <3>1, <5>1, <6>1, SettledIs
          <5>2. CASE ~Settled(mine, after)
            <6>1. Head(toClient[c]).denied = {} /\ ~Settled(copy[c], queue'[c])
              BY <1>1, <1>4, <1>5, <2>5, <3>5, <5>2 DEF Answered, Takes
            <6>2. unsettled' = unsettled
              BY <6>1 DEF OnReply
            <6> QED  BY <3>1, <6>2
          <5> QED  BY <5>1, <5>2
        <4>4. Ahead(after, now, v, p, o, value, later, m)
          BY <1>7, <2>3, <2>5, <3>2, <3>5, <4>2, <4>3, AheadCompleted
        <4> QED  BY <3>1, <4>1, <4>4, Zenon
      <3>6. CASE denied # {}
        <4>1. later = TRUE
          <5>1. Head(toClient[c]).denied # {}
            BY <1>1, <2>5, <3>6 DEF Answered, Takes
          <5>2. unsettled' = unsettled \cup {c}
            BY <5>1 DEF OnReply
          <5> QED  BY <3>1, <5>2
        <4>2. Rebasing(q, after, m) /\ denied = Named(q[1].props)
          BY <2>3, <2>5, <2>6, <3>6, FirstReverted
        <4>3. m \in denied <=> 1 \in Touching(q, m)
          <5>1. Named(q[1].props) = Named(q[1].touches)
            BY <2>2, <2>3 DEF Lined
          <5> QED  BY <2>3, <4>2, <5>1 DEF Touching, Named
        <4>4. said[1].denied # {}
          BY <1>7, <2>5, <3>6
        <4>5. CASE Touching(q, m) = {1}
          <5>1. PICK u : u = q[1].touches[m]
            OBVIOUS
          <5>2. changes[m] = u /\ u # Unset
            <6>1. m \in denied /\ u # Unset
              BY <4>3, <4>5, <5>1 DEF Touching
            <6>2. ASSUME NEW j \in (1 + 1)..Len(q) PROVE q[j].touches[m] = Unset
              <7>1. j \in 1..Len(q) /\ j # 1
                OBVIOUS
              <7>2. j \notin Touching(q, m)
                BY <4>5, <7>1
              <7> QED  BY <7>1, <7>2 DEF Touching
            <6> QED  BY <2>6, <5>1, <6>1, <6>2 DEF ToRevert
          <5>3. v # Unset
            BY <3>1, ChangeSetsAssumption DEF Copies
          <5>4. /\ v = u => Ahead(after, now, v, p, o, value, TRUE, m)
                /\ v # u => Ahead(after, now, u, u, IF o = Unset THEN v ELSE o, value, TRUE, m)
            <6>1. /\ v = q[1].touches[m] => Ahead(after, now, v, p, o, value, TRUE, m)
                  /\ v # q[1].touches[m] =>
                        Ahead(after, now, q[1].touches[m], q[1].touches[m],
                              IF o = Unset THEN v ELSE o, value, TRUE, m)
              BY <1>7, <2>3, <3>2, <4>2, <4>4, <4>5, <5>3, AheadReverted
            <6> QED  BY <5>1, <6>1, Zenon
          <5>5. CASE v = u
            <6>1. set.value[m] = v /\ set.props[m] = p /\ set.orig[m] = o
              BY <3>3, <5>2, <5>5
            <6> QED  BY <3>1, <4>1, <5>4, <5>5, <6>1, Zenon
          <5>6. CASE v # u
            <6>1. /\ set.value[m] = u /\ set.props[m] = u
                  /\ set.orig[m] = IF o = Unset THEN v ELSE o
              BY <3>3, <5>2, <5>6
            <6> QED  BY <3>1, <4>1, <5>4, <5>6, <6>1, Zenon
          <5> QED  BY <5>5, <5>6
        <4>6. CASE Touching(q, m) # {1}
          <5>1. changes[m] = Unset
            <6> SUFFICES ASSUME changes[m] # Unset PROVE FALSE
              OBVIOUS
            <6>1. 1 \in Touching(q, m) /\ \A j \in 2..Len(q) : q[j].touches[m] = Unset
              BY <3>4, <4>3
            <6>2. \A j \in Touching(q, m) : j = 1
              BY <6>1 DEF Touching
            <6> QED  BY <4>6, <6>1, <6>2
          <5>2. set.value[m] = v /\ set.props[m] = p /\ set.orig[m] = o
            BY <3>3, <5>1
          <5>3. Ahead(after, now, v, p, o, value, TRUE, m)
            BY <1>7, <2>3, <3>2, <4>2, <4>4, <4>6, AheadDenied
          <5> QED  BY <3>1, <4>1, <5>2, <5>3, Zenon
        <4> QED  BY <4>5, <4>6
      <3> QED  BY <3>5, <3>6
    <2> QED  BY <1>2, <1>4, <1>5, <1>6, <2>7, <2>8, <2>10, <2>11, Zenon DEF Owned
  <1> QED  BY <1>2, <1>3, <1>8, OneOwner

\* Each step keeps the owners' invariant.
LEMMA NextOwners ==
    ASSUME IInv, OwnersInv, [Next]_vars
    PROVE  OwnersInv'
  <1>1. CASE UNCHANGED vars
    <2>1. ASSUME NEW d \in Clients PROVE Left(d) /\ (d \in unsettled' <=> d \in unsettled)
      BY <1>1 DEF vars, Left
    <2>2. ASSUME Strict, NEW d \in Clients PROVE Owned(d)'
      BY <1>1, <2>1, <2>2, OwnedLeft DEF OwnersInv, vars
    <2> QED  BY <1>1, <2>2 DEF OwnersInv, Strict, vars
  <1>2. ASSUME NEW c \in Clients, Fetch(c) PROVE OwnersInv'
    BY <1>2, FetchOwners
  <1>3. ASSUME NEW c \in Clients, NEW m \in Models, NEW v \in Values, EditModel(c, m, v)
        PROVE  OwnersInv'
    BY <1>3, EditOwners
  <1>4. ASSUME NEW c \in Clients, SendChanges(c) PROVE OwnersInv'
    BY <1>4, SendOwners
  <1>5. ASSUME NEW c \in Clients, ServerTakes(c) PROVE OwnersInv'
    BY <1>5, ServerOwners
  <1>6. ASSUME NEW c \in Clients, OnMessage(c) PROVE OwnersInv'
    BY <1>6, RemoteOwners, ReplyOwners DEF OnMessage
  <1> QED  BY <1>1, <1>2, <1>3, <1>4, <1>5, <1>6 DEF Next

\* With no denial on its way the only writer has what the server will have.
LEMMA WritersAreAhead ==
    ASSUME TypeOK, OwnersInv
    PROVE  WriterAhead
  <1> SUFFICES ASSUME Strict, NEW c \in attached, NEW m \in Models,
                      Writers[m] = {c}, ~Deciding(c, m)
               PROVE  copy[c].value[m] = Expected(c, m)
    BY DEF WriterAhead, Strict
  <1>1. c \in Clients
    BY DEF TypeOK
  <1>2. PICK q \in Seq(ChangeSetRecords), s \in Seq(Messages), out \in Seq(Partial),
             said \in Seq(Messages) :
           /\ q = queue[c] /\ s = toClient[c] /\ out = toServer[c] /\ said = Said(c)
    BY <1>1, SaidTyped DEF TypeOK
  <1>3. PICK v, p, o, value, uns :
           /\ v = copy[c].value[m] /\ p = copy[c].props[m] /\ o = copy[c].orig[m]
           /\ value = server[m] /\ uns = (c \in unsettled)
    OBVIOUS
  <1>4. Lined(q, said, out) /\ Ahead(q, said, v, p, o, value, uns, m)
    BY <1>1, <1>2, <1>3, Zenon DEF OwnersInv, Owned
  <1>5. ASSUME NEW i \in 1..Len(said) PROVE m \notin said[i].denied
    <2>1. Range(said) = Range(s) \ Others
      BY <1>2, WithoutRange DEF Said
    <2>2. said[i] \in Range(said)
      BY DEF Range
    <2>3. PICK k \in DOMAIN s : s[k] = said[i] /\ s[k] \notin Others /\ s[k] \in Messages
      <3>1. said[i] \in Range(s) /\ said[i] \notin Others
        BY <2>1, <2>2
      <3>2. PICK k \in DOMAIN s : s[k] = said[i]
        BY ONLY <3>1 DEF Range
      <3>3. s[k] \in Messages
        BY s \in Seq(Messages)
      <3> QED  BY <3>1, <3>2, <3>3
    <2>4. k \in Answers(c)
      BY <1>2, <2>3 DEF Answers, Others
    <2> QED  BY <1>2, <2>3, <2>4 DEF Deciding
  <1>6. /\ p # Unset => v = p
        /\ p = Unset /\ (\A i \in 1..Len(out) : out[i][m] = Unset) => v = value
        /\ p = Unset => \A i \in 1..Len(out) :
              out[i][m] # Unset /\ (\A j \in 1..Len(out) : out[j][m] # Unset => j <= i)
                 => v = out[i][m]
    BY <1>4, <1>5, AheadExpected
  <1> DEFINE I == {i \in 1..Len(out) : out[i][m] # Unset}
  <1>7. PICK last : last = IF I # {} THEN Max(I) ELSE 0
    OBVIOUS
  <1>8. Expected(c, m) = CASE p # Unset -> p
                           [] p = Unset /\ last # 0 -> out[last][m]
                           [] OTHER -> value
    BY <1>2, <1>3, <1>7 DEF Expected, SelectLastInSeq
  <1>9. CASE p # Unset
    BY <1>3, <1>6, <1>8, <1>9
  <1>10. CASE p = Unset /\ I = {}
    BY <1>3, <1>6, <1>7, <1>8, <1>10
  <1>11. CASE p = Unset /\ I # {}
    <2>1. I \in SUBSET (1..Len(out)) /\ Len(out) \in Nat
      OBVIOUS
    <2>2. PICK i \in I : \A j \in I : j <= i
      <3> HIDE DEF I
      <3> QED  BY <1>11, <2>1, Greatest
    <2>3. Max(I) = i
      <3>1. \A j \in I : (\A k \in I : j >= k) => j = i
        BY <2>1, <2>2
      <3>2. \A k \in I : i >= k
        BY <2>1, <2>2
      <3> HIDE DEF I
      <3> QED  BY <3>1, <3>2 DEF Max
    <2>4. last = i /\ last # 0
      BY <1>7, <1>11, <2>1, <2>2, <2>3
    <2>5. v = out[i][m]
      BY <1>6, <1>11, <2>2
    <2> QED  BY <1>3, <1>8, <1>11, <2>4, <2>5
  <1> QED  BY <1>9, <1>10, <1>11

\* If nothing is on its way and no model has two writers, all copies agree.
SingleWriters == \A m \in Models : \A c, d \in Writers[m] : c = d

\* With nothing on its way, owners and readers have what the server has.
LEMMA NothingLost ==
    ASSUME TypeOK, FollowsInv, OwnersInv, Strict, SingleWriters
    PROVE  Converged
  <1> SUFFICES ASSUME Quiet, NEW c \in attached PROVE copy[c].value = server
    BY DEF Converged
  <1>1. c \in Clients /\ c \in fetched
    BY DEF TypeOK
  <1>2. toServer[c] = <<>> /\ toClient[c] = <<>> /\ Named(copy[c].props) = {}
    BY <1>1 DEF Quiet
  <1>3. ASSUME NEW m \in Models PROVE copy[c].value[m] = server[m]
    <2>1. CASE c \notin Writers[m]
      <3>1. Arriving(c, m) = server[m]
        BY <1>1, <2>1, ReadersDoFollow DEF ReadersFollow
      <3>2. Arriving(c, m) = copy[c].value[m]
        BY <1>2 DEF Arriving, SelectLastInSeq
      <3> QED  BY <3>1, <3>2
    <2>2. CASE c \in Writers[m]
      <3>1. Writers[m] = {c}
        BY <2>2 DEF SingleWriters
      <3>2. ~Deciding(c, m)
        BY <1>2 DEF Deciding, Answers
      <3>3. copy[c].value[m] = Expected(c, m)
        BY <3>1, <3>2, WritersAreAhead DEF WriterAhead, Strict
      <3>4. copy[c].props[m] = Unset
        BY <1>2 DEF Named
      <3>5. Expected(c, m) = server[m]
        BY <1>2, <3>4 DEF Expected, SelectLastInSeq
      <3> QED  BY <3>3, <3>5
    <2> QED  BY <2>1, <2>2
  <1> QED  BY <1>1, <1>3 DEF TypeOK, Copies
-----------------------------------------------------------------------------
\* Both invariants hold for ever.
LEMMA Invariant == Spec => [](IInv /\ OwnersInv)
  <1>1. Init => IInv /\ OwnersInv
    BY InitIInv, InitOwners
  <1>2. (IInv /\ OwnersInv) /\ [Next]_vars => (IInv /\ OwnersInv)'
    BY NextIInv, NextOwners
  <1> QED  BY <1>1, <1>2, PTL DEF Spec

\* Each variable keeps its type: among others, a copy has a value for each
\* model of the scope, whatever is reverted, and only clients whose fetch was
\* accepted have a state.
THEOREM TypeCorrect == Spec => []TypeOK
  <1>1. IInv => TypeOK
    BY DEF IInv
  <1> QED  BY <1>1, Invariant, PTL

\* Each reply finds the change set it answers, whatever is denied in part.
THEOREM RepliesAreExpected == Spec => []RepliesExpected
  <1>1. IInv => RepliesExpected
    BY RepliesAreCounted DEF IInv
  <1> QED  BY <1>1, Invariant, PTL

\* Who only reads a model is never ahead of the server and misses nothing.
THEOREM ReadersNeverDiverge == Spec => []ReadersFollow
  <1>1. IInv => ReadersFollow
    BY ReadersDoFollow DEF IInv
  <1> QED  BY <1>1, Invariant, PTL

\* The only writer of a model has what the server will have, but for a denial
\* on its way: optimism, reverting and rebasing lose nothing.
THEOREM WritersStayAhead == Spec => []WriterAhead
  <1>1. IInv /\ OwnersInv => WriterAhead
    BY WritersAreAhead DEF IInv
  <1> QED  BY <1>1, Invariant, PTL

\* Where no model has two writers, patient ones that return to no model over a
\* change set without it, and the server denies all or nothing, the copies of
\* the clients are the server's whenever nothing is on its way.
THEOREM SingleWritersConverge == Spec => [](Strict /\ SingleWriters => Converged)
  <1>1. IInv /\ OwnersInv => (Strict /\ SingleWriters => Converged)
    BY NothingLost DEF IInv
  <1> QED  BY <1>1, Invariant, PTL
=============================================================================
