----------------------------- MODULE ChangeSets -----------------------------
(***************************************************************************)
(* The change sets of a client and the queue they wait in for the server's *)
(* replies.  Each model object has one property here, so a value, a change *)
(* fragment and its reply are all found by the object's name.              *)
(*                                                                         *)
(* A copy of the scope is a record of the values its models have and of    *)
(* the fragments gathered since the last change set: for each model the    *)
(* new value and the value before the first change, or Unset.              *)
(***************************************************************************)
EXTENDS Naturals, Sequences, SequencesExt

CONSTANTS
    Models,     \* the names of the model objects
    Values,     \* what their property can hold
    Unset       \* no fragment for the model

ASSUME ChangeSetsAssumption == Unset \notin Values

Partial == [Models -> Values \cup {Unset}]
Nothing == [m \in Models |-> Unset]
Named(f) == {m \in Models : f[m] # Unset}

Copies == [value : [Models -> Values], props : Partial, orig : Partial]
ChangeSetRecords == [props : Partial, touches : Partial, stuck : BOOLEAN]

NewCopy(values) == [value |-> values, props |-> Nothing, orig |-> Nothing]

\* model.set for the models that changes names, as the application does it:
\* what is no change is no event, and an event updates the model's fragment.
SetValues(copy, changes) ==
    LET changed == {m \in Named(changes) : copy.value[m] # changes[m]}
    IN  [value |-> [m \in Models |-> IF m \in changed THEN changes[m] ELSE copy.value[m]],
         props |-> [m \in Models |-> IF m \in changed THEN changes[m] ELSE copy.props[m]],
         orig  |-> [m \in Models |-> IF m \in changed /\ copy.orig[m] = Unset
                                     THEN copy.value[m] ELSE copy.orig[m]]]

\* Mutant: a property that the fragment does not name is set all the same.
ApplyRemoteAll(copy, changes) == [copy EXCEPT !.value = changes]

\* model.set while a remote change is applied: no fragment follows.
ApplyRemote(copy, changes) ==
    [copy EXCEPT !.value = [m \in Models |-> IF m \in Named(changes)
                                             THEN changes[m] ELSE @[m]]]

NewChangeSet(copy) == [props |-> copy.props, touches |-> copy.orig, stuck |-> FALSE]
ClearFragments(copy) == NewCopy(copy.value)

\* The change set a reply belongs to: the server answers in order.
Replied(queue) == SelectInSeq(queue, LAMBDA s : ~s.stuck)

\* What a denied fragment restores, unless a later change set touches it.
ToRevert(queue, i, denied) ==
    [m \in Models |->
        IF m \in denied /\ \A j \in (i + 1)..Len(queue) : queue[j].touches[m] = Unset
        THEN queue[i].touches[m] ELSE Unset]

\* Mutant: nothing is taken over.
RebaseOnNothing(set, other) == set

\* The change set takes over what the other one would restore.
RebaseOn(set, other) ==
    [set EXCEPT !.touches = [m \in Models |->
        IF @[m] # Unset /\ other.touches[m] # Unset THEN other.touches[m] ELSE @[m]]]

\* Mutant: a change set that is completed is not removed.
AfterReplyKept(queue, i, denied) ==
    IF denied = {} THEN queue
    ELSE IF i < Len(queue)
         THEN RemoveAt([queue EXCEPT ![i + 1] = RebaseOn(@, queue[1])], i)
         ELSE RemoveAt(queue, i)

\* Completed, it leaves the queue; reverted, it does too, and the next one is
\* rebased, on the first of the queue; reverted in part, it stays.
AfterReply(queue, i, denied) ==
    IF denied = {} THEN RemoveAt(queue, i)
    ELSE IF denied # Named(queue[i].props) THEN [queue EXCEPT ![i].stuck = TRUE]
    ELSE IF i < Len(queue)
         THEN RemoveAt([queue EXCEPT ![i + 1] = RebaseOn(@, queue[1])], i)
         ELSE RemoveAt(queue, i)
=============================================================================
