------------------------------ MODULE Replicas ------------------------------
(***************************************************************************)
(* Clients that share a scope of the server.  A client changes its copy at *)
(* once, sends what it gathered as a change set when its timer fires, and  *)
(* reverts what the server denies.  The server applies the change sets one *)
(* by one, tells the other clients and answers.  Sessions deliver in order *)
(* and lose nothing (see ReliableLink).                                    *)
(*                                                                         *)
(* Applications edit a scope only once its state has arrived.              *)
(***************************************************************************)
EXTENDS ChangeSets, FiniteSets

CONSTANTS
    Clients,
    Writers,    \* the clients whose applications edit each model
    Patient,    \* whether they edit nothing after a denial until it is settled
    Returning,  \* whether they come back to a model over a change set without it
    Policies,   \* what the server may be like, of "accept", "whole" and "part"
    MaxEdits    \* bound: edits by the applications

ASSUME ReplicasAssumption ==
    /\ Values # {}
    /\ Writers \in [Models -> SUBSET Clients]
    /\ Patient \in BOOLEAN /\ Returning \in BOOLEAN
    /\ Policies \subseteq {"accept", "whole", "part"}
    /\ MaxEdits \in Nat

VARIABLES
    copy,       \* each client's copy of the scope
    queue,      \* its change sets that wait for their reply
    attached,   \* the clients whose copy has the state of the scope
    fetched,    \* those the server tells of changes
    server,     \* the values of the server's scope
    toServer,   \* change sets on their way, by client
    toClient,   \* syncs and replies on their way
    unsettled,  \* clients that had a denial and not yet all their replies since
    edits,      \* counted for the bound
    policy      \* what the server denies: nothing, whole change sets, or parts

vars == <<copy, queue, attached, fetched, server, toServer, toClient, unsettled,
          edits, policy>>

Initial == CHOOSE v \in Values : TRUE
Sync(props) == [type |-> "sync", props |-> props]
Reply(denied) == [type |-> "reply", denied |-> denied]
State(values) == [type |-> "state", props |-> values]

Messages == [type : {"sync", "state"}, props : Partial]
            \cup [type : {"reply"}, denied : SUBSET Models]

TypeOK ==
    /\ copy \in [Clients -> Copies]
    /\ queue \in [Clients -> Seq(ChangeSetRecords)]
    /\ attached \subseteq fetched /\ fetched \subseteq Clients
    /\ server \in [Models -> Values]
    /\ toServer \in [Clients -> Seq(Partial)]
    /\ toClient \in [Clients -> Seq(Messages)]
    /\ unsettled \subseteq Clients
    /\ edits \in 0..MaxEdits
    /\ policy \in Policies

Init ==
    /\ copy = [c \in Clients |-> NewCopy([m \in Models |-> Initial])]
    /\ queue = [c \in Clients |-> <<>>]
    /\ attached = {} /\ fetched = {}
    /\ server = [m \in Models |-> Initial]
    /\ toServer = [c \in Clients |-> <<>>]
    /\ toClient = [c \in Clients |-> <<>>]
    /\ unsettled = {}
    /\ edits = 0
    /\ policy \in Policies

\* The server accepts a fetch: reply and state leave in one batch.
Fetch(c) ==
    /\ c \notin fetched
    /\ fetched' = fetched \cup {c}
    /\ toClient' = [toClient EXCEPT ![c] = Append(@, State(server))]
    /\ UNCHANGED <<copy, queue, attached, server, toServer, unsettled, edits, policy>>

\* No change set without the model waits behind one that names it.
NamedLast(c, m) ==
    \A i \in DOMAIN queue[c] :
        queue[c][i].touches[m] # Unset => Last(queue[c]).touches[m] # Unset

EditModel(c, m, v) ==
    /\ c \in attached \cap Writers[m]
    /\ edits < MaxEdits
    /\ copy[c].value[m] # v
    /\ Patient => c \notin unsettled
    /\ Returning \/ NamedLast(c, m)
    /\ edits' = edits + 1
    /\ copy' = [copy EXCEPT ![c] = SetValues(@, [Nothing EXCEPT ![m] = v])]
    /\ UNCHANGED <<queue, attached, fetched, server, toServer, toClient, unsettled, policy>>

\* The change timer fires.
SendChanges(c) ==
    /\ Named(copy[c].props) # {}
    /\ queue' = [queue EXCEPT ![c] = Append(@, NewChangeSet(copy[c]))]
    /\ toServer' = [toServer EXCEPT ![c] = Append(@, copy[c].props)]
    /\ copy' = [copy EXCEPT ![c] = ClearFragments(@)]
    /\ UNCHANGED <<attached, fetched, server, toClient, unsettled, edits, policy>>

Denials(named) ==
    CASE policy = "accept" -> {{}}
      [] policy = "whole" -> {{}, named}
      [] OTHER -> SUBSET named

\* Mutant: the other clients are told of the fragments denied too.
ServerAppliesTellingAll(c, denied) ==
    /\ toServer[c] # <<>>
    /\ LET props == Head(toServer[c])
           applied == [m \in Models |-> IF m \in denied THEN Unset ELSE props[m]]
       IN  /\ denied \in Denials(Named(props))
           /\ server' = [m \in Models |-> IF applied[m] # Unset
                                          THEN applied[m] ELSE server[m]]
           /\ toClient' = [d \in Clients |->
                 CASE d = c -> Append(toClient[d], Reply(denied))
                   [] d # c /\ d \in fetched -> Append(toClient[d], Sync(props))
                   [] OTHER -> toClient[d]]
    /\ toServer' = [toServer EXCEPT ![c] = Tail(@)]
    /\ UNCHANGED <<copy, queue, attached, fetched, unsettled, edits, policy>>

\* Mutant: a change set of which nothing is applied gets no reply.
ServerAppliesUnanswered(c, denied) ==
    /\ toServer[c] # <<>>
    /\ LET named == Named(Head(toServer[c]))
           applied == [m \in Models |-> IF m \in denied THEN Unset
                                        ELSE Head(toServer[c])[m]]
       IN  /\ denied \in Denials(named)
           /\ server' = [m \in Models |-> IF applied[m] # Unset
                                          THEN applied[m] ELSE server[m]]
           /\ toClient' = [d \in Clients |->
                 CASE denied = named -> toClient[d]
                   [] d = c /\ denied # named -> Append(toClient[d], Reply(denied))
                   [] d # c /\ d \in fetched /\ denied # named
                        -> Append(toClient[d], Sync(applied))
                   [] OTHER -> toClient[d]]
    /\ toServer' = [toServer EXCEPT ![c] = Tail(@)]
    /\ UNCHANGED <<copy, queue, attached, fetched, unsettled, edits, policy>>

\* A change set is applied, but for the fragments denied; each other client
\* that has fetched the scope is told of the rest.  If all is denied by a
\* constraint or by storage there is nothing to tell.
ServerApplies(c, denied) ==
    /\ toServer[c] # <<>>
    /\ LET named == Named(Head(toServer[c]))
           applied == [m \in Models |-> IF m \in denied THEN Unset
                                        ELSE Head(toServer[c])[m]]
       IN  /\ denied \in Denials(named)
           /\ server' = [m \in Models |-> IF applied[m] # Unset
                                          THEN applied[m] ELSE server[m]]
           /\ toClient' = [d \in Clients |->
                 CASE d = c -> Append(toClient[d], Reply(denied))
                   [] d # c /\ d \in fetched /\ denied # named
                        -> Append(toClient[d], Sync(applied))
                   [] OTHER -> toClient[d]]
    /\ toServer' = [toServer EXCEPT ![c] = Tail(@)]
    /\ UNCHANGED <<copy, queue, attached, fetched, unsettled, edits, policy>>

Receive(c, type) == toClient[c] # <<>> /\ Head(toClient[c]).type = type
Received(c) == toClient' = [toClient EXCEPT ![c] = Tail(@)]

OnScopeState(c) ==
    /\ Receive(c, "state") /\ Received(c)
    /\ copy' = [copy EXCEPT ![c] = ApplyRemote(@, Head(toClient[c]).props)]
    /\ attached' = attached \cup {c}
    /\ UNCHANGED <<queue, fetched, server, toServer, unsettled, edits, policy>>

OnScopeSync(c) ==
    /\ Receive(c, "sync") /\ Received(c)
    /\ copy' = [copy EXCEPT ![c] = ApplyRemote(@, Head(toClient[c]).props)]
    /\ UNCHANGED <<queue, attached, fetched, server, toServer, unsettled, edits, policy>>

Settled(mine, sets) == Replied(sets) = 0 /\ Named(mine.props) = {}

\* What is reverted is set as if the application did: it is sent in turn.
OnReply(c) ==
    /\ Receive(c, "reply") /\ Received(c)
    /\ LET i == Replied(queue[c])
           denied == Head(toClient[c]).denied
       IN  /\ copy' = [copy EXCEPT ![c] = SetValues(@, ToRevert(queue[c], i, denied))]
           /\ queue' = [queue EXCEPT ![c] = AfterReply(@, i, denied)]
           /\ unsettled' =
                 CASE denied # {} -> unsettled \cup {c}
                   [] denied = {} /\ Settled(copy[c], queue'[c]) -> unsettled \ {c}
                   [] OTHER -> unsettled
    /\ UNCHANGED <<attached, fetched, server, toServer, edits, policy>>

OnMessage(c) == OnScopeState(c) \/ OnScopeSync(c) \/ OnReply(c)
ServerTakes(c) == \E denied \in SUBSET Models : ServerApplies(c, denied)

Next ==
    \E c \in Clients :
        \/ Fetch(c)
        \/ \E m \in Models, v \in Values : EditModel(c, m, v)
        \/ SendChanges(c)
        \/ ServerTakes(c)
        \/ OnMessage(c)

Spec == Init /\ [][Next]_vars

Fairness ==
    \A c \in Clients :
        WF_vars(SendChanges(c)) /\ WF_vars(ServerTakes(c)) /\ WF_vars(OnMessage(c))

FairSpec == Spec /\ Fairness
-----------------------------------------------------------------------------
\* Properties.

\* What a client's copy will be once it has received all that is on its way,
\* replies aside.
Due(x, m) == x.type # "reply" /\ x.props[m] # Unset
Arriving(c, m) ==
    LET i == SelectLastInSeq(toClient[c], LAMBDA x : Due(x, m))
    IN  IF i = 0 THEN copy[c].value[m] ELSE toClient[c][i].props[m]

\* Who only reads a model is never ahead of the server and misses nothing:
\* with what is on its way its copy is the server's, whatever change sets of
\* others are denied, in part or whole, and however late it fetched.
ReadersFollow ==
    \A c \in fetched, m \in Models :
        c \notin Writers[m] => Arriving(c, m) = server[m]

\* The value the server will have, if it accepts all that is on its way.
Expected(c, m) ==
    LET i == SelectLastInSeq(toServer[c], LAMBDA p : p[m] # Unset)
    IN  CASE copy[c].props[m] # Unset -> copy[c].props[m]
          [] copy[c].props[m] = Unset /\ i # 0 -> toServer[c][i][m]
          [] OTHER -> server[m]

Answers(c) == {i \in DOMAIN toClient[c] : toClient[c][i].type = "reply"}
Deciding(c, m) == \E i \in Answers(c) : m \in toClient[c][i].denied

\* The only writer of a model sees what the server will have, unless a denial
\* is still on its way to it: optimism, reverting and rebasing lose nothing,
\* for a patient application that does not return to a model over a change
\* set without it, and a server that denies all or nothing.
WriterAhead ==
    Patient /\ ~Returning /\ policy # "part" =>
        \A c \in attached, m \in Models :
            Writers[m] = {c} /\ ~Deciding(c, m) => copy[c].value[m] = Expected(c, m)

Quiet ==
    \A c \in Clients :
        toServer[c] = <<>> /\ toClient[c] = <<>> /\ Named(copy[c].props) = {}

\* Each reply finds the change set it answers.
RepliesExpected ==
    \A c \in Clients :
        Cardinality({i \in DOMAIN queue[c] : ~queue[c][i].stuck})
            = Len(toServer[c]) + Cardinality(Answers(c))

Denying == \E c \in Clients : \E i \in Answers(c) : toClient[c][i].denied # {}

Agreed ==
    \A c \in Clients :
        /\ queue[c] = <<>>
        /\ c \in attached => copy[c].value = server

\* Unless the server denies again and again, every change set is answered
\* and leaves its queue, what is reverted is sent and accepted, and in the
\* end all copies are the server's.
Settles ==
    policy # "part" => []<>Denying \/ <>[]Agreed

\* README.md: "Synchronize a shared set of models between many clients".
Converged == Quiet => \A c \in attached : copy[c].value = server
=============================================================================
