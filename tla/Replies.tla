------------------------------ MODULE Replies -------------------------------
(***************************************************************************)
(* What the messages of Channel say: the client's session fetches scopes   *)
(* and sends the changes of those it has, the server's session answers,    *)
(* and sends states of scopes and the changes others made.                 *)
(*                                                                         *)
(* The client's transport runs the callback of a reply as the message      *)
(* comes in, before the session looks at its index: for one that comes     *)
(* again and for one that comes too early as well.  It is the callback     *)
(* that makes a scope known to the session.                                *)
(*                                                                         *)
(* Channel takes every message to be readable.  One is not, the reply to a *)
(* fetch that was denied (ReceiveDenial): its index is never taken.        *)
(*                                                                         *)
(* An index of an array is counted from 1 here; 0 stands for none.         *)
(***************************************************************************)
EXTENDS Channel

CONSTANTS
    Scopes,     \* the Scope objects of the client's application
    Name        \* the name of each; the server has one scope of a name

Named == {Name[s] : s \in Scopes}

VARIABLES
    clientSaid,     \* what the client's messages 1, 2, 3... say
    callbacks,      \* transport._callbacks: the indices it has one for
    attached,       \* the client session's _scopes, by scopeIndex
    listeners,      \* how often _onScopeChanges listens to each scope
    serverSaid,     \* what the server's messages 1, 2, 3... say
    deciding,       \* messages of the client the server has yet to answer
    stating,        \* those of its fetches whose scope's state is being read
    serverScopes,   \* the server session's _scopes, by name
    queuedTwice     \* addChangeSet's assertion that the change set is not
                    \* in the queue yet has failed

requestVars == <<clientSaid, callbacks, attached, listeners>>
answerVars == <<serverSaid, deciding, stating, serverScopes>>
repliesVars == <<vars, requestVars, answerVars, queuedTwice>>

FetchOf(s) == [type |-> "fetch", scope |-> s, scopeIndex |-> 0]
ChangeOf(s, k) == [type |-> "change", scope |-> s, scopeIndex |-> k]
Requests == [type : {"fetch", "change"}, scope : Scopes, scopeIndex : Nat]

Answers == {"fetchReply", "fetchDenied", "changeReply"}
Say(type, replyTo, k) == [type |-> type, replyTo |-> replyTo, scopeIndex |-> k]
ServerSays == [type : Answers \cup {"state", "sync"}, replyTo : Nat, scopeIndex : Nat]

RepliesTypeOK ==
    /\ clientSaid \in Seq(Requests) /\ Len(clientSaid) = clientNextIndex - 1
    /\ callbacks \subseteq DOMAIN clientSaid
    /\ DOMAIN attached \subseteq Nat /\ attached \in [DOMAIN attached -> Scopes]
    /\ listeners \in [Scopes -> Nat]
    /\ serverSaid \in Seq(ServerSays) /\ Len(serverSaid) = nextMessageIndex - 1
    /\ deciding \subseteq DOMAIN clientSaid
    /\ stating \subseteq DOMAIN clientSaid
    /\ serverScopes \in Seq(Named)
    /\ queuedTwice \in BOOLEAN

RepliesInit ==
    /\ Init
    /\ clientSaid = <<>> /\ callbacks = {}
    /\ attached = <<>>
    /\ listeners = [s \in Scopes |-> 0]
    /\ serverSaid = <<>> /\ deciding = {} /\ stating = {}
    /\ serverScopes = <<>>
    /\ queuedTwice = FALSE

----------------------------------------------------------------------------
(* The client *)

\* Mutant: the callback is kept only if the message can be sent at once.
RequestIfOnline(r) ==
    /\ ClientSends
    /\ clientSaid' = Append(clientSaid, r)
    /\ callbacks' = callbacks \cup (IF CanSend THEN {clientNextIndex} ELSE {})

\* transport.sendMessage with a callback.
Request(r) ==
    /\ ClientSends
    /\ clientSaid' = Append(clientSaid, r)
    /\ callbacks' = callbacks \cup {clientNextIndex}

\* session.fetch.  Nothing keeps an application from fetching a scope again.
Fetch(s) ==
    /\ Request(FetchOf(s))
    /\ UNCHANGED <<attached, listeners, answerVars, queuedTwice>>

\* Mutant: the index of the scope attached last.
IndexOfLastScope(s, k) ==
    /\ k \in DOMAIN attached
    /\ \A j \in DOMAIN attached : j <= k

\* this._scopes.indexOf(scope).  It is -1 once another Scope object of the
\* name has taken the place; the server cannot read a change with that index,
\* and neither session is followed further.
IndexOfScope(s, k) ==
    /\ k \in DOMAIN attached
    /\ attached[k] = s
    /\ \A j \in DOMAIN attached : attached[j] = s => k <= j

\* The scope emits a change set and _onScopeChanges sends it.  It runs for
\* each time it was added as a listener: the second queues the change set
\* again, and the assertion throws.  The client is not followed further.
Change(s) ==
    /\ listeners[s] > 0
    /\ \E k \in DOMAIN attached :
          /\ IndexOfScope(s, k)
          /\ Request(ChangeOf(s, k))
    /\ queuedTwice' = (listeners[s] > 1)
    /\ UNCHANGED <<attached, listeners, answerVars>>

\* session._onScopeAttach
OnScopeAttach(s, k) ==
    /\ listeners' = [listeners EXCEPT ![s] = @ + 1]
    /\ attached' = [j \in DOMAIN attached \cup {k} |-> IF j = k THEN s ELSE attached[j]]

\* Mutant: the callback is not deleted.
OnReplyMessageKept(said) ==
    /\ \/ /\ said.type = "fetchReply"
          /\ OnScopeAttach(clientSaid[said.replyTo].scope, said.scopeIndex)
       \/ /\ said.type # "fetchReply"
          /\ UNCHANGED <<attached, listeners>>
    /\ UNCHANGED callbacks

\* transport._onReplyMessage: the callback runs, and only then is deleted.
OnReplyMessage(said) ==
    /\ callbacks' = callbacks \ {said.replyTo}
    /\ \/ /\ said.type = "fetchReply"
          /\ OnScopeAttach(clientSaid[said.replyTo].scope, said.scopeIndex)
       \/ /\ said.type # "fetchReply"
          /\ UNCHANGED <<attached, listeners>>

HasCallback(m) ==
    /\ ~IsPing(m)
    /\ serverSaid[m.index].type \in Answers
    /\ serverSaid[m.index].replyTo \in callbacks

\* The reply to a fetch that was denied has no scopeIndex.  The constructor of
\* the client's message asserts one: BaseMessage.parse logs that and returns null.
Unreadable(m) == ~IsPing(m) /\ serverSaid[m.index].type = "fetchDenied"

\* session.onMessage reads the index of the null it is given and throws, out of
\* the loop of _onSocketMessage: the n messages left of the batch are not looked
\* at.  SocketWrite puts another behind them if they are fewer than MaxInFlight.
AfterThrow ==
    {SubSeq(toClient, n + 1, Len(toClient)) :
        n \in {k \in 1..Len(toClient) :
                  k = Len(toClient) \/ (k < MaxInFlight /\ socket # NoSocket)}}

ReceiveDenial ==
    /\ status = "CONNECTED"
    /\ toClient # <<>> /\ Unreadable(Head(toClient))
    /\ toClient' \in AfterThrow
    /\ UNCHANGED <<serverVars, clientVars, serverSocket, toServer, recovered>>
    /\ UNCHANGED <<requestVars, answerVars, queuedTwice>>

\* transport._onAdapterMessage, in the callback that ends in the session.
Receive ==
    /\ ClientReceives
    /\ ~Unreadable(Head(toClient))
    /\ \/ HasCallback(Head(toClient)) /\ OnReplyMessage(serverSaid[Head(toClient).index])
       \/ ~HasCallback(Head(toClient)) /\ UNCHANGED <<callbacks, attached, listeners>>
    /\ UNCHANGED <<clientSaid, answerVars, queuedTwice>>

----------------------------------------------------------------------------
(* The server *)

\* Mutant: whatever comes in is handed to the session.
TakeAnything(s) ==
    /\ ServerReceives(s)
    /\ deciding' = deciding \cup {Head(toServer[s]).index}
    /\ UNCHANGED <<requestVars, serverSaid, stating, serverScopes, queuedTwice>>

\* What the session takes it answers, later.
TakeRequest(s) ==
    /\ ServerReceives(s)
    /\ deciding' = deciding \cup (IF clientIndex' > clientIndex THEN {clientIndex'} ELSE {})
    /\ UNCHANGED <<requestVars, serverSaid, stating, serverScopes, queuedTwice>>

Says(said) ==
    /\ ServerSends
    /\ serverSaid' = Append(serverSaid, said)

\* this._scopes.indexOf(scope) of the server's session
IndexOfName(scopes, n, k) ==
    /\ k \in DOMAIN scopes
    /\ scopes[k] = n
    /\ \A j \in 1..(k - 1) : scopes[j] # n

\* The application's callback of a fetch: the scope is added and listened to,
\* the reply sent and the reading of the state begun.
AcceptFetch(r) ==
    /\ r \in deciding /\ clientSaid[r].type = "fetch"
    /\ deciding' = deciding \ {r}
    /\ serverScopes' = Append(serverScopes, Name[clientSaid[r].scope])
    /\ \E k \in DOMAIN serverScopes' :
          /\ IndexOfName(serverScopes', Name[clientSaid[r].scope], k)
          /\ Says(Say("fetchReply", r, k))
    /\ stating' = stating \cup {r}
    /\ UNCHANGED <<requestVars, queuedTwice>>

DenyFetch(r) ==
    /\ r \in deciding /\ clientSaid[r].type = "fetch"
    /\ deciding' = deciding \ {r}
    /\ Says(Say("fetchDenied", r, 0))
    /\ UNCHANGED <<requestVars, stating, serverScopes, queuedTwice>>

\* The fragments of a change set are applied, or denied, all of them if the
\* session has no scope at the index.
AnswerChange(r) ==
    /\ r \in deciding /\ clientSaid[r].type = "change"
    /\ deciding' = deciding \ {r}
    /\ Says(Say("changeReply", r, 0))
    /\ UNCHANGED <<requestVars, stating, serverScopes, queuedTwice>>

\* client.sendScopeStateMessage, a turn or more after the reply.
SendState(r) ==
    /\ r \in stating
    /\ stating' = stating \ {r}
    /\ \E k \in DOMAIN serverScopes :
          /\ IndexOfName(serverScopes, Name[clientSaid[r].scope], k)
          /\ Says(Say("state", 0, k))
    /\ UNCHANGED <<requestVars, deciding, serverScopes, queuedTwice>>

\* A scope the session listens to was changed by another client.
SendSync(k) ==
    /\ IndexOfName(serverScopes, serverScopes[k], k)
    /\ Says(Say("sync", 0, k))
    /\ UNCHANGED <<requestVars, deciding, stating, serverScopes, queuedTwice>>

\* The steps of Channel in which nothing of this is told.
Transports ==
    /\ \/ ServerFlushes \/ SocketWrite \/ WriteSucceeds \/ WriteFails
       \/ ServerListener \/ ServerPings
       \/ \E s \in Sockets : ServerAccepts(s) \/ ServerDenies(s) \/ ServerNoticesClose(s)
       \/ ClientPings \/ ClientLosesSocket \/ ClientOpens
    /\ UNCHANGED <<requestVars, answerVars, queuedTwice>>

RepliesNext ==
    /\ ~queuedTwice
    /\ \/ \E s \in Scopes : Fetch(s) \/ Change(s)
       \/ Receive \/ ReceiveDenial
       \/ \E s \in Sockets : TakeRequest(s)
       \/ \E r \in deciding : AcceptFetch(r) \/ DenyFetch(r) \/ AnswerChange(r)
       \/ \E r \in stating : SendState(r)
       \/ \E k \in DOMAIN serverScopes : SendSync(k)
       \/ Transports

RepliesSpec == RepliesInit /\ [][RepliesNext]_repliesVars

----------------------------------------------------------------------------
(* Properties *)

\* The session and the callbacks agree on the replies: one that the session
\* has taken has found its callback, which is gone, and one that it has not
\* taken has its callback still.  So none is lost, none runs twice and none
\* runs ahead of what the server said before, however replies are doubled
\* and resent; only who gives the session up over a gap has run one early.
CallbacksFollowSession ==
    \A i \in DOMAIN serverSaid :
        serverSaid[i].type \in Answers =>
            /\ i <= serverIndex => serverSaid[i].replyTo \notin callbacks
            /\ serverSaid[i].replyTo \notin callbacks => i <= serverIndex \/ explicitlyClosed

\* What the session takes of a scope finds the scope: a state or a change of
\* another client is never taken before the reply has made it known.
AttachedWhenTaken ==
    \A i \in 1..serverIndex :
        serverSaid[i].type \in {"state", "sync"} =>
            serverSaid[i].scopeIndex \in DOMAIN attached

\* A change is sent with an index at which the server's session has the scope
\* of that name: two lists, filled by different messages, agree.
ChangesFindTheirScope ==
    \A r \in DOMAIN clientSaid :
        LET k == clientSaid[r].scopeIndex
        IN  clientSaid[r].type = "change" =>
                /\ k \in DOMAIN serverScopes
                /\ serverScopes[k] = Name[clientSaid[r].scope]

\* A reply that comes again attaches nothing again: a scope is listened to
\* at most once for each of its fetches that the server has accepted.
Accepting(s) == {i \in DOMAIN serverSaid : /\ serverSaid[i].type = "fetchReply"
                                          /\ clientSaid[serverSaid[i].replyTo].scope = s}

OneListenerPerFetch == \A s \in Scopes : listeners[s] <= Cardinality(Accepting(s))

----------------------------------------------------------------------------
(* The inductive invariant behind the theorems, with IInv of Channel *)

\* The server answers what it has taken, each message once, and what it has
\* not answered has its callback.
AnsweredOnce ==
    /\ \A i \in DOMAIN serverSaid :
          serverSaid[i].type \in Answers =>
              /\ serverSaid[i].replyTo \in DOMAIN clientSaid \ deciding
              /\ serverSaid[i].replyTo <= clientIndex
    /\ \A i, j \in DOMAIN serverSaid :
          /\ serverSaid[i].type \in Answers /\ serverSaid[j].type \in Answers
          /\ serverSaid[i].replyTo = serverSaid[j].replyTo
          => i = j
    /\ \A r \in deciding : r <= clientIndex
    /\ \A r \in DOMAIN clientSaid \ callbacks :
          \E i \in DOMAIN serverSaid :
              serverSaid[i].type \in Answers /\ serverSaid[i].replyTo = r

Accepts(i, k) == serverSaid[i].type = "fetchReply" /\ serverSaid[i].scopeIndex = k

\* The reply that names a scope comes before what else is said of it.
RepliedFirst ==
    /\ \A i \in DOMAIN serverSaid :
          serverSaid[i].type \in {"state", "sync"} =>
              \E j \in 1..(i - 1) : Accepts(j, serverSaid[i].scopeIndex)
    /\ \A k \in DOMAIN serverScopes :
          IndexOfName(serverScopes, serverScopes[k], k) =>
              \E j \in DOMAIN serverSaid : Accepts(j, k)

\* Both sessions have a scope of the same name at an index.
ScopesAgree ==
    /\ \A i \in DOMAIN serverSaid :
          serverSaid[i].type = "fetchReply" =>
              LET k == serverSaid[i].scopeIndex
                  r == serverSaid[i].replyTo
              IN  /\ k \in DOMAIN serverScopes
                  /\ serverScopes[k] = Name[clientSaid[r].scope]
                  /\ r \in callbacks \/ k \in DOMAIN attached
    /\ \A k \in DOMAIN attached :
          k \in DOMAIN serverScopes /\ serverScopes[k] = Name[attached[k]]

Attaching(s) == {i \in Accepting(s) : serverSaid[i].replyTo \notin callbacks}

RepliesInv ==
    /\ RepliesTypeOK
    /\ AnsweredOnce
    /\ CallbacksFollowSession
    /\ RepliedFirst
    /\ ScopesAgree
    /\ ChangesFindTheirScope
    /\ \A s \in Scopes : listeners[s] <= Cardinality(Attaching(s))
=============================================================================
