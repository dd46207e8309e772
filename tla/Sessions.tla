------------------------------ MODULE Sessions ------------------------------
(***************************************************************************)
(* The server's sessions, from the connection to the expiry, and the scope *)
(* they share.  A connection must send a SessionCreate message before a    *)
(* timeout; the application then accepts or denies the session, later.  An *)
(* accepted session is registered by its token until it expires.  It       *)
(* fetches the scope, is sent its state, and is told of each change set    *)
(* that another session or the server itself applies to it.                *)
(*                                                                         *)
(* Reading the state and applying a change set take several turns of the   *)
(* event loop: each stage of an async.waterfall is an immediate, and       *)
(* immediates run in the order they were set.  The scope is the number of  *)
(* change sets it has; a copy of it is a set of those.                     *)
(***************************************************************************)
EXTENDS Naturals, Sequences, FiniteSets

CONSTANTS
    Connections,    \* each with the one session it may get
    Server,         \* the author of what the server applies itself
    MaxVersion,     \* bound: change sets applied
    MaxFetches      \* bound: fetches of each session

ASSUME SessionsAssumption ==
    /\ IsFiniteSet(Connections) /\ Server \notin Connections
    /\ MaxVersion \in Nat /\ MaxFetches \in Nat

VARIABLES
    websocket,  \* "none", "open" or "closed", for each connection
    handshake,  \* how far each has got
    registry,   \* sessions in clientsBySessionToken
    count,      \* sessionsCount
    expired,    \* sessions that have expired
    fetches,    \* fetches made so far
    deciding,   \* of those, the ones the application has not answered
    listening,  \* listeners to "changes" that each session has added
    scopes,     \* the sessions with the scope in _scopes
    stated,     \* those whose client has been sent the state
    held,       \* the change sets in the copy of each client
    version,    \* change sets in the scope
    lock,       \* whether one is being applied
    immediates, \* what the next turns of the event loop do
    crashed     \* whether an exception that nobody catches was thrown

connectionVars == <<websocket, handshake, registry, count, expired>>
scopeVars == <<fetches, deciding, listening, scopes, stated, held, version, lock,
               immediates>>
vars == <<connectionVars, scopeVars, crashed>>

Handshakes == {"none", "waiting", "created", "accepting", "accepted", "denied", "refused"}
Versions == 1..MaxVersion

Tasks == [do : {"list"}, for : Connections]
         \cup [do : {"fragments"}, for : Connections, held : SUBSET Versions]
         \cup [do : {"commit"}, for : Connections \cup {Server}]
         \cup [do : {"announce"}, for : Connections \cup {Server}, held : SUBSET Versions]

TypeOK ==
    /\ websocket \in [Connections -> {"none", "open", "closed"}]
    /\ handshake \in [Connections -> Handshakes]
    /\ registry \subseteq Connections /\ count \in 0..Cardinality(Connections)
    /\ expired \subseteq Connections
    /\ fetches \in [Connections -> 0..MaxFetches]
    /\ deciding \in [Connections -> 0..MaxFetches]
    /\ listening \in [Connections -> 0..MaxFetches]
    /\ scopes \subseteq Connections /\ stated \subseteq Connections
    /\ held \in [Connections -> SUBSET Versions]
    /\ version \in 0..MaxVersion
    /\ lock \in BOOLEAN
    /\ immediates \in Seq(Tasks)
    /\ crashed \in BOOLEAN

Init ==
    /\ websocket = [c \in Connections |-> "none"]
    /\ handshake = [c \in Connections |-> "none"]
    /\ registry = {} /\ count = 0
    /\ expired = {}
    /\ fetches = [c \in Connections |-> 0]
    /\ deciding = [c \in Connections |-> 0]
    /\ listening = [c \in Connections |-> 0]
    /\ scopes = {} /\ stated = {}
    /\ held = [c \in Connections |-> {}]
    /\ version = 0
    /\ lock = FALSE
    /\ immediates = <<>>
    /\ crashed = FALSE

Handshake(c, from, to) ==
    /\ ~crashed
    /\ handshake[c] = from
    /\ handshake' = [handshake EXCEPT ![c] = to]
-----------------------------------------------------------------------------
\* The connection and the handshake.

Connect(c) ==
    /\ Handshake(c, "none", "waiting")
    /\ websocket' = [websocket EXCEPT ![c] = "open"]
    /\ UNCHANGED <<registry, count, expired, scopeVars, crashed>>

\* connection.deny: by the application on connection, for a first message
\* that is no SessionCreate, or when the timeout has fired.
Refuse(c) ==
    /\ Handshake(c, "waiting", "refused")
    /\ websocket' = [websocket EXCEPT ![c] = "closed"]
    /\ UNCHANGED <<registry, count, expired, scopeVars, crashed>>

\* The first message comes in time.
SessionCreate(c) ==
    /\ Handshake(c, "waiting", "created")
    /\ websocket[c] = "open"
    /\ UNCHANGED <<websocket, registry, count, expired, scopeVars, crashed>>

\* session.accept: the token takes a while.
Accept(c) ==
    /\ Handshake(c, "created", "accepting")
    /\ UNCHANGED <<websocket, registry, count, expired, scopeVars, crashed>>

\* The session is registered before its transport is made, which throws if
\* the websocket has closed meanwhile.
AcceptNewSession(c) ==
    /\ Handshake(c, "accepting", "accepted")
    /\ registry' = registry \cup {c}
    /\ count' = count + 1
    /\ crashed' = (websocket[c] # "open")
    /\ UNCHANGED <<websocket, expired, scopeVars>>

\* Denied by the application, or no token could be made.
DenyNewSession(c) ==
    /\ \/ Handshake(c, "created", "denied")
       \/ Handshake(c, "accepting", "denied")
    /\ crashed' = (websocket[c] # "open")
    /\ UNCHANGED <<websocket, registry, count, expired, scopeVars>>

WebsocketCloses(c) ==
    /\ ~crashed
    /\ websocket[c] = "open"
    /\ websocket' = [websocket EXCEPT ![c] = "closed"]
    /\ UNCHANGED <<handshake, registry, count, expired, scopeVars, crashed>>

ResumeSession(c) ==
    /\ ~crashed
    /\ c \in registry /\ websocket[c] = "closed"
    /\ websocket' = [websocket EXCEPT ![c] = "open"]
    /\ UNCHANGED <<handshake, registry, count, expired, scopeVars, crashed>>

\* The session lets go of its client and its scopes.
SessionLetsGo(c) ==
    /\ expired' = expired \cup {c}
    /\ scopes' = scopes \ {c}

\* The client closes the transport.  That throws when the websocket is open:
\* what the callback returns, nothing, is added as a listener to its close.
CloseTransport(c) ==
    /\ websocket' = [websocket EXCEPT ![c] = "closed"]
    /\ crashed' = (websocket[c] = "open")

\* Mutant: the entry stays in the registry.
ForgetCountOnly(c) ==
    /\ count' = count - 1
    /\ UNCHANGED registry

\* The listener forgets the token.
ForgetToken(c) ==
    /\ registry' = registry \ {c}
    /\ count' = count - 1

\* Mutant: the timer is not cleared, and fires once more.
ExpireAgain(c) ==
    /\ ~crashed
    /\ handshake[c] = "accepted"
    /\ SessionLetsGo(c)
    /\ CloseTransport(c)
    /\ ForgetToken(c)
    /\ UNCHANGED <<handshake, fetches, deciding, listening, stated, held, version,
                   lock, immediates>>

\* The inactivity timer fires, and those who listen to "expire" are told in
\* this order.  What is thrown keeps the listener from being told.
Expire(c) ==
    /\ ~crashed
    /\ handshake[c] = "accepted" /\ c \notin expired
    /\ SessionLetsGo(c)
    /\ CloseTransport(c)
    /\ IF crashed' THEN UNCHANGED <<registry, count>> ELSE ForgetToken(c)
    /\ UNCHANGED <<handshake, fetches, deciding, listening, stated, held, version,
                   lock, immediates>>
-----------------------------------------------------------------------------
\* Fetch and sync.

Live(c) == c \in registry /\ websocket[c] = "open"

ScopeFetch(c) ==
    /\ ~crashed
    /\ Live(c) /\ fetches[c] < MaxFetches
    /\ fetches' = [fetches EXCEPT ![c] = @ + 1]
    /\ deciding' = [deciding EXCEPT ![c] = @ + 1]
    /\ UNCHANGED <<connectionVars, listening, scopes, stated, held, version, lock,
                   immediates, crashed>>

\* Either answer goes to the session's client, null once it has expired.
DenyFetch(c) ==
    /\ ~crashed
    /\ deciding[c] > 0
    /\ deciding' = [deciding EXCEPT ![c] = @ - 1]
    /\ crashed' = (c \in expired)
    /\ UNCHANGED <<connectionVars, fetches, listening, scopes, stated, held, version,
                   lock, immediates>>

\* Mutant: the session listens to the scope once the state has been sent.
AcceptFetchUnheard(c) ==
    /\ ~crashed
    /\ deciding[c] > 0
    /\ deciding' = [deciding EXCEPT ![c] = @ - 1]
    /\ scopes' = scopes \cup {c}
    /\ crashed' = (c \in expired)
    /\ listening' = [listening EXCEPT ![c] = IF c \in stated THEN @ + 1 ELSE @]
    /\ immediates' = IF c \in expired THEN immediates
                     ELSE Append(immediates, [do |-> "list", for |-> c])
    /\ UNCHANGED <<connectionVars, fetches, stated, held, version, lock>>

AcceptFetch(c) ==
    /\ ~crashed
    /\ deciding[c] > 0
    /\ deciding' = [deciding EXCEPT ![c] = @ - 1]
    /\ scopes' = scopes \cup {c}
    /\ listening' = [listening EXCEPT ![c] = @ + 1]
    /\ crashed' = (c \in expired)
    /\ immediates' = IF c \in expired THEN immediates
                     ELSE Append(immediates, [do |-> "list", for |-> c])
    /\ UNCHANGED <<connectionVars, fetches, stated, held, version, lock>>

\* A change set, from a client that has the state or from the server.
BeginApply(author) ==
    /\ ~crashed
    /\ ~lock /\ version < MaxVersion
    /\ author # Server => author \in stated /\ Live(author)
    /\ lock' = TRUE
    /\ immediates' = Append(immediates, [do |-> "commit", for |-> author])
    /\ UNCHANGED <<connectionVars, fetches, deciding, listening, scopes, stated, held,
                   version, crashed>>

Task(do) == ~crashed /\ immediates # <<>> /\ Head(immediates).do = do
Then(task) == immediates' = Append(Tail(immediates), task)

\* Mutant: what goes wrong is not passed on, nothing follows.
ListModelObjectsOnly ==
    /\ Task("list")
    /\ immediates' = Tail(immediates)
    /\ UNCHANGED <<connectionVars, fetches, deciding, listening, scopes, stated, held,
                   version, lock, crashed>>

\* sendScopeStateMessage: the model objects of the scope are listed,
ListModelObjects ==
    /\ Task("list")
    /\ Then([do |-> "fragments", for |-> Head(immediates).for, held |-> 1..version])
    /\ UNCHANGED <<connectionVars, fetches, deciding, listening, scopes, stated, held,
                   version, lock, crashed>>

\* and a turn later they are sent, unless the session has expired.
SendScopeState ==
    /\ Task("fragments")
    /\ LET task == Head(immediates)
       IN  /\ stated' = stated \cup {task.for}
           /\ held' = [held EXCEPT ![task.for] = @ \cup task.held]
           /\ crashed' = (task.for \in expired)
    /\ immediates' = Tail(immediates)
    /\ UNCHANGED <<connectionVars, fetches, deciding, listening, scopes, version, lock>>

\* The created objects are committed to the scope,
Commit ==
    /\ Task("commit")
    /\ version' = version + 1
    /\ Then([do |-> "announce", for |-> Head(immediates).for, held |-> {version + 1}])
    /\ UNCHANGED <<connectionVars, fetches, deciding, listening, scopes, stated, held,
                   lock, crashed>>

\* The clients that learn of a change set: their sessions listen to the
\* scope and have it still.  A client drops what comes before the state: it
\* does not know the root yet.
Told == {c \in stated \cap scopes : listening[c] > 0}

\* and a turn later "changes" is emitted, the lock released and the reply
\* sent.
Announce ==
    /\ Task("announce")
    /\ LET author == Head(immediates).for
       IN  /\ held' = [c \in Connections |->
                 IF c \in Told \cup {author} THEN held[c] \cup Head(immediates).held
                 ELSE held[c]]
           /\ crashed' = (author \in expired)
    /\ immediates' = Tail(immediates)
    /\ lock' = FALSE
    /\ UNCHANGED <<connectionVars, fetches, deciding, listening, scopes, stated, version>>

Immediate == ListModelObjects \/ SendScopeState \/ Commit \/ Announce

Next ==
    \/ \E c \in Connections :
          \/ Connect(c) \/ Refuse(c) \/ SessionCreate(c)
          \/ Accept(c) \/ AcceptNewSession(c) \/ DenyNewSession(c)
          \/ WebsocketCloses(c) \/ ResumeSession(c) \/ Expire(c)
          \/ ScopeFetch(c) \/ DenyFetch(c) \/ AcceptFetch(c)
    \/ \E author \in Connections \cup {Server} : BeginApply(author)
    \/ Immediate

Spec == Init /\ [][Next]_vars
FairSpec == Spec /\ WF_vars(Immediate)
-----------------------------------------------------------------------------
\* Properties.

\* While the process lives the registry has the sessions that were accepted
\* and have not expired, each counted once, however websockets close and
\* come back and whatever the application takes its time for.
RegistryAgrees ==
    ~crashed => /\ registry = {c \in Connections : handshake[c] = "accepted"} \ expired
                /\ count = Cardinality(registry)

\* Between turns of the event loop the copy of each client that was sent the
\* state has every change set of the scope: the one committed while the
\* state was read is in the state, or is announced after it.
MissesNothing ==
    ~crashed /\ immediates = <<>> =>
        \A c \in stated \ expired : held[c] = 1..version

\* A session that has the scope is sent its state, or expires first.
StateSent == \A c \in Connections :
    c \in scopes ~> (c \in stated \cup expired \/ crashed)

\* lib/transport/websocket_transport_listener.js: "Ensure when the session
\* expires we remove it".
ExpiredIsRemoved == expired \cap registry = {}
=============================================================================
