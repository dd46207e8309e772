# Jetstream, specified

Jetstream keeps a shared set of models (a *scope*) in step between a Node
server (`lib/`) and many clients (`client/lib/` is the JavaScript one). A client
establishes a *session* over a websocket, fetches scopes into it, and from then on
sends *sync fragments* (add, change) for what its application changes and applies
those the server sends for what the others change. The session outlives its
websocket: both ends number their messages, keep what the other has not
acknowledged, and resend it when a new websocket takes the place of a dead one.

This directory models that program in TLA+, checks the models with TLC and proves
the most important results with TLAPS.

## Inventory

| Component | Source | State | Operations | What makes it correct |
|---|---|---|---|---|
| Server transport | `lib/transport/websocket_transport.js`, `abstract_transport.js` | connection, highest index received, pending queue, messages not acknowledged, a send in progress, listeners waiting for its end, ping timer | transportMessage, flush, end of a send, message received, Ping received, resend, resume, close of a websocket, ping timer | nothing the client lacks is forgotten; nothing is skipped; memory drains; a live connection is used |
| Client transport | `client/lib/transport/*` | status, websocket, explicitly closed, session set, messages not acknowledged, ping timer, reply callbacks | connect, disconnect, reconnect, sendMessage, open, close, message, ping | the same, for the other direction; a lost connection comes back |
| Listener, connections | `lib/transport/websocket_transport_listener.js`, `*_connection.js`, `lib/server.js` | clients by token, count of sessions, handshakes with their timeout | new connection, first message, timeout, accept, deny, resume, expiry | one session per token; what is counted is registered; a late accept harms nothing |
| Server session, client | `lib/session.js`, `lib/client.js` | next index, scopes, accepted, expired, client, inactivity timer | accept, deny, scope fetch (answered by the application, later), sync, scope changes, expire | a reply for each request; no broadcast twice or to its originator; nothing after expiry |
| Server scope | `lib/scope.js` | root, objects by uuid, write lock | apply fragments (procedure, storage, create, add, change, collect orphans), fetch, queries | what is kept is exactly what the root reaches; application is serial; replies tell the truth |
| Model graph | `lib/model_object.js`, `collection.js`, and the client's | values, parents, scope | set, collection operations, attach and detach | parents mirror values; attached means reachable |
| Sync fragments | `lib/sync_fragment.js`, `client/lib/sync-fragment.js` | - | create, apply, verify | a fragment applied reproduces the object |
| Client session and scope | `client/lib/session.js`, `scope.js`, `client.js` | server index, scopes, remote flag, pending fragments, change timer | fetch, state, sync, local change, send changes | replicas converge once quiet |
| Client change sets | `client/lib/change-set.js`, `change-set-queue.js` | state, values to revert to, the queue | add, replies, rebase, revert | a denied change leaves no trace |
| Synthetic transport | `lib/transport/synthetic_*.js` | indices, buffered messages | send, receive, resume | in order, each once |
| Procedures, constraints | `lib/procedures/*` | registered procedures | match, apply | a fragment is accepted iff every constraint is met |
| Storage, persistence | `lib/middleware/*` | stored documents | fetch, store, per-type write concern | a denied write is denied |
| Queries | `lib/query/*` | - | find, push, pull, set, addToSet | what is applied is still what was found |

Both programs run one callback to completion at a time. What is hard is between the
callbacks: a websocket dies at one end long before the other knows; an answer of the
application, a store or a socket comes after the session has moved on; a timer
fires in a state nobody planned for; acknowledgements and resends cross.
`PROJECT.json` lists these hazards one by one, each at its line.

## Modules

| Module | Models |
|---|---|
| `TransportMessages` | the fields of a message that the transports read, and the arrays of unacknowledged messages |
| `WebsocketTransport` | the server's transport, one action per callback |
| `ClientTransport` | the client's adapter and the indices of its session |
| `ReliableLink` | the abstract specification: one direction of a session with no connection to lose |
| `Channel` | the two transports composed with websockets that fail, and all their properties |
| `Replies` | what the messages of `Channel` say: fetches, changes, replies and their callbacks, states, syncs, and the scopes each session knows |
| `Channel_proofs` | theorems about `Channel` and `Replies` |
| `Sessions` | the listener, sessions and clients of the server, and when each is told of a scope's changes |
| `Sessions_proofs` | theorems about `Sessions` |
| `ModelGraph` | the server's objects, collections and parent relationships, as operators on a graph |
| `ScopeApply` | a scope and the stages in which a change set is applied to it, over `ModelGraph` |
| `ScopeApply_proofs` | theorems about `ScopeApply`, and lemmas about the operators of `ModelGraph` |
| `Updates` | queries, and change sets with a procedure, that compete for the write lock |
| `Updates_proofs` | theorems about `Updates` |
| `ChangeSets` | a client's copy, its change sets and their queue, as operators |
| `Replicas` | clients and a server that share a scope, over `ChangeSets` |
| `Replicas_proofs` | theorems about `Replicas` |
| `ClientGraph` | a client's objects, its scope and the fragments they leave, with the server that applies them |
| `ClientGraph_proofs` | theorems about `ClientGraph` |
| `SyntheticTransport` | the transport an application feeds itself |
| `SyntheticTransport_proofs` | theorems about `SyntheticTransport` |
| `Lists` | lodash's `without` |
| `ListFacts` | lemmas about the least of a set of naturals, about functions defined one value from the one before, and about what the library's operators on sequences (`SelectSeq`, `SelectInSeq`, `SelectLastInSeq`, `RemoveAt`, `Append`, `Tail`) return |
| `MC...` | each of these for TLC |

They meet at their assumptions. `Channel` shows what the session delivers; `Replies` extends it by what the
messages say, and adds nothing to the transports but the one message they cannot read; `Sessions` and
`Replicas` take the delivery for granted. `ScopeApply` says what one change set makes of the
objects while it has the lock; `Updates` says who gets the lock when; `Sessions` says who is
told; `Replicas` and `ClientGraph` say what a client makes of it, the first for the values of
properties with several writers and denials, the second for the objects and how
they hold each other with one writer at a time.


### From the code to Channel

* `nextMessageIndex`, `clientIndex`, `pendingSends`, `nonAckedSends`,
  `pingTimeout`, `connection` are the fields of the same names of the server's
  session and transport; `attempt` stands for `_sending` with the batch the closure
  `done` holds; `sendAttemptListeners` are the `once('sendAttempt')` registrations.
  `status`, `socket`, `explicitlyClosed`, `sessionSet`, `nonAckedMessages`,
  `serverIndex`, `clientNextIndex` are those of the client's adapter and session.
* An action is a callback. `SendDone` is the callback of `websocket.send`: it emits
  `sendAttempt`, whose listeners run in the same callback. They are the steps
  `ServerListener`, and no other action of the server is enabled while one is left
  (`running`).
* A websocket is a number, in the order the client creates them. Each end notices its
  death by itself. What the server writes to a websocket the client has left is
  lost; what the client wrote before leaving may still arrive, for the server goes
  on listening to every websocket it ever had. The client handles the messages of a
  batch in one callback; here each is a step, which adds behaviours and takes none.
* The messages an end has not acknowledged are kept as the set of their
  indices: the arrays ascend, so `InOrder` gives the array back. Two things are left out
  of the client's array: its own Pings, which carry index 0 and no filter keeps,
  and second copies of what a resend pushes again, which the server drops by their index.
* The composition and parsing of JSON is taken to be done at once, and every message to be readable.
  One is not, the denial of a fetch: see `Replies`. `EverythingDelivered` and `NoGapOnceRecovered`
  are about sessions in which none is denied.
* The expiry of a session and `close()` of the transport are in `Sessions`. The
  application's own `disconnect()` is left out.

### From the code to Replies

* `clientSaid` and `serverSaid` are what the messages with the indices 1, 2, 3... say: what
  `Channel` carries is the index, and both arrays are only appended to. `callbacks` are the keys of the
  transport's `_callbacks`, `attached` and `serverScopes` the `_scopes` of the two sessions,
  `listeners` how often `_onScopeChanges` was added to a scope. `deciding` are the messages the server's
  session has taken and not yet answered (a fetch waits for the application, a change for the scope's
  lock), `stating` the fetches it is gathering the state for.
* `Receive` is the whole callback of a message that comes in: `_onReplyMessage`, then the check of the index
  and what follows from it (`ClientReceives` of `ClientTransport`). `TakeRequest` is the
  same at the server. An answer and what is said of a scope are steps of their own, in any order the
  immediates, the stores and the application allow.
* The constructor of the client's `ScopeFetchReplyMessage` asserts a `scopeIndex`, which a denial has not.
  `BaseMessage.parse` then returns null, and the session throws on it: `ReceiveDenial`. What is left of the
  array it came in is lost (`AfterThrow`): any number of the messages in flight, as long as the
  websocket could have taken one more. With `MaxInFlight = 1`, as in the runs, that is all of them, no more
  and no fewer than in the code.
* An index is counted from 1. Two Scope objects of one name take each other's place in `attached`; the one
  that lost its place would send its change with index -1, which the server's constructor refuses
  (`lib/message/scope_sync_message.js:34`). `Change` stops before that.
* The message that a second listener makes has an index and is never sent (`queuedTwice`); nothing
  is followed after that.

### From the code to Sessions

* A connection and the session it may get have one name. `handshake` is how far
  `_onConnection`, `_onNewSession` and the application's decision have come; `registry` and
  `count` are `clientsBySessionToken` and `sessionsCount`.
* A stage of an `async.waterfall` is an immediate; `immediates` is the event loop's queue
  of them. `ListModelObjects` and `SendScopeState` are the two turns of `sendScopeStateMessage`,
  `Commit` and `Announce` the last two of an apply. The scope is counted in change sets,
  and a copy is the set of those it has.
* `crashed` is an exception nobody catches: a transport made for a closed websocket
  (`websocket_transport.js`), a continuation that uses `this.client` after the session has
  expired, and `close()`, which adds `undefined` as a listener when the websocket is open. Node
  then ends the process, and the model stops.

### From the code to ModelGraph and ScopeApply

* An object is a number and has a uuid, for a change set can name a uuid again that
  failed before. It has one value property that holds an object, `child`, and one collection,
  `items`; values that are not objects do not matter to what is checked.
* A parent relationship is a uuid and a property, as the code compares them. The setter of
  a collection catches what `_removeParent` throws: `AssignItems` then
  leaves what the code leaves. What a setter of a value throws nobody catches in an apply; it is shown never to throw.
* `doubled` and `strays` are history, which no step depends on: whose collection has ever held an object twice (or was
  given once more what it held), and what came into the scope with the root though nobody held it.
* The application makes and edits objects at any time that a callback of its own can run: also while an apply waits between
  two stages (`NewObject`, `EditByHand`). It edits the objects that go by their uuid (`Owners`): one
  that failed to be added and whose name was given again is let be.
* `stage` is the stage of the waterfall in `applySyncFragmentsWithLock`. Fragments are chosen as
  they are read, so a run goes through every change set, without enumerating them
  first. `removeRoot` waits for no lock and is always possible, but inside a round of orphans, which is one turn of the event loop.

### From the code to Updates

* The scope is a root with a collection and a child, a group, with another. A query
  finds its object (`StartQuery`), asks for the lock for each of its operators, binds its
  fragments to what is there when it has it (`BindFragments`) and applies them. The lock is a queue
  as in rwlock. The remote end of a procedure answers between `Verify` and `ApplySync`,
  fails (`RemoteFails`) or answers with updates, which are queries of their own: one that fails is
  logged, and the next is made (`updating`).
* `due` is not in the code: it is what the operations leave one at a time.

### From the code to ChangeSets and Replicas

* A model has one property. `props` and `orig` are the new and original values of its
  fragment; `touches` of a change set what it would restore; `stuck` is a change set denied in
  part, which never leaves the queue.
* `Policies` says what denies fragments: nothing, whole change sets, or single fragments. `Writers` says
  who edits what. `Patient` applications edit nothing between a denial and its settlement. An application
  that is not `Returning` leaves a model alone while a change set without it waits behind one with it: its change sets of
  one model follow each other (`NamedLast`).
* `Arriving` is what a copy will be once what is on its way has arrived, `Expected` what the
  server's scope will be if it accepts all that is on its way to it.

### From the code to ClientGraph

* `parents`, `scope`, `fragments`, `removed`, `changesQueued` are `_parentRelationships`,
  `scope` of a model object, `_syncFragments`, `_removedModels` and `_changesQueued` of the scope.
  The setters call each other as in the code: a new value is in place before the old one is told,
  which tells the parent in turn. `remote` is `_applyingRemote`.
* The server is what `ScopeApply` makes of a change set, in one step (`Applied`).
* The application is careful: `Discipline` names what it does not do, since the
  code then ends in a state nobody would want. See *Known divergences*.
* Objects form no circles (`setScope` sets the scope after the children's and would
  not end), and nothing holds the root (detached, it would leave its own scope).

### From the code to SyntheticTransport

* A request is a connection with a payload. `outOfOrder` counts the copies of each message in
  `_outOfOrderMessages`; the array is sorted before it is read. A payload of several
  messages is several requests that arrive in order.
* `given` is what responses carried. The client is not in the repository: it repeats its
  first message that is not handled, and others at will.

## Runs

Constants of `Channel`: `MaxServerMessages`, `MaxClientMessages`: messages each session
sends; `MaxSockets`: websockets the client creates; `MaxInFlight`: a websocket with
this many messages takes no more until some arrive; `MaxWaiting`: how many
listeners may pile up behind a send before the ping timer is held back; `Tokens`:
whether the client's later websockets carry the session token; `LateClose`:
the websockets whose close the server may see only after it has accepted a later one.

| Run | Bounds | Shows |
|---|---|---|
| `channel_safety` | 2 server and 1 client messages, 3 websockets, with and without tokens, the close of websocket 1 may be late | `TypeOK`, `UnseenRetained`, `InFlightTruthful`, `NoGapOnceRecovered`; `DownLinkReliable`: `Channel` implements `ReliableLink` from server to client |
| `channel_liveness` | 2 and 1 messages, 2 websockets with tokens, no close is late | `EverythingDelivered`, `RetainedDrains` |
| `channel_uplink` | 2 client messages, 2 websockets | violates `UpLinkReliable`: the server skips a lost message |
| `channel_lateclose` | the close of websocket 1 may be late | violates `LiveConnectionKept` |
| `replies_fetches` | 2 server and 3 client messages, 2 websockets with tokens, 2 scopes (alike: symmetry), 1 message in flight; the third message of the client only while no websocket was lost (`LastBeforeLoss`) | `CallbacksFollowSession`: a callback runs once, and for what the session has taken; `AttachedWhenTaken`: what is taken of a scope finds it; `OneListenerPerFetch`; `ChangesFindTheirScope`: the two sessions agree on a scope's index |
| `sessions_apply` | 2 sessions, 2 fetches each, 2 change sets | `TypeOK`; `RegistryAgrees`: registry and count agree with who was accepted and has not expired; `MissesNothing`: who has the state misses no change set; `StateSent` |
| `sessions_expiry` | the same | violates `ExpiredIsRemoved`: `close()` throws, and the listener never learns of the expiry |
| `scope_apply` | 3 objects, 3 uuids, collections of none, one, and one object twice, 1 edit by hand and 2 change fragments of one property, each at any time | `ParentsMirror`: both sides of a parent relationship agree; `ScopedDistinct`; `OrphansRemoved`, `OnlyOrphansLeave`, `HeldIsKept`: what the removal of orphans takes and leaves; `LockReleased` |
| `updates_lock` | 2 requests of at most one operation, arrays of 1 and 2 objects | `Serial`: what requests leave is what they leave one at a time; `GrowsAsVerified`; `Answered` |
| `replicas_owned` | 2 clients, 2 models edited by one of them, which does not return, 3 edits, every policy | `ReadersFollow`, `WriterAhead`, `RepliesExpected`, `Settles` |
| `client_careful` | 2 objects of the application, 1 of others, 3 edits, 1 write of others | `ParentsMirror`, `ScopeIsReached`, `ServerCatchesUp`: the fragments gathered bring the server to the client's state |
| `synthetic_order` | 4 messages each way, 2 requests at once, 2 copies of a message, 1 response that throws | `InOrderOnce`, `NoneForgotten`, `Handled` |

Every passing run also checks the type invariant of its module.

Two messages are the least that can be reordered, doubled or skipped; three websockets
are the least in which a resend is cut short and asked for again, and an
acknowledgement of the first websocket meets the resend on the third. `MaxInFlight` limits
how much is on the wire, not what a batch may hold. One late close is enough for the
mix-up it can cause, two websockets at the server of which the older one closes last.
In `Replies` two messages of the server are a reply and a state of its scope, which is enough for a reply
that is lost and resent before or behind what depends on it; three of the client are two fetches, in
either order, and a change of what came of them. The code accepts both values of `Tokens`: an iOS or other client sends the token, the
client in `client/lib` never does.

Two sessions are the author of a change and one who is told, or one who fetches while
another's change is committed; two fetches meet each other. Three objects make a circle
cut off from the root, an orphan that orphans another, a move from one parent to another
and an add that is denied after it was given to somebody; a second change fragment undoes or
builds on the first, and one edit by hand comes before, after or between any two stages (the proofs are for any number). A fragment sets one
property or none, for one that sets both comes to two in sequence. `Rooted` of `MCScope` bounds when the
root is removed: between two applies, after which there is no other, or from the change stage of one on, when
the apply has objects to go on with. Two requests are the one that finds and waits and the one that writes meanwhile. Three
edits make a chain of change sets of which the middle one is denied. Two of the application's objects
make a tree that moves. Four messages and two requests fill the buffer with a gap before
a run and copies in it.

Deadlock is not checked: in every run the system really stops. Clients are closed for good, processes
crash, or all that the bounds allow has been done.


### Fairness

`FairSpec` says that callbacks that are due run: immediates, timers, websocket events.
The event loops of Node and the browser do this. It also says that the death of a
websocket one end has left is noticed by the other some time, and that what is
written to a live one arrives. It does not say that a session sends, nor that a healthy
websocket fails. Three actions of the server are strongly fair. They are
always enabled between callbacks, but `running`, which splits one callback into
steps, turns them off and on again.

Liveness is checked with `LateClose` empty: with a late close, the session loses its live
connection (`channel_lateclose`) and nothing more is delivered.

The other modules ask for the same and no more: that the stages of an apply follow each
other (`ScopeApply`), that immediates run (`Sessions`), that each request's next callback runs
(`Updates`: rwlock gives the lock in turn, and the remote call has a timeout), and that the change
timer fires, the server takes what arrives and messages are delivered (`Replicas`). In
`SyntheticTransport` the client is fair as well: it repeats its first message that is not handled,
strongly, for the bound on requests turns the action off and on; each request arrives. No edit, fetch,
denial, expiry or failure is fair.


## Proofs

The theorems hold for every value of the constants: any number of messages,
websockets, sessions, objects, names, requests. Each module below proves `Init => IInv`,
`IInv /\ [Next]_vars => IInv'` with one lemma for each action, and draws its theorems
from `[]IInv`.

`Channel_proofs`: `TypeCorrect`, `Retention` and `Truthful` are the invariants of the run
`channel_safety`; `PingTimer`, that the timer runs while there is a connection, is part of the same `IInv`; `DownLink` is `Spec => DownLinkReliable`, the
refinement of `ReliableLink`. `IInv` adds two facts: whatever is queued, being sent or in
flight carries an index its sender has given out and acknowledges only what its sender has taken
(`InFlightTruthful`), and the sets of unacknowledged indices and the highest indices taken
are below the next index (`IndicesGivenOut`). Without the first an acknowledgement could be of
messages the other end never saw; with it, filtering by any acknowledgement that
arrives, however old, is safe. For the refinement, `ServerSends` is `Produce`, the taking of
the next index is `Consume`, a Ping at the server is `Forget`, and all else stutters
(`DownStep`). `NoGap`, `Spec => NoGapOnceRecovered`, needs an order as well: what is in flight to the client, then
the batch still to be written to its websocket, then the queue, form one sequence (`OnItsWay`), and `FlowInv` says that behind
every Ping in it that asks for a resend, and from its head once such a Ping has arrived, it covers what
the client lacks (`Covers`): no index is missing, and none comes before the one below it. The same holds of the batch and
the queue without what is in flight, which is what remains when the batch's websocket turns out to be one the client
has left and the batch goes back in front of the queue. A second conjunct (`Placed`) keeps what is meant for an
older websocket out of the sequence. It is inductive because a resend replaces the queue by an array that
covers everything (`ResendQueue`), which rests on `UnseenRetained`, and everything else appends, moves
batches along the sequence or takes its head. The only assumption is `ChannelAssumption`, on the types of the constants.

The same module proves of `Replies`: `RepliesOnChannel`, `RepliesTypes`, `CallbacksInStep`, `ScopesKnown`,
`ChangesAddressed`, `ListenersBounded`. `RepliesOnChannel` is the link between the two modules: `RepliesSpec`, as long as no
denial of a fetch comes in, implies `Spec` of `Channel`, so `DownLink` and `NoGap` are results about what the sessions say as well.
A denial that comes in is a step of its own, which keeps `IInv` (`DenialStep`), and so the
other five need no such condition. Their invariant is `RepliesInv`. The server answers each
message once and only what it has taken (`AnsweredOnce`), so a callback that is gone was for one certain
reply. `CallbacksFollowSession` then says that the callbacks and the session's index never part but in one way: a callback of
a reply beyond the next index runs only as the session gives up. It is inductive because a reply with a
callback is one the session has not taken, and a reply without has been taken before, however often the transport
resends it. `RepliedFirst` orders what the server says: nothing of a scope before the reply that names it. With
`CallbacksFollowSession` what is taken in order finds its scope (`ScopesKnown`), and `ScopesAgree`, that what the client has at an index
the server has under the same name, gives `ChangesAddressed`. `ListenersBounded` counts the accepted
fetches whose callback is gone (`Attaching`), one more for each listener added.

`Sessions_proofs`: `TypeCorrect`, `Registry` and `NothingMissed`. For the registry, what is counted
is registered and was accepted, and a session that has expired is out in the same step. For
what a session misses: there is one writer under the lock, and what was read for a
state lacks at most the one change set that is committed and not yet announced; the
listener for changes is added in the turn that sends the state, so the announcement, which comes in a
later turn, reaches it.

`Updates_proofs`: `AppliedAsVerified`, `TypeCorrect`, `UpdatesAreSerial`. A request that has bound its
fragments is first in the queue of the lock (`LockInv`), so nobody writes between what was verified
and what is applied (`VerifiedInv`), and what a query has bound is still the fragment it would bind now
(`BoundInv`). Applied, it leaves what its operation leaves of the arrays as they are (`ApplyDue`),
which is how `due` goes on. A query that found its object before it had the lock thus writes over nothing.

`Replicas_proofs`: `TypeCorrect`, `RepliesAreExpected`, `ReadersNeverDiverge`, `WritersStayAhead`,
`SingleWritersConverge`. `IInv` holds whoever writes and whatever is denied: as many change sets
wait as replies and change sets are on their way (`Counted`), so that a reply finds the one it is for; only
the first message can be a state (`StateFirst`); and a `Bystander`, who does not write a model or has
no state yet, has with what is on its way the server's value (`Follows`). `OwnersInv`, for the only writer of a model, is
about its whole chain of change sets: `Lined` says that the first wait for the replies on their way and the
others are, in order, what is on its way to the server; `Ahead`, for each model, that the change
sets that name it follow each other and each would restore what the one before set (`Chained`), that
the fragment not sent yet continues from the last of them (`Gathered`), that without one
the client has what it sent last (`AllSent`), and that the server has what it accepted last or, when all that
is answered left the queue, what the first of them would restore (`Decided`). Rebasing is what keeps
`Decided` when the first is denied: the next one then restores what the server really has, and it is the next in the queue
because the writer does not return to the model over a change set without it. Each condition of `WriterAhead` is needed (see
*Known divergences*). `SingleWritersConverge` says what then remains of `Converged`: with nothing on its way, the
only writers and the readers of every model have the server's values.

`SyntheticTransport_proofs`: `TypeCorrect`, `Ordered`, `BufferEmptied`, `AllAccountedFor`. What is taken
from the buffer is a run: an interval of indices that begins at the next one. That it ends at
the first gap needs the least missing number to exist, which `ListFacts` draws from
the well-foundedness of `<`. In the same way, by a least number for which it fails, it shows what
`Without`, a recursive function, makes of a sequence.

`ScopeApply_proofs`: all the safety properties of the run `scope_apply` (`TypeCorrect`, `ParentsAgree`,
`NamesDistinct`, `OrphansGone`, `KeptIfHeld`, `OnlyOrphans`), whatever fragments come, whatever is edited by hand
between any two stages, and whichever collections hold an object twice. None
is inductive without the others. A parent is known by uuid, so an edit keeps the two sides of
a relationship in step only if no other object that is edited has the uuid of the
edited one: `Owners` stay distinct (`OwnersDistinct`), since the names are checked against the scope when an object is made. That an
orphan is held by nobody, so that nothing refers to it once it has left, is the relationships in step again
(`AloneIsUnheld`). The steps on the graph are reasoned about in two parts (at the head of the module): what setting a value,
setting a collection and splicing may have changed whatever the collection held (`Touched`), and that the edited property is in
step afterwards if its collection held nothing twice and is not given what it holds (`InStep`). `GraphSound` asks the second of
all collections but those of `doubled`, and since every operation leaves the others alone, what such a collection loses count of stays
with it (`EditedSound`): in particular no setter of a value ever throws, which in an apply nobody would
notice. Assumed are `GraphAssumption` and `ApplyAssumption`, on the types of the constants.

`ClientGraph_proofs`: `TypeCorrect`, `ParentsAgree`. The two sides of a relationship, what an object knows (`Knows`)
and what holds it (`Holds`), disagree in the middle of a setter, so the lemmas say of each operation what it does to
either side: `SetScope`, `AddModel`, `RemoveModel` and `KeyChanged` nothing (`SameGraph`), `AddParent` adds one
slot to what an object knows (`Learns`), `RemoveParent` takes one from both sides (`Forgets`). A handler that runs over
a sequence is a function whose value for n is made of its value for n - 1; that there is such a function
(`Iterates`) and what it ends with (`Upwards`, induction on the number of steps) are facts of `ListFacts`. The
setters (`SetChildMirror`, `SpliceMirror`, `ResetMirror`, `DetachMirror`) then end with the sides in step if they
began so, whatever the arguments, with one exception: a property that is set the object it has. That is what `IInv`
is about besides the mirror itself: the application does not do it (`Discipline`: nothing is put below itself or where it is), and
what others send gives no children, which for the state of the scope is true because the server's objects are
the first ones until it has arrived (`BeforeState`). Neither `MayTake` nor `MayPut` is used: the
relationships agree even for an application that is careless in the other ways that `Discipline` excludes.

`ScopeReached` and `NothingForgotten`, in the same module, need all of `Discipline`. Their invariant is `SInv`. Between the steps
the client is `Settled`: there is a rank of the objects by which parents rank lower (so nothing is below itself), an
object other than the root is in the scope if and only if each of its parents is and it has one (`Uniform`), and
nothing that was removed is in the scope. From that alone the scope is what can be reached from the root (`Reached`): going up by
falling rank from an object of the scope ends at the root. The second part is `Told`: what each fragment
says of its object, given what the server will have once it has taken what is on its way (`ComingOf`). An add fragment stands if and
only if the server will not have the object, each key is in the fragment or is as the server will
have it, and what the server has and the scope has not was removed. `Caught` draws from it that applying the fragments
leaves the server with the client's scope.

A setter takes several calls, and in between neither holds. What does is `Going`: while p is being changed, with P still to be put into it
and T to be taken from it, the two sides of links disagree at p only, p ranks below all of P and T, what is
below one of P may be held by p (`MayHold`, from `MayPut`), what is below one of T is below nothing else (`MayLose`, from
`MayTake`) and has none of P in it, and the fragments tell everything but the key of p that was set. Each of `AddParent`,
`RemoveParent` and `KeyChanged` keeps it (`AddGoes`, `RemoveGoes`, `KeyGoes`), a `KeyChanged` adds the key, and so
the setters end `Settled` with all of it told (`SetChildEnds`, `SpliceEnds`, `ResetEnds`, `DetachEnds`). What is given may
have anything below it, so the ranks are lifted first (`Lifted`): all that is below P goes above p. `Unchanged`
is what makes `AddModel` right when it makes no fragment for an object removed since the last change set: the server will have
the object as it is. For the fragments of others `Silent` replaces `Told`: nothing is gathered, so the server has all
(`NothingToSay`), and what it makes of the same fragments is what the client has then (`WriteMatches`). That
relies on others writing only while nothing is on its way, as the guard of `OnScopeSync` says.

Proved and in no run: `PingTimerRuns` of `Channel` and `NoneLeftBehind` of `SyntheticTransport`, conjuncts of their
`IInv`. Only model-checked: liveness (`EverythingDelivered`, `RetainedDrains`, `LockReleased`,
`Settles`, `StateSent`, `Answered`, `Handled`), which is out of the prover's reach.

## Known divergences

Runs that expect a violation, each with its line in `PROJECT.json`:

* a message of the client that is lost with its websocket is skipped by the server
  (`channel_uplink`);
* the close of an old websocket takes away the live one (`channel_lateclose`);
* a session that expires while its websocket is open stays registered (`sessions_expiry`).

Met while modelling, and modelled as they are or excluded by an assumption, without a run:

* A client cannot read the denial of a fetch: the constructor of its `ScopeFetchReplyMessage` asserts a `scopeIndex`
  (`client/lib/message/scope-fetch-reply-message.js:34`), which a denial has not
  (`test/message/scope_fetch_reply_message.js:119-131`). The session throws on the null it is given, the
  fetch's callback never runs, and the next message counts as `Received message out of order`: the session is given up
  on a websocket that lost nothing (`ReceiveDenial` of `Replies`, fired by `replies_fetches`).
* A scope that is fetched twice has two listeners in the client, and the second queues the change set the
  first has queued, where `client/lib/change-set-queue.js:44` asserts that nobody does (`queuedTwice`).
* A client that returns to a model over a change set without it can keep a value that the server denied: of three
  change sets, the first and third of one model and the second of another, the first and third are denied, and only the one
  right behind a denied one is rebased (`client/lib/change-set-queue.js:62`). With `Returning = TRUE`, `Policies = {"whole"}`
  and four edits TLC finds `Converged` violated. `SingleWritersConverge` excludes it.
* `connect()` of the client always opens the bare url, so a client that comes back is a new
  connection to the listener, which waits for a SessionCreate; the comment at
  `lib/transport/websocket_transport_listener.js:111` takes that for a first connection.
* `reconnect()` of the client is `disconnect()`: after a gap it never comes back.
* `Client.disconnect` of the client tests `this.session` (`client/lib/client.js:62`), which nothing
  sets: the session, kept as `_session`, is not closed.
* Two clients that change one property at the same time differ for good: a sync is
  applied over a local change whose reply is still to come, while the server applies the
  local change after it (`client/lib/session.js:184`). `WriterAhead` and `SingleWritersConverge` ask for one writer.
* A rebase is on the first of the queue, not on the one denied, and of the change set right behind it
  only. An impatient application, or a server that denies parts, leaves the
  writer's copy behind (`WriterAhead` asks for neither). `WriterAhead` fails without any one of its three conditions.
* A second copy of a message at the head of the synthetic transport's buffer is never
  dropped; what a listener of a response sends is dropped when the queue is cleared.
* The length constraint of an array that shrinks compares as for one that grows
  (`Matches`).
* In the client: an object removed and put back before the timer fires gets no add
  fragment and loses its changes; setting a property to the object it has ends with null; an
  object held inside and outside the scope follows who let go last; an object that shares what is below it
  with the rest takes it along. `Discipline` of `ClientGraph` excludes these by its four
  conjuncts; without any one of them TLC finds `ServerCatchesUp` or `ScopeIsReached` violated. `reset()`
  to a new order of the same objects makes no fragment: `EditItems` excludes it, or else
  `ServerCatchesUp` is violated.
* A collection may hold one object twice: tests assign it (`test/model_object.js:848`) and a query can push what is there already
  (`test/query/push_query_operation.js:97-118`). There is one relationship for both. Let the root have the items `[m, m]` and
  no value, and a change set name x as its value and `[x]` as its items: the second copy of m has no relationship any
  more to remove, `_removeParent` throws (`lib/collection.js:80`), the setter swallows it (`lib/model_object.js:382`), and x
  never learns that the items hold it. When the value is set to null, x has no parents, and it is removed from the scope
  while the items of the root still hold it. `HeldIsKept` and `ParentsMirror` except, by name, what only such a collection holds (`doubled`); without
  the exception TLC finds both violated. All else keeps in step, as `ParentsAgree` and `KeptIfHeld` prove.
* `removeRoot` between two stages of an apply takes objects the apply goes on with; `OrphansRemoved`
  and the others hold nevertheless.


## Not modelled

* The expressions of remote procedures (`lib/query/expression.js`, `lib/query/*_evaluator.js`): pure functions
  that fill in urls, headers and bodies; what comes of them is seen by an external service only.
* The parsing and composition of messages and of key paths, and the checks of plain values
  against property types and enumerations: no state, and the models pass records whose fields are
  valid. A message the server cannot parse is dropped before anything
  in the models is touched; the one of the server's that the client cannot parse is in `Replies`.
* The definition of types, logging, the REPL, the entry points: wiring and I/O.
* Storage and persistence beyond the scope's set of objects: loaders and write concerns are the
  application's; what storage says of single fragments is ignored by the code (`Accept`).
* A collection of the client that holds one object twice (`ClientGraph`). On the server it is modelled
  (see *Known divergences*).
* A persistence middleware that calls back later than at once: an edit by hand could then come between two
  removals of one round of orphans.
* Edits by hand of an object that left the scope, or never joined it, and whose uuid another object has since (`Owners`).
* The application's own `disconnect()` of a client, and reply callbacks that throw.
* A client whose add fragment is denied: `ClientGraph` has no denials, `Replicas` no objects.

## Plan

1. `ClientGraph` with denials: what of a denied add fragment is taken back, over `ChangeSets`.
2. A second session of one client, with the callbacks of the first still waiting.
3. Simple value constraints, and the key paths of queries, as operators checked against a
   reference definition.
