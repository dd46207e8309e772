------------------------------ MODULE Channel -------------------------------
(***************************************************************************)
(* One established session: the server's transport, the client's, and the  *)
(* websockets between them, which break, deliver late and are replaced.    *)
(*                                                                         *)
(* A websocket is a number: the client creates 1, 2, 3...  Its two ends    *)
(* notice its death on their own: `socket` is the one the client uses,     *)
(* serverSocket says what the server knows of each.  What the client has   *)
(* sent on a websocket it has given up can still arrive; what the server   *)
(* sends on it is lost.                                                    *)
(***************************************************************************)
EXTENDS WebsocketTransport, ClientTransport

CONSTANTS
    MaxServerMessages,  \* bound: messages the server session sends
    MaxClientMessages,  \* bound: messages the client session sends
    MaxSockets,         \* bound: websockets the client creates
    MaxInFlight,        \* bound: a websocket this full takes no more writes,
                        \*        and no more Pings of the client's timer
    MaxWaiting,         \* bound: listeners behind a send that does not end
    Tokens,             \* whether a websocket the client creates carries the
                        \* session's token, as _onConnection looks for: the
                        \* adapter of client/lib never adds it, {FALSE}
    LateClose           \* the websockets whose close the server may see only
                        \* after it has accepted a later one

ASSUME ChannelAssumption ==
    /\ MaxServerMessages \in Nat
    /\ MaxClientMessages \in Nat
    /\ MaxSockets \in Nat \ {0}
    /\ MaxInFlight \in Nat \ {0}
    /\ MaxWaiting \in Nat
    /\ Tokens \in SUBSET BOOLEAN
    /\ LateClose \subseteq 1..MaxSockets

Sockets == 1..MaxSockets

VARIABLES
    serverSocket,   \* each websocket at the server: not yet accepted ("none"),
                    \* waiting for a SessionCreate, open, or closed
    toServer,       \* what is in flight on each websocket
    toClient,       \* what is in flight on the client's websocket
    recovered       \* history: a resend has arrived on that websocket

networkVars == <<serverSocket, toServer, toClient, recovered>>

vars == <<serverVars, clientVars, networkVars>>

TypeOK ==
    /\ ServerTypeOK
    /\ ClientTypeOK
    /\ serverSocket \in [Sockets -> {"none", "handshake", "open", "closed"}]
    /\ toServer \in [Sockets -> Seq(Message)]
    /\ toClient \in Seq(Message)
    /\ recovered \in BOOLEAN

Init ==
    /\ ServerInit
    /\ ClientInit
    /\ serverSocket = [s \in Sockets |-> IF s = 1 THEN "open" ELSE "none"]
    /\ toServer = [s \in Sockets |-> <<>>]
    /\ toClient = <<>>
    /\ recovered = TRUE

----------------------------------------------------------------------------
(* The server *)

ServerSends ==
    /\ nextMessageIndex <= MaxServerMessages
    /\ ServerSend
    /\ UNCHANGED <<clientVars, networkVars>>

ServerFlushes ==
    /\ ServerImmediate
    /\ UNCHANGED <<clientVars, networkVars>>

\* websocket.send hands the batch to the socket.  If the client has left that
\* socket the batch is on its way to nobody.
SocketWrite ==
    /\ Sending
    /\ ~attempt.written
    /\ serverSocket[attempt.socket] = "open"
    /\ attempt' = [attempt EXCEPT !.written = TRUE]
    /\ \/ /\ attempt.socket = socket
          /\ Len(toClient) < MaxInFlight
          /\ toClient' = toClient \o attempt.messages
       \/ /\ attempt.socket # socket
          /\ UNCHANGED toClient
    /\ UNCHANGED <<nextMessageIndex, connection, clientIndex, pendingSends,
                   nonAckedSends, activeImmediate, sendAttemptListeners, running,
                   pingTimeout, clientVars, serverSocket, toServer, recovered>>

WriteSucceeds ==
    /\ attempt.written
    /\ SendDone(FALSE)
    /\ UNCHANGED <<clientVars, networkVars>>

WriteFails ==
    /\ Sending /\ ~attempt.written
    /\ \/ attempt.socket # socket
       \/ serverSocket[attempt.socket] = "closed"
    /\ SendDone(TRUE)
    /\ UNCHANGED <<clientVars, networkVars>>

ServerListener ==
    /\ SendAttemptListener
    /\ UNCHANGED <<clientVars, networkVars>>

\* The timer is seconds long: an immediate that is due runs before it.  Bound:
\* on a websocket the client has left, one queued Ping is enough.
ServerPings ==
    /\ ~activeImmediate
    /\ Sending => Len(sendAttemptListeners) < MaxWaiting
    /\ \/ connection \in {socket, NoConnection}
       \/ \A k \in DOMAIN pendingSends : ~IsPing(pendingSends[k])
    /\ SendInactivityPing
    /\ UNCHANGED <<clientVars, networkVars>>

ServerReceives(s) ==
    /\ serverSocket[s] = "open"
    /\ toServer[s] # <<>>
    /\ MessageReceived(Head(toServer[s]))
    /\ toServer' = [toServer EXCEPT ![s] = Tail(@)]
    /\ UNCHANGED <<clientVars, serverSocket, toClient, recovered>>

\* _onConnection: with the token the session's transport gets the websocket;
\* without it the websocket is that of a new session, to be created.
ServerAccepts(s) ==
    /\ s = socket
    /\ status = "CONNECTING"
    /\ serverSocket[s] = "none"
    /\ \A r \in Sockets \ LateClose : r < s => serverSocket[r] # "open"
    /\ \/ /\ TRUE \in Tokens
          /\ ResumeWithConnection(s)
          /\ serverSocket' = [serverSocket EXCEPT ![s] = "open"]
       \/ /\ FALSE \in Tokens
          /\ serverSocket' = [serverSocket EXCEPT ![s] = "handshake"]
          /\ UNCHANGED serverVars
    /\ UNCHANGED <<clientVars, toServer, toClient, recovered>>

\* _onNewSession: the first message is not a SessionCreate, or none came in
\* time.  Either way the connection is denied, which closes the websocket.
ServerDenies(s) ==
    /\ serverSocket[s] = "handshake"
    /\ serverSocket' = [serverSocket EXCEPT ![s] = "closed"]
    /\ toServer' = [toServer EXCEPT ![s] = <<>>]
    /\ UNCHANGED <<serverVars, clientVars, toClient, recovered>>

\* The server notices that a websocket is dead: one the client has left, or
\* the one the client still uses, if it can create another.
ServerNoticesClose(s) ==
    /\ serverSocket[s] = "open"
    /\ s = socket => latestSocket < MaxSockets
    /\ ConnectionClosed(s)
    /\ serverSocket' = [serverSocket EXCEPT ![s] = "closed"]
    /\ toServer' = [toServer EXCEPT ![s] = <<>>]
    /\ UNCHANGED <<clientVars, toClient, recovered>>

----------------------------------------------------------------------------
(* The client *)

\* What websocket.send on the client puts on the way to the server.
PutToServer(messages) ==
    toServer' = IF CanSend /\ serverSocket[socket] # "closed"
                THEN [toServer EXCEPT ![socket] = @ \o messages]
                ELSE toServer

ClientSends ==
    /\ clientNextIndex <= MaxClientMessages
    /\ ClientSend
    /\ PutToServer(<<Data(clientNextIndex)>>)
    /\ UNCHANGED <<serverVars, serverSocket, toClient, recovered>>

ClientTakesPing(m) ==
    /\ IsPing(m)
    /\ PingMessageTaken(m)
    /\ \/ /\ ~m.resendMissing
          /\ UNCHANGED <<toServer, recovered>>
       \/ /\ m.resendMissing
          /\ \E q \in InOrder(nonAckedMessages') : PutToServer(DataSeq(q))
          /\ recovered' = TRUE
    /\ toClient' = Tail(toClient)

\* After reconnect() the loop of _onSocketMessage goes on with the rest of the
\* batch, and with nothing that comes later.  A second reconnect() in the loop
\* throws: there is no websocket left to close.
RestOfBatch ==
    {SubSeq(toClient, 2, n) : n \in 1..(IF socket = NoSocket THEN 1 ELSE Len(toClient))}

ClientTakesData(m) ==
    /\ ~IsPing(m)
    /\ \/ /\ DuplicateIgnored(m) \/ InOrderTaken(m)
          /\ toClient' = Tail(toClient)
       \/ /\ GapReconnects(m)
          /\ toClient' \in RestOfBatch
    /\ UNCHANGED <<toServer, recovered>>

ClientReceives ==
    /\ status = "CONNECTED"
    /\ toClient # <<>>
    /\ ClientTakesPing(Head(toClient)) \/ ClientTakesData(Head(toClient))
    /\ UNCHANGED <<serverVars, serverSocket>>

\* The ping timer runs from _startPing to _stopPing: while connected.
ClientPings ==
    /\ CanSend
    /\ Len(toServer[socket]) < MaxInFlight
    /\ PutToServer(<<Ping(serverIndex, FALSE)>>)
    /\ UNCHANGED <<serverVars, clientVars, serverSocket, toClient, recovered>>

\* The websocket fails, or is done closing after reconnect().
ClientLosesSocket ==
    /\ status # "CLOSED"
    /\ explicitlyClosed \/ latestSocket < MaxSockets
    /\ SocketClose
    /\ toClient' = <<>>
    /\ recovered' = FALSE
    /\ UNCHANGED <<serverVars, serverSocket, toServer>>

\* Mutant: the Ping on a new websocket does not ask for a resend.
ClientOpensQuietly ==
    /\ SocketOpen
    /\ serverSocket[socket] # "none"
    /\ toServer' = IF serverSocket[socket] # "closed"
                   THEN [toServer EXCEPT ![socket] = Append(@, Ping(serverIndex, FALSE))]
                   ELSE toServer
    /\ UNCHANGED <<serverVars, serverSocket, toClient, recovered>>

\* The websocket opens; the adapter asks for what it has missed.
ClientOpens ==
    /\ SocketOpen
    /\ serverSocket[socket] # "none"
    /\ toServer' = IF serverSocket[socket] # "closed"
                   THEN [toServer EXCEPT ![socket] = Append(@, Ping(serverIndex, TRUE))]
                   ELSE toServer
    /\ UNCHANGED <<serverVars, serverSocket, toClient, recovered>>

----------------------------------------------------------------------------

ServerNext ==
    \/ ServerSends \/ ServerFlushes \/ SocketWrite \/ WriteSucceeds
    \/ WriteFails \/ ServerListener \/ ServerPings
    \/ \E s \in Sockets : \/ ServerReceives(s) \/ ServerAccepts(s)
                          \/ ServerDenies(s) \/ ServerNoticesClose(s)

ClientNext ==
    \/ ClientSends \/ ClientReceives \/ ClientPings
    \/ ClientLosesSocket \/ ClientOpens

Next == ServerNext \/ ClientNext

Spec == Init /\ [][Next]_vars

(***************************************************************************)
(* Fairness.  Callbacks that are due run: immediates, websocket callbacks, *)
(* timers and message events of an event loop that does not stop.  A       *)
(* websocket hands over what it carries, and an end of it that the other   *)
(* end has left is noticed sooner or later (a FIN, an RST or a failing     *)
(* write).  Nothing makes a session send, nor a healthy websocket fail.    *)
(* Those of the server are strongly fair where `running` can disable them  *)
(* again and again for the steps of another callback, which the event loop *)
(* does not.                                                               *)
(***************************************************************************)
Fairness ==
    /\ WF_vars(ServerFlushes)
    /\ WF_vars(SocketWrite)
    /\ WF_vars(WriteSucceeds \/ WriteFails)
    /\ WF_vars(ServerListener)
    /\ WF_vars(ServerPings)
    /\ SF_vars(\E s \in Sockets : ServerReceives(s))
    /\ SF_vars(\E s \in Sockets : ServerAccepts(s))
    /\ SF_vars(\E s \in Sockets : s # socket /\ ServerNoticesClose(s))
    /\ WF_vars(\E s \in Sockets : ServerDenies(s))
    /\ WF_vars(ClientReceives)
    /\ WF_vars(ClientPings)
    /\ WF_vars(ClientOpens)
    /\ WF_vars(ClientLosesSocket /\ (explicitlyClosed \/ serverSocket[socket] = "closed"))

FairSpec == Spec /\ Fairness

----------------------------------------------------------------------------
(* Safety *)

\* A message the client has not taken is one the server can still resend: no
\* acknowledgement, however late or repeated, makes _pingMessageReceived
\* forget it (websocket_transport.js:229-232).
ServerRetainsUnseen ==
    \A i \in 1..(nextMessageIndex - 1) :
        i > serverIndex => i \in nonAckedSends

\* The same of the client's messages while its adapter has the session: those
\* above the server's clientIndex are kept (websocket-transport-adapter.js:95).
ClientRetainsUnseen ==
    sessionSet => \A i \in 1..(clientNextIndex - 1) :
                      i > clientIndex => i \in nonAckedMessages

\* Either end can still resend whatever the other has not taken.
UnseenRetained == ServerRetainsUnseen /\ ClientRetainsUnseen

\* From the server to the client the session is a reliable link: whatever
\* breaks, the client takes 1, 2, 3... without a gap or a repetition, and the
\* server forgets only what has been taken.
Down == INSTANCE ReliableLink WITH
            produced <- nextMessageIndex - 1,
            consumed <- serverIndex,
            retained <- nonAckedSends

DownLinkReliable == Down!LinkSpec

\* resumeWithConnection and a failed send leave messages in _pendingSends
\* with nothing scheduled to send them; only the ping timer gets them out.  It
\* dies when it fires without a connection, and must be running whenever there
\* is one (websocket_transport.js:91, 285-293).
PingTimerRuns == connection # NoConnection => pingTimeout

\* Once a resend has arrived on a websocket, the client finds no gap on it
\* and so never gives it up by reconnect(): the resend starts at or before the
\* first message it lacks, and no later batch, fresh or put back after a
\* failed send, skips one (websocket_transport.js:165-175, 246-271).
NoGapOnceRecovered ==
    [][(recovered /\ recovered') => (explicitlyClosed' = explicitlyClosed)]_vars

\* What is queued, being sent or in flight is true of its sender: a message
\* has been given out, and an acknowledgement, however old, is of what has
\* been taken.  All that follows about forgetting and gaps rests on it.
FromServer == {m \in Message : m.index < nextMessageIndex /\ m.ack <= clientIndex}
FromClient == {m \in Message : m.index < clientNextIndex /\ m.ack <= serverIndex}

InFlightTruthful ==
    /\ pendingSends \in Seq(FromServer)
    /\ attempt.messages \in Seq(FromServer)
    /\ toClient \in Seq(FromServer)
    /\ \A s \in Sockets : toServer[s] \in Seq(FromClient)

\* The inductive invariant behind the safety theorems.
IndicesGivenOut ==
    /\ nonAckedSends \subseteq 1..(nextMessageIndex - 1)
    /\ nonAckedMessages \subseteq 1..(clientNextIndex - 1)
    /\ serverIndex < nextMessageIndex
    /\ clientIndex < clientNextIndex

IInv ==
    /\ TypeOK
    /\ InFlightTruthful
    /\ IndicesGivenOut
    /\ ServerRetainsUnseen
    /\ ClientRetainsUnseen
    /\ PingTimerRuns

----------------------------------------------------------------------------
(* Liveness, of FairSpec *)

\* What the server session sends the client takes, unless it gives the
\* session up over a gap.
EverythingDelivered ==
    \A i \in 1..MaxServerMessages :
        (nextMessageIndex > i) ~> (serverIndex >= i \/ explicitlyClosed)

\* The memory of sent messages drains at both ends: the Pings of each
\* acknowledge all that the other has sent.
RetainedDrains ==
    /\ (nonAckedSends # {}) ~> (nonAckedSends = {} \/ explicitlyClosed)
    /\ (nonAckedMessages # {}) ~> (nonAckedMessages = {} \/ explicitlyClosed)

----------------------------------------------------------------------------
(* What the repository says and the code does not do *)

\* README.md:11 promises acknowledgement and resend for the client's messages
\* too: the server would take them one by one, as the client does.
Up == INSTANCE ReliableLink WITH
          produced <- clientNextIndex - 1,
          consumed <- clientIndex,
          retained <- nonAckedMessages

UpLinkReliable == Up!LinkSpec

\* websocket_transport.js:81: "If the connection ever dies we want to ensure
\* we don't keep a reference".  A reference is then dropped only when the
\* websocket it names has died.
LiveConnectionKept ==
    [][(connection # NoConnection /\ connection' = NoConnection) =>
            serverSocket'[connection] = "closed"]_vars
=============================================================================
