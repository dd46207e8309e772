-------------------------- MODULE ClientTransport ---------------------------
(***************************************************************************)
(* The client's end (client/lib): the websocket adapter                    *)
(* (transport/websocket-transport-adapter.js) with the indices its Session *)
(* (session.js) gives out and checks.  A browser too runs one callback to  *)
(* completion at a time.                                                   *)
(*                                                                         *)
(* The adapter also pushes its own Pings on _nonAckedMessages.  They carry *)
(* index 0 and every resend first filters for an index above the ack, so   *)
(* no Ping is ever sent again and they are left out here.  A resend pushes *)
(* the messages it sends once more; the set keeps one of each, since the   *)
(* second copy of an index is discarded by the server.                     *)
(***************************************************************************)
EXTENDS TransportMessages

NoSocket == 0

VARIABLES
    status,             \* adapter._status
    socket,             \* adapter._socket: the number of a websocket
    latestSocket,       \* the number of the last websocket created
    explicitlyClosed,   \* adapter._explicitlyClosed
    sessionSet,         \* adapter._session # null
    nonAckedMessages,   \* adapter._nonAckedMessages
    serverIndex,        \* session.serverIndex: highest index taken
    clientNextIndex     \* session._nextMessageIndex

clientVars == <<status, socket, latestSocket, explicitlyClosed, sessionSet,
                nonAckedMessages, serverIndex, clientNextIndex>>

ClientTypeOK ==
    /\ status \in {"CLOSED", "CONNECTING", "CONNECTED"}
    /\ socket \in Nat
    /\ latestSocket \in Nat
    /\ explicitlyClosed \in BOOLEAN
    /\ sessionSet \in BOOLEAN
    /\ nonAckedMessages \in SUBSET Nat
    /\ serverIndex \in Nat
    /\ clientNextIndex \in Nat

\* The session is established on websocket 1; SessionCreate had index 0.
ClientInit ==
    /\ status = "CONNECTED"
    /\ socket = 1
    /\ latestSocket = 1
    /\ explicitlyClosed = FALSE
    /\ sessionSet = TRUE
    /\ nonAckedMessages = {}
    /\ serverIndex = 0
    /\ clientNextIndex = 1

\* The websocket a sendMessage now writes to; after disconnect() the status
\* is still CONNECTED, but there is no websocket and the send throws.
CanSend == status = "CONNECTED" /\ socket # NoSocket

----------------------------------------------------------------------------
(* Callbacks.  What each one sends is stated by the module that composes   *)
(* the two ends.                                                           *)

\* Mutant: only what can be sent at once is retained.
ClientSendUnretained ==
    /\ clientNextIndex' = clientNextIndex + 1
    /\ nonAckedMessages' = nonAckedMessages
                             \cup (IF sessionSet /\ CanSend THEN {clientNextIndex} ELSE {})
    /\ UNCHANGED <<status, socket, latestSocket, explicitlyClosed, sessionSet,
                   serverIndex>>

\* session.fetch or _onScopeChanges, then adapter.sendMessage
ClientSend ==
    /\ clientNextIndex' = clientNextIndex + 1
    /\ nonAckedMessages' = nonAckedMessages
                             \cup (IF sessionSet THEN {clientNextIndex} ELSE {})
    /\ UNCHANGED <<status, socket, latestSocket, explicitlyClosed, sessionSet,
                   serverIndex>>

\* Mutant: the status follows the websocket's own readyState.
SocketCloseByReadyState ==
    /\ \/ /\ ~explicitlyClosed
          /\ status' = "CONNECTING"
          /\ latestSocket' = latestSocket + 1
          /\ socket' = latestSocket + 1
       \/ /\ explicitlyClosed
          /\ status' = "CLOSING"
          /\ UNCHANGED <<latestSocket, socket>>
    /\ UNCHANGED <<explicitlyClosed, sessionSet, nonAckedMessages, serverIndex,
                   clientNextIndex>>

\* connect() on a closed adapter, at the end of _onSocketClose, and nothing
\* of the kind once the application or reconnect() has closed it.
SocketClose ==
    /\ \/ /\ ~explicitlyClosed
          /\ status' = "CONNECTING"
          /\ latestSocket' = latestSocket + 1
          /\ socket' = latestSocket + 1
       \/ /\ explicitlyClosed
          /\ status' = "CLOSED"
          /\ UNCHANGED <<latestSocket, socket>>
    /\ UNCHANGED <<explicitlyClosed, sessionSet, nonAckedMessages, serverIndex,
                   clientNextIndex>>

SocketOpen ==
    /\ status = "CONNECTING"
    /\ status' = "CONNECTED"
    /\ UNCHANGED <<socket, latestSocket, explicitlyClosed, sessionSet,
                   nonAckedMessages, serverIndex, clientNextIndex>>

\* _onPingMessage
PingMessageTaken(m) ==
    /\ nonAckedMessages' = Unacked(nonAckedMessages, m.ack)
    /\ UNCHANGED <<status, socket, latestSocket, explicitlyClosed, sessionSet,
                   serverIndex, clientNextIndex>>

\* session.onMessage, the three outcomes of comparing the index
DuplicateIgnored(m) ==
    /\ m.index <= serverIndex
    /\ UNCHANGED clientVars

\* Mutant: any index above the last is taken.
AnyLaterTaken(m) ==
    /\ m.index > serverIndex
    /\ serverIndex' = m.index
    /\ UNCHANGED <<status, socket, latestSocket, explicitlyClosed, sessionSet,
                   nonAckedMessages, clientNextIndex>>

InOrderTaken(m) ==
    /\ m.index = serverIndex + 1
    /\ serverIndex' = m.index
    /\ UNCHANGED <<status, socket, latestSocket, explicitlyClosed, sessionSet,
                   nonAckedMessages, clientNextIndex>>

\* client.reconnect(), which is adapter.disconnect()
GapReconnects(m) ==
    /\ m.index > serverIndex + 1
    /\ explicitlyClosed' = TRUE
    /\ sessionSet' = FALSE
    /\ socket' = NoSocket
    /\ UNCHANGED <<status, latestSocket, nonAckedMessages, serverIndex,
                   clientNextIndex>>
=============================================================================
