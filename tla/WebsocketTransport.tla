------------------------- MODULE WebsocketTransport -------------------------
(***************************************************************************)
(* The server's end of a session's transport                               *)
(* (lib/transport/websocket_transport.js), with the message counter of the *)
(* server session that feeds it (lib/session.js).                          *)
(*                                                                         *)
(* Node runs one callback to completion at a time, so each action is one   *)
(* callback.  The one exception is the event sendAttempt: its listeners    *)
(* run one after the other inside the callback that emits it, and each may *)
(* start a new send or register itself again.  They are the steps of       *)
(* SendAttemptListener; while any of them is left (running), no other      *)
(* action of the server is enabled.                                        *)
(***************************************************************************)
EXTENDS TransportMessages

NoConnection == 0

VARIABLES
    nextMessageIndex,      \* session._nextMessageIndex
    connection,            \* this.connection: the number of a websocket
    clientIndex,           \* _clientIndex: highest index received
    pendingSends,          \* _pendingSends: queue of messages
    nonAckedSends,         \* _nonAckedSends: the indices of the array
    activeImmediate,       \* _activePendingSendImmediate # null
    attempt,               \* the batch handed to websocket.send, if _sending
    sendAttemptListeners,  \* once('sendAttempt', ...) in registration order
    running,               \* the listeners the current emit has yet to run
    pingTimeout            \* _pingTimeout is armed

serverVars == <<nextMessageIndex, connection, clientIndex, pendingSends,
                nonAckedSends, activeImmediate, attempt,
                sendAttemptListeners, running, pingTimeout>>

Listeners == {"transportAllPendingMessages", "recoverMissingMessages"}

NoAttempt == [socket |-> NoConnection, messages |-> <<>>, written |-> FALSE]

Sending == attempt.messages # <<>>

ServerTypeOK ==
    /\ nextMessageIndex \in Nat
    /\ connection \in Nat
    /\ clientIndex \in Nat
    /\ pendingSends \in Seq(Message)
    /\ nonAckedSends \in SUBSET Nat
    /\ activeImmediate \in BOOLEAN
    /\ attempt \in [socket : Nat, messages : Seq(Message), written : BOOLEAN]
    /\ sendAttemptListeners \in Seq(Listeners)
    /\ running \in Seq(Listeners)
    /\ pingTimeout \in BOOLEAN

\* The session is accepted on websocket 1 and its SessionCreateReply, which
\* has index 0, is out: the next message is number 1.
ServerInit ==
    /\ nextMessageIndex = 1
    /\ connection = 1
    /\ clientIndex = 0
    /\ pendingSends = <<>>
    /\ nonAckedSends = {}
    /\ activeImmediate = FALSE
    /\ attempt = NoAttempt
    /\ sendAttemptListeners = <<>>
    /\ running = <<>>
    /\ pingTimeout = TRUE

----------------------------------------------------------------------------
(* Parts of the handlers *)

\* transportMessage: remember it until it is acknowledged, queue it, and see
\* that an immediate is on its way if there is a connection to send it on.
TransportMessage(m) ==
    /\ nonAckedSends' = nonAckedSends \cup (IF IsPing(m) THEN {} ELSE {m.index})
    /\ pendingSends' = Append(pendingSends, m)
    /\ activeImmediate' = (activeImmediate \/ connection # NoConnection)

\* _transportAllPendingMessages, called when the queue is `queue`.  One batch
\* is out at a time: a call that finds one out waits for its sendAttempt.
TransportAllPendingMessages(queue) ==
    /\ activeImmediate' = FALSE
    /\ \/ /\ connection = NoConnection \/ queue = <<>>
          /\ pendingSends' = queue
          /\ UNCHANGED <<attempt, sendAttemptListeners>>
       \/ /\ connection # NoConnection /\ queue # <<>>
          /\ Sending
          /\ pendingSends' = queue
          /\ sendAttemptListeners' =
                Append(sendAttemptListeners, "transportAllPendingMessages")
          /\ UNCHANGED attempt
       \/ /\ connection # NoConnection /\ queue # <<>>
          /\ ~Sending
          /\ attempt' = [socket |-> connection, messages |-> queue, written |-> FALSE]
          /\ pendingSends' = <<>>
          /\ UNCHANGED sendAttemptListeners

\* Mutant: only the Ping goes in front of what is pending anyway.
RecoverPendingOnly(nonAcked) ==
    TransportAllPendingMessages(<<Ping(clientIndex, TRUE)>> \o pendingSends)

\* _recoverMissingMessages: replace the queue by a Ping and everything not
\* acknowledged, and send it.
RecoverMissingMessages(nonAcked) ==
    \E q \in InOrder(nonAcked) :
        TransportAllPendingMessages(<<Ping(clientIndex, TRUE)>> \o DataSeq(q))

\* _pingMessageReceived: forget what the client has acknowledged; resend the
\* rest if it asks, once the batch that is out has left.
PingMessageReceived(m) ==
    /\ nonAckedSends' = Unacked(nonAckedSends, m.ack)
    /\ \/ /\ ~m.resendMissing
          /\ UNCHANGED <<pendingSends, activeImmediate, attempt, sendAttemptListeners>>
       \/ /\ m.resendMissing /\ Sending
          /\ sendAttemptListeners' =
                Append(sendAttemptListeners, "recoverMissingMessages")
          /\ UNCHANGED <<pendingSends, activeImmediate, attempt>>
       \/ /\ m.resendMissing /\ ~Sending
          /\ RecoverMissingMessages(nonAckedSends')

----------------------------------------------------------------------------
(* Callbacks *)

\* The session sends its next message: a reply, a scope state, a scope sync.
ServerSend ==
    /\ running = <<>>
    /\ TransportMessage(Data(nextMessageIndex))
    /\ nextMessageIndex' = nextMessageIndex + 1
    /\ UNCHANGED <<connection, clientIndex, attempt, sendAttemptListeners,
                   running, pingTimeout>>

\* The immediate of transportMessage fires.
ServerImmediate ==
    /\ running = <<>>
    /\ activeImmediate
    /\ TransportAllPendingMessages(pendingSends)
    /\ UNCHANGED <<nextMessageIndex, connection, clientIndex, nonAckedSends,
                   running, pingTimeout>>

\* The callback of websocket.send.  On an error the batch goes back to the
\* front of the queue; then the listeners of sendAttempt run.
SendDone(failed) ==
    /\ running = <<>>
    /\ Sending
    /\ attempt' = NoAttempt
    /\ pendingSends' = IF failed THEN attempt.messages \o pendingSends
                                 ELSE pendingSends
    /\ running' = sendAttemptListeners
    /\ sendAttemptListeners' = <<>>
    /\ UNCHANGED <<nextMessageIndex, connection, clientIndex, nonAckedSends,
                   activeImmediate, pingTimeout>>

\* The next listener of the sendAttempt being emitted.
SendAttemptListener ==
    /\ running # <<>>
    /\ running' = Tail(running)
    /\ \/ /\ Head(running) = "transportAllPendingMessages"
          /\ TransportAllPendingMessages(pendingSends)
       \/ /\ Head(running) = "recoverMissingMessages"
          /\ RecoverMissingMessages(nonAckedSends)
    /\ UNCHANGED <<nextMessageIndex, connection, clientIndex, nonAckedSends,
                   pingTimeout>>

\* _messageReceived: a message with an index not above the highest received
\* is discarded; any other is taken, however far above it is.
MessageReceived(m) ==
    /\ running = <<>>
    /\ \/ /\ IsPing(m)
          /\ PingMessageReceived(m)
          /\ UNCHANGED clientIndex
       \/ /\ ~IsPing(m)
          /\ clientIndex' = IF m.index > clientIndex THEN m.index ELSE clientIndex
          /\ UNCHANGED <<nonAckedSends, pendingSends, activeImmediate, attempt,
                         sendAttemptListeners>>
    /\ UNCHANGED <<nextMessageIndex, connection, running, pingTimeout>>

\* Mutant: the ping timer is not restarted.
ResumeWithoutTimer(socket) ==
    /\ running = <<>>
    /\ connection' = socket
    /\ UNCHANGED <<nextMessageIndex, clientIndex, pendingSends, nonAckedSends,
                   activeImmediate, attempt, sendAttemptListeners, running,
                   pingTimeout>>

\* resumeWithConnection: take the websocket and restart the ping timer.  What
\* is pending is not sent.
ResumeWithConnection(socket) ==
    /\ running = <<>>
    /\ connection' = socket
    /\ pingTimeout' = TRUE
    /\ UNCHANGED <<nextMessageIndex, clientIndex, pendingSends, nonAckedSends,
                   activeImmediate, attempt, sendAttemptListeners, running>>

\* The 'close' listener of any websocket the transport has ever had.
ConnectionClosed(socket) ==
    /\ running = <<>>
    /\ connection' = NoConnection
    /\ UNCHANGED <<nextMessageIndex, clientIndex, pendingSends, nonAckedSends,
                   activeImmediate, attempt, sendAttemptListeners, running,
                   pingTimeout>>

\* Mutant: acknowledge the next index in place of the last.
SendInactivityPingAhead ==
    /\ running = <<>>
    /\ pingTimeout
    /\ \/ /\ connection # NoConnection
          /\ TransportMessage(Ping(clientIndex + 1, FALSE))
          /\ UNCHANGED pingTimeout
       \/ /\ connection = NoConnection
          /\ pingTimeout' = FALSE
          /\ UNCHANGED <<nonAckedSends, pendingSends, activeImmediate>>
    /\ UNCHANGED <<nextMessageIndex, connection, clientIndex, attempt,
                   sendAttemptListeners, running>>

\* _sendInactivityPing.  Without a connection the timer is not set again.
SendInactivityPing ==
    /\ running = <<>>
    /\ pingTimeout
    /\ \/ /\ connection # NoConnection
          /\ TransportMessage(Ping(clientIndex, FALSE))
          /\ UNCHANGED pingTimeout
       \/ /\ connection = NoConnection
          /\ pingTimeout' = FALSE
          /\ UNCHANGED <<nonAckedSends, pendingSends, activeImmediate>>
    /\ UNCHANGED <<nextMessageIndex, connection, clientIndex, attempt,
                   sendAttemptListeners, running>>
============================================================================
