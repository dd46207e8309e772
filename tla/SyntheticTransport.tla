------------------------- MODULE SyntheticTransport -------------------------
(***************************************************************************)
(* The transport an application feeds itself: every incoming request is a  *)
(* connection whose payload holds numbered messages of one client, and     *)
(* what the session sends goes out as a response of the latest connection. *)
(* Requests overtake each other and are repeated, so the transport puts    *)
(* the messages back in order.                                             *)
(*                                                                         *)
(* The other end is no part of the library: a client that repeats its      *)
(* messages.  A payload of several is sorted and read one message after    *)
(* another, so it is here as many requests that happen to arrive in order. *)
(***************************************************************************)
EXTENDS Naturals, Sequences, FiniteSets, Functions

CONSTANTS
    MaxSent,        \* bound: messages of the client
    MaxProduced,    \* bound: messages of the session
    MaxRequests,    \* bound: requests on their way at once
    MaxCopies,      \* bound: copies of a message in the buffer when it is repeated
    MaxReentrant,   \* bound: messages sent from within a 'response' listener
    MaxThrows       \* bound: 'response' listeners that throw

ASSUME SyntheticAssumption ==
    /\ MaxSent \in Nat \ {0} /\ MaxProduced \in Nat \ {0} /\ MaxRequests \in Nat \ {0}
    /\ MaxCopies \in Nat /\ MaxReentrant \in Nat /\ MaxThrows \in Nat

VARIABLES
    session,        \* how far the session is
    sent,           \* the number of the client's last message
    requests,       \* requests on their way, by the message they carry
    clientIndex,    \* the last message taken in order
    outOfOrder,     \* how often each message waits in _outOfOrderMessages
    emitted,        \* what was handed to the client object of the session
    connected,      \* whether the transport has a connection
    produced,       \* the number of the session's last message
    pendingSends,
    immediate,      \* whether a turn to send is scheduled
    given,          \* what responses carried
    reentrant,      \* messages sent from within a 'response' listener
    throws          \* how many listeners threw

upVars == <<sent, requests, clientIndex, outOfOrder, emitted>>
downVars == <<produced, pendingSends, immediate, given, reentrant, throws>>
vars == <<session, connected, upVars, downVars>>

Up == 1..MaxSent
Down == 1..MaxProduced

TypeOK ==
    /\ session \in {"none", "deciding", "accepted", "denied", "expired"}
    /\ sent \in 0..MaxSent
    /\ requests \subseteq Up
    /\ clientIndex \in 0..MaxSent
    /\ outOfOrder \in [Up -> 0..MaxCopies]
    /\ emitted \in Seq(Up)
    /\ connected \in BOOLEAN
    /\ connected => session \in {"accepted", "denied"}
    /\ produced \in 0..MaxProduced
    /\ pendingSends \in Seq(Down)
    /\ immediate \in BOOLEAN
    /\ given \subseteq Down
    /\ reentrant \subseteq Down
    /\ throws \in 0..MaxThrows

Init ==
    /\ session = "none"
    /\ sent = 0
    /\ requests = {}
    /\ clientIndex = 0
    /\ outOfOrder = [i \in Up |-> 0]
    /\ emitted = <<>>
    /\ connected = FALSE
    /\ produced = 0
    /\ pendingSends = <<>>
    /\ immediate = FALSE
    /\ given = {}
    /\ reentrant = {}
    /\ throws = 0
-----------------------------------------------------------------------------
\* The session's messages.

TransportMessage ==
    /\ produced < MaxProduced
    /\ produced' = produced + 1
    /\ pendingSends' = Append(pendingSends, produced + 1)
    /\ immediate' = (immediate \/ connected')
    /\ UNCHANGED <<given, reentrant, throws>>

\* The connection is taken or was there: the response is given.  What a
\* listener of it sends meanwhile is queued and dropped with the rest.
ResponseGiven(meanwhile) ==
    /\ given' = given \cup Range(pendingSends)
    /\ pendingSends' = <<>>
    /\ reentrant' = reentrant \cup Range(meanwhile)
    /\ UNCHANGED throws

\* Mutant: the queue is cleared before the response is given.
ResponseThrowsCleared(meanwhile) ==
    /\ throws < MaxThrows /\ throws' = throws + 1
    /\ pendingSends' = meanwhile
    /\ UNCHANGED <<given, reentrant>>

\* A listener throws: everything stays queued, for the next message's turn.
ResponseThrows(meanwhile) ==
    /\ throws < MaxThrows /\ throws' = throws + 1
    /\ pendingSends' = pendingSends \o meanwhile
    /\ UNCHANGED <<given, reentrant>>

\* _transportAllPendingMessages, in its immediate.  The messages are composed
\* in the same turn.
TransportAllPendingMessages ==
    /\ immediate
    /\ UNCHANGED <<session, connected, upVars>>
    /\ IF connected /\ pendingSends # <<>>
       THEN \E n \in 0..MaxReentrant :
                LET meanwhile == [i \in 1..n |-> produced + i] IN
                /\ produced + n <= MaxProduced
                /\ produced' = produced + n
                /\ immediate' = (n > 0)
                /\ ResponseGiven(meanwhile) \/ ResponseThrows(meanwhile)
       ELSE immediate' = FALSE
            /\ UNCHANGED <<produced, pendingSends, given, reentrant, throws>>
-----------------------------------------------------------------------------
\* The client's messages.

\* What a run of messages from first on hands out of the buffer once the one
\* before it is taken.  The sorted buffer is read at its head: a second copy
\* of a message, or one of a message taken before, ends the run.
Buffered(wait, first) ==
    {k \in Up : /\ k >= first
                /\ \A i \in 1..(first - 1) : wait[i] = 0
                /\ \A i \in first..k : wait[i] > 0
                /\ \A i \in first..(k - 1) : wait[i] = 1}

Take(i) ==
    LET run == Buffered(outOfOrder, i + 1) IN
    /\ clientIndex' = i + Cardinality(run)
    /\ emitted' = emitted \o [k \in 1..(Cardinality(run) + 1) |-> i + k - 1]
    /\ outOfOrder' = [k \in Up |-> outOfOrder[k] - (IF k \in run THEN 1 ELSE 0)]

\* Mutant: a message past a gap is handed out.
MessageReceivedAnyLater(i) ==
    IF i <= clientIndex THEN UNCHANGED <<clientIndex, emitted, outOfOrder>> ELSE Take(i)

\* Mutant: what is next is taken for a copy.
MessageReceivedOffByOne(i) ==
    CASE i <= clientIndex + 1 -> UNCHANGED <<clientIndex, emitted, outOfOrder>>
      [] OTHER ->
            /\ outOfOrder' = [outOfOrder EXCEPT ![i] = @ + 1]
            /\ UNCHANGED <<clientIndex, emitted>>

\* _messageReceived, of a message that has an index.
MessageReceived(i) ==
    CASE i <= clientIndex -> UNCHANGED <<clientIndex, emitted, outOfOrder>>
      [] i > clientIndex + 1 ->
            /\ outOfOrder' = [outOfOrder EXCEPT ![i] = @ + 1]
            /\ UNCHANGED <<clientIndex, emitted>>
      [] OTHER -> Take(i)
-----------------------------------------------------------------------------
\* Connections and the session.

\* _onNewSession: the payload is a SessionCreate and nothing else.
NewSession ==
    /\ session = "none"
    /\ session' = "deciding"
    /\ UNCHANGED <<connected, upVars, downVars>>

\* The application decides.  The transport is made with the connection, and
\* its first message tells the decision.
DecideSession ==
    /\ session = "deciding"
    /\ session' \in {"accepted", "denied"}
    /\ connected' = TRUE
    /\ UNCHANGED upVars
    /\ TransportMessage

\* The client has something to say, and knows its token.
ClientProduces ==
    /\ session \in {"accepted", "expired"} /\ 1 \in given
    /\ sent < MaxSent
    /\ sent' = sent + 1
    /\ UNCHANGED <<session, connected, downVars>>
    /\ UNCHANGED <<requests, clientIndex, outOfOrder, emitted>>

Request(i) ==
    /\ session \in {"accepted", "expired"} /\ 1 \in given
    /\ i \notin requests /\ Cardinality(requests) < MaxRequests
    /\ requests' = requests \cup {i}
    /\ UNCHANGED <<session, connected, sent, clientIndex, outOfOrder, emitted, downVars>>

\* The client repeats its first message that has not been handled, or any.
Repeat == clientIndex < sent /\ Request(clientIndex + 1)
RequestAny == \E i \in 1..sent : outOfOrder[i] < MaxCopies /\ Request(i)

\* _onResumeSession: the payload is read before the connection is taken.  An
\* unknown token is denied.
ResumeSession(i) ==
    /\ i \in requests /\ requests' = requests \ {i}
    /\ UNCHANGED <<session, connected, sent, downVars>>
    /\ IF session = "accepted"
       THEN MessageReceived(i)
       ELSE UNCHANGED <<clientIndex, outOfOrder, emitted>>

SessionSends ==
    /\ session = "accepted"
    /\ UNCHANGED <<session, connected, upVars>>
    /\ TransportMessage

\* Mutant: the transport is left open.
SessionExpiresOpen ==
    /\ session = "accepted"
    /\ session' = "expired"
    /\ UNCHANGED <<connected, upVars, downVars>>

\* The session expires: the transport is closed, its token forgotten.
SessionExpires ==
    /\ session = "accepted"
    /\ session' = "expired"
    /\ connected' = FALSE
    /\ UNCHANGED <<upVars, downVars>>

Next ==
    \/ NewSession \/ DecideSession
    \/ ClientProduces
    \/ Repeat \/ RequestAny
    \/ \E i \in Up : ResumeSession(i)
    \/ SessionSends
    \/ TransportAllPendingMessages
    \/ SessionExpires

Spec == Init /\ [][Next]_vars

\* The event loop runs its immediates; the client repeats what is not handled
\* and its requests arrive.
FairSpec ==
    /\ Spec
    /\ WF_vars(TransportAllPendingMessages)
    /\ SF_vars(Repeat)
    /\ \A i \in Up : WF_vars(ResumeSession(i))
-----------------------------------------------------------------------------
\* Properties.

\* The session sees the client's messages in the order of their numbers, each
\* once, however requests overtake each other and are repeated.
InOrderOnce == emitted = [i \in 1..clientIndex |-> i]

\* A message that is next does not wait in the buffer, unless a second copy
\* of one already taken is at its head: that one is never taken out.
NoneLeftBehind ==
    /\ clientIndex < MaxSent
    /\ \A i \in 1..clientIndex : outOfOrder[i] = 0
    => outOfOrder[clientIndex + 1] = 0

\* Each message of the session is queued or was given to a connection, a
\* response that throws included, except those sent from within a response's
\* listener.
NoneForgotten == 1..produced = Range(pendingSends) \cup given \cup reentrant

\* Every message of the client is handled while the session lives, copies in
\* the buffer notwithstanding.
Handled == \A i \in Up : sent >= i ~> clientIndex >= i \/ session = "expired"
=============================================================================
