--------------------------- MODULE Channel_proofs ---------------------------
(***************************************************************************)
(* What TLAPS proves of Channel for every value of its constants: the type *)
(* invariant, that neither end forgets a message the other has not taken,  *)
(* that the ping timer runs whenever there is a connection, that the       *)
(* server's messages travel over a ReliableLink, and that a client a       *)
(* resend has reached finds no gap.  All rest on the inductive invariant   *)
(* IInv of Channel, the last on FlowInv as well.                           *)
(***************************************************************************)
EXTENDS Replies, SequenceTheorems, FiniteSetTheorems, TLAPS

----------------------------------------------------------------------------
(* The operators of TransportMessages *)

\* The array of unacknowledged messages, resent: a sequence of messages of T
\* when each index stands for one.
LEMMA DataSeqType ==
    ASSUME NEW S \in SUBSET Nat, IsFiniteSet(S), NEW T,
           \A i \in S : Data(i) \in T,
           NEW q \in InOrder(S)
    PROVE  DataSeq(q) \in Seq(T)
<1>1. Cardinality(S) \in Nat
  BY FS_CardinalityType
<1>2. q \in [1..Cardinality(S) -> S]
  BY DEF InOrder
<1>3. DataSeq(q) = [k \in 1..Cardinality(S) |-> Data(q[k])]
  BY <1>2 DEF DataSeq
<1>4. \A k \in 1..Cardinality(S) : Data(q[k]) \in T
  BY <1>2
<1>5. QED
  BY <1>1, <1>3, <1>4, IsASeq

\* A set of natural numbers below a bound is finite.
LEMMA BelowIsFinite ==
    ASSUME NEW n \in Nat, NEW S \in SUBSET (1..(n - 1))
    PROVE  IsFiniteSet(S) /\ S \in SUBSET Nat
<1>1. IsFiniteSet(1..(n - 1))
  BY FS_Interval
<1>2. IsFiniteSet(S)
  BY <1>1, FS_Subset
<1>3. S \in SUBSET Nat
  OBVIOUS
<1>4. QED
  BY <1>2, <1>3

\* A sequence of one message.
LEMMA SingletonSeq ==
    ASSUME NEW T, NEW m \in T
    PROVE  <<m>> \in Seq(T)
OBVIOUS

----------------------------------------------------------------------------
(* The parts of the server's handlers, for any set T of messages *)

\* _transportAllPendingMessages moves messages and makes none up.
LEMMA FlushKeeps ==
    ASSUME NEW T, T \subseteq Message, ServerTypeOK,
           NEW q \in Seq(T), attempt.messages \in Seq(T),
           TransportAllPendingMessages(q)
    PROVE  /\ pendingSends' \in Seq(T)
           /\ attempt' \in [socket : Nat, messages : Seq(Message), written : BOOLEAN]
           /\ attempt'.messages \in Seq(T)
           /\ sendAttemptListeners' \in Seq(Listeners)
           /\ activeImmediate' \in BOOLEAN
<1>1. activeImmediate' \in BOOLEAN
  BY DEF TransportAllPendingMessages
<1>2. Seq(T) \subseteq Seq(Message)
  BY SeqMonotonic
<1>3. CASE connection = NoConnection \/ q = <<>>
  BY <1>1, <1>3 DEF TransportAllPendingMessages, ServerTypeOK
<1>4. CASE connection # NoConnection /\ q # <<>> /\ Sending
  <2>1. "transportAllPendingMessages" \in Listeners
    BY DEF Listeners
  <2>2. sendAttemptListeners' = Append(sendAttemptListeners, "transportAllPendingMessages")
    BY <1>4 DEF TransportAllPendingMessages
  <2>3. sendAttemptListeners' \in Seq(Listeners)
    BY <2>1, <2>2, AppendProperties DEF ServerTypeOK
  <2>4. QED
    BY <1>1, <1>4, <2>3 DEF TransportAllPendingMessages, ServerTypeOK
<1>5. CASE connection # NoConnection /\ q # <<>> /\ ~Sending
  <2>1. attempt' = [socket |-> connection, messages |-> q, written |-> FALSE]
    BY <1>5 DEF TransportAllPendingMessages
  <2>2. pendingSends' = <<>> /\ <<>> \in Seq(T)
    BY <1>5 DEF TransportAllPendingMessages
  <2>3. QED
    BY <1>1, <1>2, <1>5, <2>1, <2>2 DEF TransportAllPendingMessages, ServerTypeOK
<1>6. QED
  BY <1>3, <1>4, <1>5

\* So does _recoverMissingMessages, which sends a Ping and messages retained.
LEMMA RecoverKeeps ==
    ASSUME NEW T, T \subseteq Message, ServerTypeOK,
           NEW S \in SUBSET Nat, IsFiniteSet(S),
           \A i \in S : Data(i) \in T,
           Ping(clientIndex, TRUE) \in T,
           attempt.messages \in Seq(T),
           RecoverMissingMessages(S)
    PROVE  /\ pendingSends' \in Seq(T)
           /\ attempt' \in [socket : Nat, messages : Seq(Message), written : BOOLEAN]
           /\ attempt'.messages \in Seq(T)
           /\ sendAttemptListeners' \in Seq(Listeners)
           /\ activeImmediate' \in BOOLEAN
<1>1. PICK q \in InOrder(S) :
        TransportAllPendingMessages(<<Ping(clientIndex, TRUE)>> \o DataSeq(q))
  BY DEF RecoverMissingMessages
<1>2. DataSeq(q) \in Seq(T)
  BY DataSeqType
<1>3. <<Ping(clientIndex, TRUE)>> \in Seq(T)
  BY SingletonSeq
<1>4. <<Ping(clientIndex, TRUE)>> \o DataSeq(q) \in Seq(T)
  BY <1>2, <1>3, ConcatProperties
<1>5. QED
  BY <1>1, <1>4, FlushKeeps

----------------------------------------------------------------------------
(* The inductive invariant *)

\* Indices only grow, so what was true in flight stays true.
LEMMA FromServerGrows ==
    ASSUME nextMessageIndex \in Nat, nextMessageIndex' \in Nat,
           clientIndex \in Nat, clientIndex' \in Nat,
           nextMessageIndex <= nextMessageIndex', clientIndex <= clientIndex'
    PROVE  Seq(FromServer) \subseteq Seq(FromServer')
<1>1. FromServer \subseteq FromServer'
  BY DEF FromServer, Message
<1>2. QED
  BY <1>1, SeqMonotonic

LEMMA FromClientGrows ==
    ASSUME clientNextIndex \in Nat, clientNextIndex' \in Nat,
           serverIndex \in Nat, serverIndex' \in Nat,
           clientNextIndex <= clientNextIndex', serverIndex <= serverIndex'
    PROVE  Seq(FromClient) \subseteq Seq(FromClient')
<1>1. FromClient \subseteq FromClient'
  BY DEF FromClient, Message
<1>2. QED
  BY <1>1, SeqMonotonic

\* What an end may put in flight.
LEMMA MayBeSent ==
    ASSUME TypeOK, IndicesGivenOut
    PROVE  /\ \A i \in nonAckedSends : Data(i) \in FromServer
           /\ \A r \in BOOLEAN : Ping(clientIndex, r) \in FromServer
           /\ \A i \in nonAckedMessages : Data(i) \in FromClient
           /\ \A r \in BOOLEAN : Ping(serverIndex, r) \in FromClient
           /\ IsFiniteSet(nonAckedSends) /\ nonAckedSends \in SUBSET Nat
           /\ IsFiniteSet(nonAckedMessages) /\ nonAckedMessages \in SUBSET Nat
           /\ FromServer \subseteq Message /\ FromClient \subseteq Message
<1>1. /\ nextMessageIndex \in Nat /\ clientNextIndex \in Nat
      /\ serverIndex \in Nat /\ clientIndex \in Nat
      /\ nonAckedSends \subseteq 1..(nextMessageIndex - 1)
      /\ nonAckedMessages \subseteq 1..(clientNextIndex - 1)
      /\ serverIndex < nextMessageIndex /\ clientIndex < clientNextIndex
  BY DEF TypeOK, ServerTypeOK, ClientTypeOK, IndicesGivenOut
<1>2. IsFiniteSet(nonAckedSends) /\ IsFiniteSet(nonAckedMessages)
  BY <1>1, BelowIsFinite
<1>3. \A i \in nonAckedSends : Data(i) \in FromServer
  BY <1>1 DEF Data, FromServer, Message
<1>4. \A i \in nonAckedMessages : Data(i) \in FromClient
  BY <1>1 DEF Data, FromClient, Message
<1>5. \A r \in BOOLEAN : Ping(clientIndex, r) \in FromServer
  BY <1>1 DEF Ping, FromServer, Message
<1>6. \A r \in BOOLEAN : Ping(serverIndex, r) \in FromClient
  BY <1>1 DEF Ping, FromClient, Message
<1>7. nonAckedSends \in SUBSET Nat /\ nonAckedMessages \in SUBSET Nat
  BY <1>1
<1>8. FromServer \subseteq Message /\ FromClient \subseteq Message
  BY DEF FromServer, FromClient
<1>9. QED
  BY <1>2, <1>3, <1>4, <1>5, <1>6, <1>7, <1>8

LEMMA InitIInv == Init => IInv
<1>1. SUFFICES ASSUME Init PROVE IInv
  OBVIOUS
<1>2. TypeOK
  <2>1. <<>> \in Seq(Message) /\ <<>> \in Seq(Listeners)
    OBVIOUS
  <2>2. ServerTypeOK
    BY <1>1, <2>1 DEF Init, ServerInit, ServerTypeOK, NoAttempt, NoConnection
  <2>3. ClientTypeOK
    BY <1>1 DEF Init, ClientInit, ClientTypeOK
  <2>4. QED
    BY <1>1, <2>1, <2>2, <2>3 DEF Init, TypeOK
<1>3. InFlightTruthful
  <2>1. <<>> \in Seq(FromServer) /\ <<>> \in Seq(FromClient)
    OBVIOUS
  <2>2. QED
    BY <1>1, <2>1 DEF Init, ServerInit, NoAttempt, InFlightTruthful
<1>4. IndicesGivenOut /\ ServerRetainsUnseen /\ ClientRetainsUnseen /\ PingTimerRuns
  BY <1>1 DEF Init, ServerInit, ClientInit, IndicesGivenOut, ServerRetainsUnseen,
              ClientRetainsUnseen, PingTimerRuns
<1>5. QED
  BY <1>2, <1>3, <1>4 DEF IInv

----------------------------------------------------------------------------
(* One lemma per action.  Each proves the conjuncts the action can disturb *)
(* and leaves the others to what it leaves unchanged.                      *)

\* What a network step leaves alone.
LEMMA ClientUnchanged ==
    ASSUME TypeOK, UNCHANGED clientVars
    PROVE  ClientTypeOK'
BY DEF TypeOK, ClientTypeOK, clientVars

LEMMA ServerUnchanged ==
    ASSUME TypeOK, UNCHANGED serverVars
    PROVE  ServerTypeOK'
BY DEF TypeOK, ServerTypeOK, serverVars

LEMMA ServerSendsIInv == IInv /\ ServerSends => IInv'
<1>1. SUFFICES ASSUME IInv, ServerSends PROVE IInv'
  OBVIOUS
<1> DEFINE n == nextMessageIndex
<1>2. /\ TypeOK /\ InFlightTruthful /\ IndicesGivenOut
      /\ ServerTypeOK /\ ClientTypeOK
      /\ UNCHANGED <<clientVars, networkVars>>
      /\ n \in Nat \ {0} /\ n' = n + 1
  BY <1>1 DEF IInv, ServerSends, ServerSend, TypeOK, ServerTypeOK, ClientTypeOK,
              IndicesGivenOut
<1>3. /\ ~IsPing(Data(n)) /\ Data(n).index = n
      /\ Data(n) \in Message
  BY <1>2 DEF IsPing, Data, Message
<1>4. /\ nonAckedSends' = nonAckedSends \cup {n}
      /\ pendingSends' = Append(pendingSends, Data(n))
      /\ activeImmediate' \in BOOLEAN
      /\ UNCHANGED <<connection, clientIndex, attempt, sendAttemptListeners,
                      running, pingTimeout>>
  BY <1>1, <1>3 DEF ServerSends, ServerSend, TransportMessage
<1>5. Seq(FromServer) \subseteq Seq(FromServer')
  BY <1>2, <1>4, FromServerGrows DEF ServerTypeOK
<1>6. Data(n) \in FromServer'
  BY <1>2, <1>3, <1>4 DEF FromServer, Data, ServerTypeOK
<1>7. pendingSends' \in Seq(FromServer')
  BY <1>2, <1>4, <1>5, <1>6, AppendProperties DEF InFlightTruthful
<1>8. TypeOK'
  <2>1. pendingSends' \in Seq(Message)
    BY <1>2, <1>3, <1>4, AppendProperties DEF ServerTypeOK
  <2>2. ServerTypeOK'
    BY <1>2, <1>4, <2>1 DEF ServerTypeOK
  <2>3. ClientTypeOK'
    BY <1>2, ClientUnchanged
  <2>4. QED
    BY <1>2, <2>2, <2>3 DEF TypeOK, networkVars
<1>9. InFlightTruthful'
  <2>1. FromClient' = FromClient
    BY <1>2 DEF FromClient, clientVars
  <2>2. QED
    BY <1>2, <1>4, <1>5, <1>7, <2>1 DEF InFlightTruthful, networkVars
<1>10. IndicesGivenOut'
  BY <1>2, <1>4 DEF IndicesGivenOut, clientVars, ServerTypeOK, ClientTypeOK
<1>11. ServerRetainsUnseen' /\ ClientRetainsUnseen' /\ PingTimerRuns'
  BY <1>1, <1>2, <1>4 DEF IInv, ServerRetainsUnseen, ClientRetainsUnseen, PingTimerRuns,
                          clientVars
<1>12. QED
  BY <1>8, <1>9, <1>10, <1>11 DEF IInv

\* The rest of the invariant when no index and no memory of an end changes.
LEMMA IndicesUnchanged ==
    ASSUME IInv,
           UNCHANGED <<nextMessageIndex, clientIndex, nonAckedSends, connection,
                       pingTimeout, clientVars>>
    PROVE  /\ FromServer' = FromServer /\ FromClient' = FromClient
           /\ IndicesGivenOut' /\ ServerRetainsUnseen' /\ ClientRetainsUnseen'
           /\ PingTimerRuns' /\ ClientTypeOK'
<1>1. FromServer' = FromServer /\ FromClient' = FromClient
  BY DEF FromServer, FromClient, clientVars
<1>2. IndicesGivenOut' /\ ServerRetainsUnseen' /\ ClientRetainsUnseen' /\ PingTimerRuns'
  BY DEF IInv, IndicesGivenOut, ServerRetainsUnseen, ClientRetainsUnseen, PingTimerRuns,
         clientVars
<1>3. ClientTypeOK'
  BY ClientUnchanged DEF IInv
<1>4. QED
  BY <1>1, <1>2, <1>3

LEMMA ServerFlushesIInv == IInv /\ ServerFlushes => IInv'
<1>1. SUFFICES ASSUME IInv, ServerFlushes PROVE IInv'
  OBVIOUS
<1>2. /\ TypeOK /\ InFlightTruthful /\ ServerTypeOK
      /\ TransportAllPendingMessages(pendingSends)
      /\ UNCHANGED <<nextMessageIndex, connection, clientIndex, nonAckedSends, running,
                      pingTimeout, clientVars, networkVars>>
  BY <1>1 DEF IInv, TypeOK, ServerFlushes, ServerImmediate
<1>3. /\ FromServer' = FromServer /\ FromClient' = FromClient
      /\ IndicesGivenOut' /\ ServerRetainsUnseen' /\ ClientRetainsUnseen'
      /\ PingTimerRuns' /\ ClientTypeOK'
  BY <1>1, <1>2, IndicesUnchanged
<1>4. FromServer \subseteq Message
  BY DEF FromServer
<1>5. /\ pendingSends' \in Seq(FromServer)
      /\ attempt' \in [socket : Nat, messages : Seq(Message), written : BOOLEAN]
      /\ attempt'.messages \in Seq(FromServer)
      /\ sendAttemptListeners' \in Seq(Listeners)
      /\ activeImmediate' \in BOOLEAN
  BY <1>2, <1>4, FlushKeeps DEF InFlightTruthful
<1>6. pendingSends' \in Seq(Message)
  BY <1>4, <1>5, SeqMonotonic
<1>7. TypeOK'
  BY <1>2, <1>3, <1>5, <1>6 DEF TypeOK, ServerTypeOK, networkVars
<1>8. InFlightTruthful'
  BY <1>2, <1>3, <1>5 DEF InFlightTruthful, networkVars
<1>9. QED
  BY <1>3, <1>7, <1>8 DEF IInv

LEMMA SocketWriteIInv == IInv /\ SocketWrite => IInv'
<1>1. SUFFICES ASSUME IInv, SocketWrite PROVE IInv'
  OBVIOUS
<1>2. /\ TypeOK /\ InFlightTruthful /\ ServerTypeOK
      /\ attempt' = [attempt EXCEPT !.written = TRUE]
      /\ toClient' = toClient \o attempt.messages \/ toClient' = toClient
      /\ UNCHANGED <<nextMessageIndex, connection, clientIndex, pendingSends,
                     nonAckedSends, activeImmediate, sendAttemptListeners, running,
                     pingTimeout, clientVars, serverSocket, toServer, recovered>>
  BY <1>1 DEF IInv, TypeOK, SocketWrite
<1>3. /\ FromServer' = FromServer /\ FromClient' = FromClient
      /\ IndicesGivenOut' /\ ServerRetainsUnseen' /\ ClientRetainsUnseen'
      /\ PingTimerRuns' /\ ClientTypeOK'
  BY <1>1, <1>2, IndicesUnchanged
<1>4. /\ attempt' \in [socket : Nat, messages : Seq(Message), written : BOOLEAN]
      /\ attempt'.messages = attempt.messages
  BY <1>2 DEF ServerTypeOK
<1>5. toClient' \in Seq(FromServer)
  BY <1>2, ConcatProperties DEF InFlightTruthful
<1>6. toClient' \in Seq(Message)
  BY <1>5, SeqMonotonic DEF FromServer
<1>7. TypeOK'
  BY <1>2, <1>3, <1>4, <1>6 DEF TypeOK, ServerTypeOK
<1>8. InFlightTruthful'
  BY <1>2, <1>3, <1>4, <1>5 DEF InFlightTruthful
<1>9. QED
  BY <1>3, <1>7, <1>8 DEF IInv

LEMMA SendDoneIInv ==
    ASSUME NEW failed \in BOOLEAN
    PROVE  IInv /\ SendDone(failed) /\ UNCHANGED <<clientVars, networkVars>> => IInv'
<1>1. SUFFICES ASSUME IInv, SendDone(failed), UNCHANGED <<clientVars, networkVars>>
               PROVE  IInv'
  OBVIOUS
<1>2. /\ TypeOK /\ InFlightTruthful /\ ServerTypeOK
      /\ attempt' = NoAttempt
      /\ pendingSends' = attempt.messages \o pendingSends \/ pendingSends' = pendingSends
      /\ running' = sendAttemptListeners /\ sendAttemptListeners' = <<>>
      /\ UNCHANGED <<nextMessageIndex, connection, clientIndex, nonAckedSends,
                     activeImmediate, pingTimeout, clientVars, networkVars>>
  BY <1>1 DEF IInv, TypeOK, SendDone
<1>3. /\ FromServer' = FromServer /\ FromClient' = FromClient
      /\ IndicesGivenOut' /\ ServerRetainsUnseen' /\ ClientRetainsUnseen'
      /\ PingTimerRuns' /\ ClientTypeOK'
  BY <1>1, <1>2, IndicesUnchanged
<1>4. /\ attempt' \in [socket : Nat, messages : Seq(Message), written : BOOLEAN]
      /\ attempt'.messages \in Seq(FromServer)
      /\ sendAttemptListeners' \in Seq(Listeners)
  <2>1. <<>> \in Seq(Message) /\ <<>> \in Seq(FromServer) /\ <<>> \in Seq(Listeners)
    OBVIOUS
  <2>2. QED
    BY <1>2, <2>1 DEF NoAttempt, NoConnection
<1>5. pendingSends' \in Seq(FromServer)
  BY <1>2, ConcatProperties DEF InFlightTruthful
<1>6. pendingSends' \in Seq(Message)
  BY <1>5, SeqMonotonic DEF FromServer
<1>7. TypeOK'
  BY <1>2, <1>3, <1>4, <1>6 DEF TypeOK, ServerTypeOK, networkVars
<1>8. InFlightTruthful'
  BY <1>2, <1>3, <1>4, <1>5 DEF InFlightTruthful, networkVars
<1>9. QED
  BY <1>3, <1>7, <1>8 DEF IInv

LEMMA ServerListenerIInv == IInv /\ ServerListener => IInv'
<1>1. SUFFICES ASSUME IInv, ServerListener PROVE IInv'
  OBVIOUS
<1>2. /\ TypeOK /\ InFlightTruthful /\ ServerTypeOK /\ IndicesGivenOut
      /\ \/ TransportAllPendingMessages(pendingSends)
         \/ RecoverMissingMessages(nonAckedSends)
      /\ running # <<>> /\ running' = Tail(running)
      /\ UNCHANGED <<nextMessageIndex, connection, clientIndex, nonAckedSends,
                     pingTimeout, clientVars, networkVars>>
  BY <1>1 DEF IInv, TypeOK, ServerListener, SendAttemptListener
<1>3. /\ FromServer' = FromServer /\ FromClient' = FromClient
      /\ IndicesGivenOut' /\ ServerRetainsUnseen' /\ ClientRetainsUnseen'
      /\ PingTimerRuns' /\ ClientTypeOK'
  BY <1>1, <1>2, IndicesUnchanged
<1>4. FromServer \subseteq Message
  BY DEF FromServer
<1>5. /\ pendingSends' \in Seq(FromServer)
      /\ attempt' \in [socket : Nat, messages : Seq(Message), written : BOOLEAN]
      /\ attempt'.messages \in Seq(FromServer)
      /\ sendAttemptListeners' \in Seq(Listeners)
      /\ activeImmediate' \in BOOLEAN
  <2>1. CASE TransportAllPendingMessages(pendingSends)
    BY <1>2, <1>4, <2>1, FlushKeeps DEF InFlightTruthful
  <2>2. CASE RecoverMissingMessages(nonAckedSends)
    BY <1>2, <1>4, <2>2, MayBeSent, RecoverKeeps DEF InFlightTruthful
  <2>3. QED
    BY <1>2, <2>1, <2>2
<1>6. running' \in Seq(Listeners)
  BY <1>2, HeadTailProperties DEF ServerTypeOK
<1>7. pendingSends' \in Seq(Message)
  BY <1>4, <1>5, SeqMonotonic
<1>8. TypeOK'
  BY <1>2, <1>3, <1>5, <1>6, <1>7 DEF TypeOK, ServerTypeOK, networkVars
<1>9. InFlightTruthful'
  BY <1>2, <1>3, <1>5 DEF InFlightTruthful, networkVars
<1>10. QED
  BY <1>3, <1>8, <1>9 DEF IInv

LEMMA ServerPingsIInv == IInv /\ ServerPings => IInv'
<1>1. SUFFICES ASSUME IInv, ServerPings PROVE IInv'
  OBVIOUS
<1> DEFINE ping == Ping(clientIndex, FALSE)
<1>2. /\ TypeOK /\ InFlightTruthful /\ ServerTypeOK /\ IndicesGivenOut /\ PingTimerRuns
      /\ UNCHANGED <<nextMessageIndex, connection, clientIndex, attempt,
                     sendAttemptListeners, running, clientVars, networkVars>>
  BY <1>1 DEF IInv, TypeOK, ServerPings, SendInactivityPing
<1>3. IsPing(ping) /\ ping \in FromServer
  BY <1>2, MayBeSent DEF IsPing, Ping
<1>4. /\ nonAckedSends' = nonAckedSends
      /\ pendingSends' = Append(pendingSends, ping) \/ pendingSends' = pendingSends
      /\ activeImmediate' \in BOOLEAN
      /\ pingTimeout' \in BOOLEAN
      /\ connection # NoConnection => pingTimeout'
  BY <1>1, <1>2, <1>3 DEF ServerPings, SendInactivityPing, TransportMessage, ServerTypeOK
<1>5. /\ FromServer' = FromServer /\ FromClient' = FromClient
      /\ IndicesGivenOut' /\ ServerRetainsUnseen' /\ ClientRetainsUnseen'
      /\ ClientTypeOK'
  BY <1>1, <1>2, <1>4, ClientUnchanged DEF FromServer, FromClient, IInv, IndicesGivenOut,
         ServerRetainsUnseen, ClientRetainsUnseen, clientVars
<1>6. pendingSends' \in Seq(FromServer)
  <2>1. pendingSends \in Seq(FromServer)
    BY <1>2 DEF InFlightTruthful
  <2>2. Append(pendingSends, ping) \in Seq(FromServer)
    BY <1>3, <2>1, AppendProperties
  <2>3. QED
    BY <1>4, <2>1, <2>2
<1>7. pendingSends' \in Seq(Message)
  BY <1>6, SeqMonotonic DEF FromServer
<1>8. TypeOK'
  BY <1>2, <1>4, <1>5, <1>7 DEF TypeOK, ServerTypeOK, networkVars
<1>9. InFlightTruthful' /\ PingTimerRuns'
  BY <1>2, <1>4, <1>5, <1>6 DEF InFlightTruthful, networkVars, PingTimerRuns
<1>10. QED
  BY <1>5, <1>8, <1>9 DEF IInv

\* The messages in flight to the server, once the first of a websocket is out.
LEMMA WireTail ==
    ASSUME NEW s \in Sockets, NEW T, toServer[s] \in Seq(T), toServer[s] # <<>>
    PROVE  Head(toServer[s]) \in T /\ Tail(toServer[s]) \in Seq(T)
BY HeadTailProperties

LEMMA ServerReceivesIInv ==
    ASSUME NEW s \in Sockets
    PROVE  IInv /\ ServerReceives(s) => IInv'
<1>1. SUFFICES ASSUME IInv, ServerReceives(s) PROVE IInv'
  OBVIOUS
<1> DEFINE m == Head(toServer[s])
<1>2. /\ TypeOK /\ InFlightTruthful /\ ServerTypeOK /\ ClientTypeOK /\ IndicesGivenOut
      /\ MessageReceived(m) /\ toServer[s] # <<>>
      /\ toServer' = [toServer EXCEPT ![s] = Tail(@)]
      /\ UNCHANGED <<nextMessageIndex, connection, running, pingTimeout, clientVars,
                     serverSocket, toClient, recovered>>
  BY <1>1 DEF IInv, TypeOK, ServerReceives, MessageReceived
<1>3. /\ m \in FromClient
      /\ Tail(toServer[s]) \in Seq(FromClient) /\ Tail(toServer[s]) \in Seq(Message)
  BY <1>2, WireTail DEF InFlightTruthful, TypeOK
<1>4. /\ m.index \in Nat /\ m.ack \in Nat /\ m.index < clientNextIndex
      /\ m.ack <= serverIndex
  BY <1>3 DEF FromClient, Message
<1>5. /\ FromClient' = FromClient /\ ClientTypeOK'
      /\ toServer' \in [Sockets -> Seq(Message)]
      /\ \A r \in Sockets : toServer'[r] \in Seq(FromClient)
  BY <1>2, <1>3, ClientUnchanged DEF FromClient, clientVars, TypeOK, InFlightTruthful
<1>6. CASE IsPing(m)
  <2>1. PingMessageReceived(m) /\ clientIndex' = clientIndex
    BY <1>2, <1>6 DEF MessageReceived
  <2>2. /\ nonAckedSends' = {i \in nonAckedSends : i > m.ack}
        /\ nonAckedSends' \subseteq nonAckedSends
    BY <2>1 DEF PingMessageReceived, Unacked
  <2>3. FromServer' = FromServer /\ FromServer \subseteq Message
    BY <1>2, <2>1 DEF FromServer
  <2>4. /\ IsFiniteSet(nonAckedSends') /\ nonAckedSends' \in SUBSET Nat
        /\ \A i \in nonAckedSends' : Data(i) \in FromServer
        /\ Ping(clientIndex, TRUE) \in FromServer
    BY <1>2, <2>2, MayBeSent, FS_Subset
  <2>5. /\ pendingSends' \in Seq(FromServer)
        /\ attempt' \in [socket : Nat, messages : Seq(Message), written : BOOLEAN]
        /\ attempt'.messages \in Seq(FromServer)
        /\ sendAttemptListeners' \in Seq(Listeners)
        /\ activeImmediate' \in BOOLEAN
    <3>1. CASE ~m.resendMissing
      BY <1>2, <2>1, <3>1 DEF PingMessageReceived, InFlightTruthful, ServerTypeOK
    <3>2. CASE m.resendMissing /\ Sending
      <4>1. "recoverMissingMessages" \in Listeners
        BY DEF Listeners
      <4>2. sendAttemptListeners' = Append(sendAttemptListeners, "recoverMissingMessages")
        BY <2>1, <3>2 DEF PingMessageReceived
      <4>3. sendAttemptListeners' \in Seq(Listeners)
        BY <1>2, <4>1, <4>2, AppendProperties DEF ServerTypeOK
      <4>4. QED
        BY <1>2, <2>1, <3>2, <4>3 DEF PingMessageReceived, InFlightTruthful, ServerTypeOK
    <3>3. CASE m.resendMissing /\ ~Sending
      <4>1. RecoverMissingMessages(nonAckedSends')
        BY <2>1, <3>3 DEF PingMessageReceived
      <4>2. QED
        BY <1>2, <2>3, <2>4, <4>1, RecoverKeeps DEF InFlightTruthful
    <3>4. QED
      BY <3>1, <3>2, <3>3
  <2>6. pendingSends' \in Seq(Message)
    BY <2>3, <2>5, SeqMonotonic
  <2>7. TypeOK'
    BY <1>2, <1>5, <2>1, <2>4, <2>5, <2>6 DEF TypeOK, ServerTypeOK
  <2>8. InFlightTruthful'
    BY <1>2, <1>5, <2>3, <2>5 DEF InFlightTruthful
  <2>9. IndicesGivenOut'
    BY <1>2, <2>1, <2>2 DEF IndicesGivenOut, clientVars
  <2>10. ServerRetainsUnseen'
    BY <1>1, <1>2, <1>4, <2>2 DEF IInv, ServerRetainsUnseen, clientVars, ServerTypeOK,
                                  ClientTypeOK
  <2>11. ClientRetainsUnseen' /\ PingTimerRuns'
    BY <1>1, <1>2, <2>1 DEF IInv, ClientRetainsUnseen, PingTimerRuns, clientVars
  <2>12. QED
    BY <2>7, <2>8, <2>9, <2>10, <2>11 DEF IInv
<1>7. CASE ~IsPing(m)
  <2>1. /\ clientIndex' = IF m.index > clientIndex THEN m.index ELSE clientIndex
        /\ UNCHANGED <<nonAckedSends, pendingSends, activeImmediate, attempt,
                       sendAttemptListeners>>
    BY <1>2, <1>7 DEF MessageReceived
  <2>2. clientIndex' \in Nat /\ clientIndex <= clientIndex' /\ clientIndex' < clientNextIndex
    BY <1>2, <1>4, <2>1 DEF ServerTypeOK, IndicesGivenOut
  <2>3. Seq(FromServer) \subseteq Seq(FromServer')
    BY <1>2, <2>2, FromServerGrows DEF ServerTypeOK
  <2>4. TypeOK'
    BY <1>2, <1>5, <2>1, <2>2 DEF TypeOK, ServerTypeOK
  <2>5. InFlightTruthful'
    BY <1>2, <1>5, <2>1, <2>3 DEF InFlightTruthful
  <2>6. IndicesGivenOut'
    BY <1>2, <2>1, <2>2 DEF IndicesGivenOut, clientVars
  <2>7. ServerRetainsUnseen' /\ PingTimerRuns'
    BY <1>1, <1>2, <2>1 DEF IInv, ServerRetainsUnseen, PingTimerRuns, clientVars
  <2>8. ClientRetainsUnseen'
    BY <1>1, <1>2, <2>2 DEF IInv, ClientRetainsUnseen, clientVars, ServerTypeOK, ClientTypeOK
  <2>9. QED
    BY <2>4, <2>5, <2>6, <2>7, <2>8 DEF IInv
<1>8. QED
  BY <1>6, <1>7

LEMMA ServerAcceptsIInv ==
    ASSUME NEW s \in Sockets
    PROVE  IInv /\ ServerAccepts(s) => IInv'
<1>1. SUFFICES ASSUME IInv, ServerAccepts(s) PROVE IInv'
  OBVIOUS
<1>2. /\ TypeOK /\ InFlightTruthful /\ ServerTypeOK
      /\ \/ connection' = s /\ pingTimeout' = TRUE
         \/ UNCHANGED <<connection, pingTimeout>>
      /\ serverSocket' \in [Sockets -> {"none", "handshake", "open", "closed"}]
      /\ UNCHANGED <<nextMessageIndex, clientIndex, pendingSends, nonAckedSends,
                     activeImmediate, attempt, sendAttemptListeners, running,
                     clientVars, toServer, toClient, recovered>>
  BY <1>1 DEF IInv, TypeOK, ServerAccepts, ResumeWithConnection, serverVars
<1>3. s \in Nat
  BY ChannelAssumption DEF Sockets
<1>4. TypeOK'
  BY <1>2, <1>3, ClientUnchanged DEF TypeOK, ServerTypeOK
<1>5. InFlightTruthful' /\ IndicesGivenOut' /\ ServerRetainsUnseen' /\ ClientRetainsUnseen'
  BY <1>1, <1>2 DEF IInv, InFlightTruthful, IndicesGivenOut, ServerRetainsUnseen,
                    ClientRetainsUnseen, FromServer, FromClient, clientVars
<1>6. PingTimerRuns'
  BY <1>1, <1>2 DEF IInv, PingTimerRuns
<1>7. QED
  BY <1>4, <1>5, <1>6 DEF IInv

LEMMA ServerDeniesIInv ==
    ASSUME NEW s \in Sockets
    PROVE  IInv /\ ServerDenies(s) => IInv'
<1>1. SUFFICES ASSUME IInv, ServerDenies(s) PROVE IInv'
  OBVIOUS
<1>2. /\ TypeOK /\ InFlightTruthful
      /\ serverSocket' \in [Sockets -> {"none", "handshake", "open", "closed"}]
      /\ toServer' = [toServer EXCEPT ![s] = <<>>]
      /\ UNCHANGED <<serverVars, clientVars, toClient, recovered>>
  BY <1>1 DEF IInv, TypeOK, ServerDenies
<1>3. <<>> \in Seq(Message) /\ <<>> \in Seq(FromClient)
  OBVIOUS
<1>4. TypeOK'
  BY <1>2, <1>3, ClientUnchanged, ServerUnchanged DEF TypeOK
<1>5. FromServer' = FromServer /\ FromClient' = FromClient
  BY <1>2 DEF FromServer, FromClient, serverVars, clientVars
<1>6. InFlightTruthful'
  BY <1>2, <1>3, <1>5 DEF InFlightTruthful, TypeOK, serverVars
<1>7. IndicesGivenOut' /\ ServerRetainsUnseen' /\ ClientRetainsUnseen' /\ PingTimerRuns'
  BY <1>1, <1>2 DEF IInv, IndicesGivenOut, ServerRetainsUnseen, ClientRetainsUnseen,
                    PingTimerRuns, clientVars, serverVars
<1>8. QED
  BY <1>4, <1>6, <1>7 DEF IInv

LEMMA ServerNoticesCloseIInv ==
    ASSUME NEW s \in Sockets
    PROVE  IInv /\ ServerNoticesClose(s) => IInv'
<1>1. SUFFICES ASSUME IInv, ServerNoticesClose(s) PROVE IInv'
  OBVIOUS
<1>2. /\ TypeOK /\ InFlightTruthful /\ ServerTypeOK
      /\ connection' = NoConnection
      /\ serverSocket' \in [Sockets -> {"none", "handshake", "open", "closed"}]
      /\ toServer' = [toServer EXCEPT ![s] = <<>>]
      /\ UNCHANGED <<nextMessageIndex, clientIndex, pendingSends, nonAckedSends,
                     activeImmediate, attempt, sendAttemptListeners, running,
                     pingTimeout, clientVars, toClient, recovered>>
  BY <1>1 DEF IInv, TypeOK, ServerNoticesClose, ConnectionClosed
<1>3. <<>> \in Seq(Message) /\ <<>> \in Seq(FromClient)
  OBVIOUS
<1>4. TypeOK'
  BY <1>2, <1>3, ClientUnchanged DEF TypeOK, ServerTypeOK, NoConnection
<1>5. FromServer' = FromServer /\ FromClient' = FromClient
  BY <1>2 DEF FromServer, FromClient, clientVars
<1>6. InFlightTruthful'
  BY <1>2, <1>3, <1>5 DEF InFlightTruthful, TypeOK
<1>7. IndicesGivenOut' /\ ServerRetainsUnseen' /\ ClientRetainsUnseen' /\ PingTimerRuns'
  BY <1>1, <1>2 DEF IInv, IndicesGivenOut, ServerRetainsUnseen, ClientRetainsUnseen,
                    PingTimerRuns, clientVars
<1>8. QED
  BY <1>4, <1>6, <1>7 DEF IInv

\* What the client puts on its websocket keeps the wires well formed.
LEMMA PutKeeps ==
    ASSUME NEW T, NEW messages \in Seq(T), PutToServer(messages),
           toServer \in [Sockets -> Seq(T)]
    PROVE  toServer' \in [Sockets -> Seq(T)]
<1>1. CASE CanSend /\ serverSocket[socket] # "closed"
  <2>1. toServer' = [toServer EXCEPT ![socket] = @ \o messages]
    BY <1>1 DEF PutToServer
  <2>2. \A r \in Sockets : toServer[r] \o messages \in Seq(T)
    BY ConcatProperties
  <2>3. QED
    BY <2>1, <2>2
<1>2. CASE ~(CanSend /\ serverSocket[socket] # "closed")
  BY <1>2 DEF PutToServer
<1>3. QED
  BY <1>1, <1>2

\* The wires to the server, as a function.
LEMMA WiresTruthful ==
    ASSUME TypeOK
    PROVE  InFlightTruthful <=> /\ pendingSends \in Seq(FromServer)
                                /\ attempt.messages \in Seq(FromServer)
                                /\ toClient \in Seq(FromServer)
                                /\ toServer \in [Sockets -> Seq(FromClient)]
BY DEF InFlightTruthful, TypeOK

LEMMA ClientSendsIInv == IInv /\ ClientSends => IInv'
<1>1. SUFFICES ASSUME IInv, ClientSends PROVE IInv'
  OBVIOUS
<1> DEFINE n == clientNextIndex
<1>2. /\ TypeOK /\ InFlightTruthful /\ IndicesGivenOut /\ ClientTypeOK
      /\ n \in Nat \ {0} /\ n' = n + 1
      /\ nonAckedMessages' = nonAckedMessages \cup (IF sessionSet THEN {n} ELSE {})
      /\ PutToServer(<<Data(n)>>)
      /\ UNCHANGED <<serverVars, serverSocket, toClient, recovered, status, socket,
                     latestSocket, explicitlyClosed, sessionSet, serverIndex>>
  BY <1>1 DEF IInv, ClientSends, ClientSend, TypeOK, ServerTypeOK, ClientTypeOK,
              IndicesGivenOut
<1>3. Seq(FromClient) \subseteq Seq(FromClient') /\ FromServer' = FromServer
  BY <1>2, FromClientGrows DEF ClientTypeOK, FromServer, serverVars
<1>4. Data(n) \in FromClient' /\ Data(n) \in Message
  BY <1>2 DEF FromClient, Data, Message, ClientTypeOK
<1>5. <<Data(n)>> \in Seq(FromClient') /\ <<Data(n)>> \in Seq(Message)
  BY <1>4
<1>6. toServer \in [Sockets -> Seq(FromClient')]
  BY <1>2, <1>3, WiresTruthful
<1>7. toServer' \in [Sockets -> Seq(FromClient')]
  BY <1>2, <1>5, <1>6, PutKeeps
<1>8. TypeOK'
  <2>1. toServer' \in [Sockets -> Seq(Message)]
    BY <1>2, <1>5, PutKeeps DEF TypeOK
  <2>2. ClientTypeOK'
    BY <1>2 DEF ClientTypeOK
  <2>3. QED
    BY <1>2, <2>1, <2>2, ServerUnchanged DEF TypeOK
<1>9. InFlightTruthful'
  BY <1>2, <1>3, <1>7 DEF InFlightTruthful, serverVars
<1>10. IndicesGivenOut'
  BY <1>2 DEF IndicesGivenOut, serverVars, ClientTypeOK, TypeOK, ServerTypeOK
<1>11. ClientRetainsUnseen'
  BY <1>1, <1>2 DEF IInv, ClientRetainsUnseen, serverVars
<1>12. ServerRetainsUnseen' /\ PingTimerRuns'
  BY <1>1, <1>2 DEF IInv, ServerRetainsUnseen, PingTimerRuns, serverVars
<1>13. QED
  BY <1>8, <1>9, <1>10, <1>11, <1>12 DEF IInv

LEMMA ClientTakesPingIInv ==
    ASSUME NEW m \in FromServer
    PROVE  /\ IInv /\ toClient # <<>>
           /\ ClientTakesPing(m) /\ UNCHANGED <<serverVars, serverSocket>>
           => IInv'
<1>1. SUFFICES ASSUME IInv, toClient # <<>>, ClientTakesPing(m),
                      UNCHANGED <<serverVars, serverSocket>>
               PROVE  IInv'
  OBVIOUS
<1>2. /\ TypeOK /\ InFlightTruthful /\ IndicesGivenOut /\ ClientTypeOK
      /\ nonAckedMessages' = {i \in nonAckedMessages : i > m.ack}
      /\ toClient' = Tail(toClient)
      /\ recovered' \in BOOLEAN
      /\ UNCHANGED <<status, socket, latestSocket, explicitlyClosed, sessionSet,
                     serverIndex, clientNextIndex>>
  BY <1>1 DEF IInv, TypeOK, ClientTakesPing, PingMessageTaken, Unacked
<1>3. m.ack \in Nat /\ m.ack <= clientIndex
  BY DEF FromServer, Message
<1>4. FromServer' = FromServer /\ FromClient' = FromClient
  BY <1>1, <1>2 DEF FromServer, FromClient, serverVars
<1>5. Tail(toClient) \in Seq(FromServer) /\ Tail(toClient) \in Seq(Message)
  BY <1>1, <1>2, HeadTailProperties DEF InFlightTruthful, TypeOK
<1>6. toServer' \in [Sockets -> Seq(Message)] /\ toServer' \in [Sockets -> Seq(FromClient)]
  <2>1. toServer \in [Sockets -> Seq(Message)] /\ toServer \in [Sockets -> Seq(FromClient)]
    BY <1>2, WiresTruthful DEF TypeOK
  <2>2. CASE ~m.resendMissing
    BY <1>1, <2>1, <2>2 DEF ClientTakesPing
  <2>3. CASE m.resendMissing
    <3>1. PICK q \in InOrder(nonAckedMessages') : PutToServer(DataSeq(q))
      BY <1>1, <2>3 DEF ClientTakesPing
    <3>2. /\ IsFiniteSet(nonAckedMessages') /\ nonAckedMessages' \in SUBSET Nat
          /\ \A i \in nonAckedMessages' : Data(i) \in FromClient
      BY <1>2, MayBeSent, FS_Subset
    <3>3. FromClient \subseteq Message
      BY DEF FromClient
    <3>4. DataSeq(q) \in Seq(FromClient)
      BY <3>2, DataSeqType
    <3>5. DataSeq(q) \in Seq(Message)
      BY <3>3, <3>4, SeqMonotonic
    <3>6. QED
      BY <2>1, <3>1, <3>4, <3>5, PutKeeps
  <2>4. QED
    BY <2>2, <2>3
<1>7. TypeOK'
  <2>1. ClientTypeOK'
    BY <1>2 DEF ClientTypeOK
  <2>2. QED
    BY <1>1, <1>2, <1>5, <1>6, <2>1, ServerUnchanged DEF TypeOK
<1>8. InFlightTruthful'
  BY <1>1, <1>2, <1>4, <1>5, <1>6 DEF InFlightTruthful, serverVars
<1>9. IndicesGivenOut' /\ ServerRetainsUnseen' /\ PingTimerRuns'
  BY <1>1, <1>2 DEF IInv, IndicesGivenOut, ServerRetainsUnseen, PingTimerRuns, serverVars
<1>10. ClientRetainsUnseen'
  BY <1>1, <1>2, <1>3 DEF IInv, ClientRetainsUnseen, serverVars, ClientTypeOK, TypeOK,
                          ServerTypeOK
<1>11. QED
  BY <1>7, <1>8, <1>9, <1>10 DEF IInv

\* A data message is dropped, is taken as the next, or ends the session.
LEMMA ClientTakesDataIInv ==
    ASSUME NEW m \in FromServer
    PROVE  /\ IInv /\ toClient # <<>>
           /\ ClientTakesData(m) /\ UNCHANGED <<serverVars, serverSocket>>
           => IInv'
<1>1. SUFFICES ASSUME IInv, toClient # <<>>, ClientTakesData(m),
                      UNCHANGED <<serverVars, serverSocket>>
               PROVE  IInv'
  OBVIOUS
<1>2. /\ TypeOK /\ InFlightTruthful /\ IndicesGivenOut /\ ClientTypeOK
      /\ m.index \in Nat /\ m.index < nextMessageIndex
      /\ UNCHANGED <<toServer, recovered>>
  BY <1>1 DEF IInv, TypeOK, ClientTakesData, FromServer, Message
<1>3. /\ serverIndex' \in Nat /\ serverIndex <= serverIndex'
      /\ serverIndex' < nextMessageIndex
      /\ toClient' = Tail(toClient) \/ toClient' \in RestOfBatch
      /\ ClientTypeOK'
      /\ sessionSet' => sessionSet
      /\ UNCHANGED <<nonAckedMessages, clientNextIndex>>
  <2>1. CASE DuplicateIgnored(m) /\ toClient' = Tail(toClient)
    BY <1>2, <2>1 DEF DuplicateIgnored, clientVars, ClientTypeOK, IndicesGivenOut
  <2>2. CASE InOrderTaken(m) /\ toClient' = Tail(toClient)
    BY <1>2, <2>2 DEF InOrderTaken, ClientTypeOK
  <2>3. CASE GapReconnects(m) /\ toClient' \in RestOfBatch
    <3>1. /\ sessionSet' = FALSE /\ explicitlyClosed' = TRUE /\ socket' = 0
          /\ UNCHANGED <<status, latestSocket, nonAckedMessages, serverIndex,
                         clientNextIndex>>
      BY <2>3 DEF GapReconnects, NoSocket
    <3>2. ClientTypeOK'
      BY <1>2, <3>1 DEF ClientTypeOK
    <3>3. ~sessionSet'
      BY <3>1
    <3>4. serverIndex' \in Nat /\ serverIndex <= serverIndex' /\ serverIndex' < nextMessageIndex
      BY <1>2, <3>1 DEF ClientTypeOK, IndicesGivenOut
    <3>5. QED
      BY <2>3, <3>1, <3>2, <3>3, <3>4
  <2>4. QED
    BY <1>1, <2>1, <2>2, <2>3 DEF ClientTakesData
<1>4. Seq(FromClient) \subseteq Seq(FromClient') /\ FromServer' = FromServer
  BY <1>1, <1>2, <1>3, FromClientGrows DEF ClientTypeOK, FromServer, serverVars
<1>5. toClient' \in Seq(FromServer) /\ toClient' \in Seq(Message)
  <2>1. Tail(toClient) \in Seq(FromServer) /\ Tail(toClient) \in Seq(Message)
    BY <1>1, <1>2, HeadTailProperties DEF InFlightTruthful, TypeOK
  <2>2. ASSUME toClient' \in RestOfBatch
        PROVE  toClient' \in Seq(FromServer) /\ toClient' \in Seq(Message)
    <3>1. PICK n \in Nat : toClient' = SubSeq(toClient, 2, n) /\ n <= Len(toClient)
      <4>1. Len(toClient) \in Nat /\ Len(toClient) # 0
        BY <1>1, <1>2, EmptySeq, LenProperties DEF TypeOK
      <4>2. QED
        BY <2>2, <4>1 DEF RestOfBatch
    <3>2. \A T : toClient \in Seq(T) => SubSeq(toClient, 2, n) \in Seq(T)
      BY <3>1, SubSeqProperties
    <3>3. QED
      BY <1>2, <3>1, <3>2 DEF InFlightTruthful, TypeOK
  <2>3. QED
    BY <1>3, <2>1, <2>2
<1>6. TypeOK'
  BY <1>1, <1>2, <1>3, <1>5, ServerUnchanged DEF TypeOK
<1>7. InFlightTruthful'
  BY <1>1, <1>2, <1>4, <1>5 DEF InFlightTruthful, serverVars
<1>8. IndicesGivenOut' /\ ServerRetainsUnseen'
  BY <1>1, <1>2, <1>3 DEF IInv, IndicesGivenOut, ServerRetainsUnseen, serverVars,
                          ClientTypeOK, TypeOK, ServerTypeOK
<1>9. ClientRetainsUnseen' /\ PingTimerRuns'
  BY <1>1, <1>3 DEF IInv, ClientRetainsUnseen, PingTimerRuns, serverVars
<1>10. QED
  BY <1>6, <1>7, <1>8, <1>9 DEF IInv

LEMMA ClientReceivesIInv == IInv /\ ClientReceives => IInv'
<1>1. SUFFICES ASSUME IInv, ClientReceives PROVE IInv'
  OBVIOUS
<1>2. /\ toClient # <<>>
      /\ ClientTakesPing(Head(toClient)) \/ ClientTakesData(Head(toClient))
      /\ UNCHANGED <<serverVars, serverSocket>>
  BY <1>1 DEF ClientReceives
<1>3. Head(toClient) \in FromServer
  BY <1>1, <1>2, HeadTailProperties DEF IInv, InFlightTruthful
<1>4. QED
  BY <1>1, <1>2, <1>3, ClientTakesPingIInv, ClientTakesDataIInv

LEMMA ClientPingsIInv == IInv /\ ClientPings => IInv'
<1>1. SUFFICES ASSUME IInv, ClientPings PROVE IInv'
  OBVIOUS
<1>2. /\ TypeOK /\ InFlightTruthful /\ IndicesGivenOut
      /\ PutToServer(<<Ping(serverIndex, FALSE)>>)
      /\ UNCHANGED <<serverVars, clientVars, serverSocket, toClient, recovered>>
  BY <1>1 DEF IInv, ClientPings
<1>3. FromServer' = FromServer /\ FromClient' = FromClient /\ FromClient \subseteq Message
  BY <1>2 DEF FromServer, FromClient, serverVars, clientVars
<1>4. Ping(serverIndex, FALSE) \in FromClient
  BY <1>2, MayBeSent
<1>5. toServer' \in [Sockets -> Seq(FromClient)] /\ toServer' \in [Sockets -> Seq(Message)]
  <2>1. /\ <<Ping(serverIndex, FALSE)>> \in Seq(FromClient)
        /\ <<Ping(serverIndex, FALSE)>> \in Seq(Message)
    BY <1>3, <1>4, SingletonSeq
  <2>2. QED
    BY <1>2, <2>1, WiresTruthful, PutKeeps DEF TypeOK
<1>6. TypeOK'
  BY <1>2, <1>5, ClientUnchanged, ServerUnchanged DEF TypeOK
<1>7. InFlightTruthful'
  BY <1>2, <1>3, <1>5 DEF InFlightTruthful, serverVars
<1>8. IndicesGivenOut' /\ ServerRetainsUnseen' /\ ClientRetainsUnseen' /\ PingTimerRuns'
  BY <1>1, <1>2 DEF IInv, IndicesGivenOut, ServerRetainsUnseen, ClientRetainsUnseen,
                    PingTimerRuns, clientVars, serverVars
<1>9. QED
  BY <1>6, <1>7, <1>8 DEF IInv

LEMMA ClientLosesSocketIInv == IInv /\ ClientLosesSocket => IInv'
<1>1. SUFFICES ASSUME IInv, ClientLosesSocket PROVE IInv'
  OBVIOUS
<1>2. /\ TypeOK /\ InFlightTruthful /\ ClientTypeOK
      /\ SocketClose /\ toClient' = <<>> /\ recovered' = FALSE
      /\ UNCHANGED <<serverVars, serverSocket, toServer, explicitlyClosed, sessionSet,
                     nonAckedMessages, serverIndex, clientNextIndex>>
  BY <1>1 DEF IInv, TypeOK, ClientLosesSocket, SocketClose
<1>3. ClientTypeOK'
  BY <1>2 DEF ClientTypeOK, SocketClose
<1>4. <<>> \in Seq(Message) /\ <<>> \in Seq(FromServer)
  OBVIOUS
<1>5. TypeOK'
  BY <1>2, <1>3, <1>4, ServerUnchanged DEF TypeOK
<1>6. FromServer' = FromServer /\ FromClient' = FromClient
  BY <1>2 DEF FromServer, FromClient, serverVars
<1>7. InFlightTruthful'
  BY <1>2, <1>4, <1>6 DEF InFlightTruthful, serverVars
<1>8. IndicesGivenOut' /\ ServerRetainsUnseen' /\ ClientRetainsUnseen' /\ PingTimerRuns'
  BY <1>1, <1>2 DEF IInv, IndicesGivenOut, ServerRetainsUnseen, ClientRetainsUnseen,
                    PingTimerRuns, serverVars
<1>9. QED
  BY <1>5, <1>7, <1>8 DEF IInv

LEMMA ClientOpensIInv == IInv /\ ClientOpens => IInv'
<1>1. SUFFICES ASSUME IInv, ClientOpens PROVE IInv'
  OBVIOUS
<1> DEFINE ping == Ping(serverIndex, TRUE)
<1>2. /\ TypeOK /\ InFlightTruthful /\ ClientTypeOK /\ IndicesGivenOut
      /\ status' = "CONNECTED"
      /\ toServer' = [toServer EXCEPT ![socket] = Append(@, ping)] \/ toServer' = toServer
      /\ UNCHANGED <<serverVars, serverSocket, toClient, recovered, socket, latestSocket,
                     explicitlyClosed, sessionSet, nonAckedMessages, serverIndex,
                     clientNextIndex>>
  BY <1>1 DEF IInv, TypeOK, ClientOpens, SocketOpen
<1>3. FromServer' = FromServer /\ FromClient' = FromClient /\ FromClient \subseteq Message
  BY <1>2 DEF FromServer, FromClient, serverVars
<1>4. ping \in FromClient
  BY <1>2, MayBeSent
<1>5. toServer' \in [Sockets -> Seq(FromClient)] /\ toServer' \in [Sockets -> Seq(Message)]
  <2>1. toServer \in [Sockets -> Seq(Message)] /\ toServer \in [Sockets -> Seq(FromClient)]
    BY <1>2, WiresTruthful DEF TypeOK
  <2>2. \A r \in Sockets : /\ Append(toServer[r], ping) \in Seq(FromClient)
                           /\ Append(toServer[r], ping) \in Seq(Message)
    BY <1>3, <1>4, <2>1, AppendProperties
  <2>3. QED
    BY <1>2, <2>1, <2>2
<1>6. TypeOK'
  <2>1. ClientTypeOK'
    BY <1>2 DEF ClientTypeOK
  <2>2. QED
    BY <1>2, <1>5, <2>1, ServerUnchanged DEF TypeOK
<1>7. InFlightTruthful'
  BY <1>2, <1>3, <1>5 DEF InFlightTruthful, serverVars
<1>8. IndicesGivenOut' /\ ServerRetainsUnseen' /\ ClientRetainsUnseen' /\ PingTimerRuns'
  BY <1>1, <1>2 DEF IInv, IndicesGivenOut, ServerRetainsUnseen, ClientRetainsUnseen,
                    PingTimerRuns, serverVars
<1>9. QED
  BY <1>6, <1>7, <1>8 DEF IInv

LEMMA NextIInv == IInv /\ [Next]_vars => IInv'
<1>1. SUFFICES ASSUME IInv, [Next]_vars PROVE IInv'
  OBVIOUS
<1>2. CASE UNCHANGED vars
  <2>1. UNCHANGED <<serverVars, clientVars, serverSocket, toServer, toClient, recovered>>
    BY <1>2 DEF vars, networkVars
  <2>2. FromServer' = FromServer /\ FromClient' = FromClient
    BY <2>1 DEF FromServer, FromClient, serverVars, clientVars
  <2>3. TypeOK'
    BY <1>1, <2>1, ServerUnchanged, ClientUnchanged DEF IInv, TypeOK
  <2>4. InFlightTruthful'
    BY <1>1, <2>1, <2>2 DEF IInv, InFlightTruthful, serverVars
  <2>5. IndicesGivenOut' /\ ServerRetainsUnseen' /\ ClientRetainsUnseen' /\ PingTimerRuns'
    BY <1>1, <2>1 DEF IInv, IndicesGivenOut, ServerRetainsUnseen, ClientRetainsUnseen,
                      PingTimerRuns, serverVars, clientVars
  <2>6. QED
    BY <2>3, <2>4, <2>5 DEF IInv
<1>3. CASE ServerSends
  BY <1>1, <1>3, ServerSendsIInv
<1>4. CASE ServerFlushes
  BY <1>1, <1>4, ServerFlushesIInv
<1>5. CASE SocketWrite
  BY <1>1, <1>5, SocketWriteIInv
<1>6. CASE WriteSucceeds
  BY <1>1, <1>6, SendDoneIInv DEF WriteSucceeds
<1>7. CASE WriteFails
  BY <1>1, <1>7, SendDoneIInv DEF WriteFails
<1>8. CASE ServerListener
  BY <1>1, <1>8, ServerListenerIInv
<1>9. CASE ServerPings
  BY <1>1, <1>9, ServerPingsIInv
<1>10. ASSUME NEW s \in Sockets,
              ServerReceives(s) \/ ServerAccepts(s) \/ ServerDenies(s) \/ ServerNoticesClose(s)
       PROVE  IInv'
  BY <1>1, <1>10, ServerReceivesIInv, ServerAcceptsIInv, ServerDeniesIInv,
     ServerNoticesCloseIInv
<1>11. CASE ClientSends
  BY <1>1, <1>11, ClientSendsIInv
<1>12. CASE ClientReceives
  BY <1>1, <1>12, ClientReceivesIInv
<1>13. CASE ClientPings
  BY <1>1, <1>13, ClientPingsIInv
<1>14. CASE ClientLosesSocket
  BY <1>1, <1>14, ClientLosesSocketIInv
<1>15. CASE ClientOpens
  BY <1>1, <1>15, ClientOpensIInv
<1>16. QED
  BY <1>1, <1>2, <1>3, <1>4, <1>5, <1>6, <1>7, <1>8, <1>9, <1>10, <1>11, <1>12,
     <1>13, <1>14, <1>15 DEF Next, ServerNext, ClientNext

----------------------------------------------------------------------------
(* The theorems *)

\* The invariant that carries all the others: both ends' indices and memories
\* bound what is queued and in flight.
THEOREM Invariance == Spec => []IInv
<1>1. QED
  BY InitIInv, NextIInv, PTL DEF Spec

\* Every variable of the two transports and of the wires keeps its type.
THEOREM TypeCorrect == Spec => []TypeOK
<1>1. IInv => TypeOK
  BY DEF IInv
<1>2. QED
  BY <1>1, Invariance, PTL

\* Whatever breaks and however late an acknowledgement comes, each end still
\* has every message the other has not taken: the client's adapter as long
\* as it has the session, those above the highest index the server has seen.
THEOREM Retention == Spec => []UnseenRetained
<1>1. IInv => UnseenRetained
  BY DEF IInv, UnseenRetained
<1>2. QED
  BY <1>1, Invariance, PTL

\* The server's ping timer, the only thing that gets pending messages out
\* after a resume, is armed whenever there is a connection.
THEOREM PingTimer == Spec => []PingTimerRuns
<1>1. IInv => PingTimerRuns
  BY DEF IInv
<1>2. QED
  BY <1>1, Invariance, PTL

\* Every wire message's acknowledgement and index is one its sender may give.
THEOREM Truthful == Spec => []InFlightTruthful
<1>1. IInv => InFlightTruthful
  BY DEF IInv
<1>2. QED
  BY <1>1, Invariance, PTL

\* A step of the session is a step of the reliable link from the server to
\* the client, or leaves it as it is.
LEMMA DownStep == IInv /\ [Next]_vars => [Down!LinkNext]_(Down!linkVars)
<1>1. SUFFICES ASSUME IInv, [Next]_vars PROVE [Down!LinkNext]_(Down!linkVars)
  OBVIOUS
<1>2. /\ nextMessageIndex \in Nat /\ serverIndex \in Nat /\ serverIndex < nextMessageIndex
      /\ nonAckedSends \subseteq 1..(nextMessageIndex - 1)
      /\ InFlightTruthful /\ TypeOK
  BY <1>1 DEF IInv, TypeOK, ServerTypeOK, ClientTypeOK, IndicesGivenOut
<1>3. CASE UNCHANGED <<nextMessageIndex, serverIndex, nonAckedSends>>
  BY <1>3 DEF Down!linkVars
<1>4. CASE ServerSends
  <2>1. /\ nextMessageIndex' = nextMessageIndex + 1
        /\ nonAckedSends' = nonAckedSends \cup {nextMessageIndex}
        /\ serverIndex' = serverIndex
    BY <1>2, <1>4 DEF ServerSends, ServerSend, TransportMessage, Data, IsPing, clientVars
  <2>2. Down!Produce
    BY <1>2, <2>1 DEF Down!Produce
  <2>3. QED
    BY <2>2 DEF Down!LinkNext
<1>5. ASSUME NEW s \in Sockets, ServerReceives(s)
      PROVE  [Down!LinkNext]_(Down!linkVars)
  <2> DEFINE m == Head(toServer[s])
  <2>1. /\ MessageReceived(m) /\ toServer[s] # <<>>
        /\ UNCHANGED <<nextMessageIndex, serverIndex>>
    BY <1>5 DEF ServerReceives, MessageReceived, clientVars
  <2>2. CASE ~IsPing(m)
    BY <1>3, <2>1, <2>2 DEF MessageReceived
  <2>3. CASE IsPing(m)
    <3>1. m \in FromClient
      BY <1>2, <1>5, <2>1, WireTail DEF InFlightTruthful
    <3>2. m.ack \in 0..serverIndex
      BY <1>2, <3>1 DEF FromClient, Message
    <3>3. nonAckedSends' = {i \in nonAckedSends : i > m.ack}
      BY <2>1, <2>3 DEF MessageReceived, PingMessageReceived, Unacked
    <3>4. Down!Forget
      BY <2>1, <3>2, <3>3 DEF Down!Forget
    <3>5. QED
      BY <3>4 DEF Down!LinkNext
  <2>4. QED
    BY <2>2, <2>3
<1>6. CASE ClientReceives
  <2> DEFINE m == Head(toClient)
  <2>1. /\ toClient # <<>> /\ UNCHANGED <<nextMessageIndex, nonAckedSends>>
        /\ ClientTakesPing(m) \/ ClientTakesData(m)
    BY <1>6 DEF ClientReceives, serverVars
  <2>2. m \in FromServer
    BY <1>2, <2>1, HeadTailProperties DEF InFlightTruthful
  <2>3. m.index \in Nat /\ m.index <= nextMessageIndex - 1
    BY <1>2, <2>2 DEF FromServer, Message
  <2>4. CASE InOrderTaken(m)
    <3>1. Down!Consume
      BY <1>2, <2>1, <2>3, <2>4 DEF InOrderTaken, Down!Consume
    <3>2. QED
      BY <3>1 DEF Down!LinkNext
  <2>5. CASE ~InOrderTaken(m)
    <3>1. serverIndex' = serverIndex
      BY <2>1, <2>5 DEF ClientTakesPing, PingMessageTaken, ClientTakesData,
                        DuplicateIgnored, GapReconnects, clientVars
    <3>2. QED
      BY <1>3, <2>1, <3>1
  <2>6. QED
    BY <2>4, <2>5
<1>7. CASE \/ ServerFlushes \/ SocketWrite \/ WriteSucceeds \/ WriteFails
           \/ ServerListener \/ ServerPings
  BY <1>3, <1>7 DEF ServerFlushes, ServerImmediate, SocketWrite, WriteSucceeds,
     WriteFails, SendDone, ServerListener, SendAttemptListener, ServerPings,
     SendInactivityPing, TransportMessage, IsPing, Ping, clientVars
<1>8. ASSUME NEW s \in Sockets,
             ServerAccepts(s) \/ ServerDenies(s) \/ ServerNoticesClose(s)
      PROVE  UNCHANGED <<nextMessageIndex, serverIndex, nonAckedSends>>
  BY <1>8 DEF ServerAccepts, ResumeWithConnection, ServerDenies, ServerNoticesClose,
     ConnectionClosed, serverVars, clientVars
<1>9. CASE ClientSends \/ ClientPings \/ ClientLosesSocket \/ ClientOpens
  BY <1>3, <1>9 DEF ClientSends, ClientSend, ClientPings, ClientLosesSocket, SocketClose,
     ClientOpens, SocketOpen, serverVars, clientVars
<1>10. CASE UNCHANGED vars
  BY <1>3, <1>10 DEF vars, serverVars, clientVars
<1>11. QED
  BY <1>1, <1>3, <1>4, <1>5, <1>6, <1>7, <1>8, <1>9, <1>10 DEF Next, ServerNext, ClientNext

\* The session implements the reliable link from the server to the client:
\* what breaks, is resent, doubled or reordered is stuttering there.
THEOREM DownLink == Spec => DownLinkReliable
<1>1. Init => Down!LinkInit
  BY DEF Init, ServerInit, ClientInit, Down!LinkInit
<1>2. QED
  BY <1>1, Invariance, DownStep, PTL DEF Spec, DownLinkReliable, Down!LinkSpec

----------------------------------------------------------------------------
(* A client that a resend has reached finds no gap.  The messages on their *)
(* way to it form one sequence: in flight, then the batch still to be      *)
(* written, then the queue.  After each Ping that asks for a resend, and   *)
(* from the head once such a Ping has arrived, that sequence covers what   *)
(* the client lacks: every index up to the last given out occurs, and an   *)
(* index is not reached before the one below it.                           *)

Covers(q, r, taken, given) ==
    /\ \A i \in (taken + 1)..(given - 1) : \E k \in (r + 1)..Len(q) : q[k].index = i
    /\ \A k \in (r + 1)..Len(q) :
          q[k].index > taken + 1 => \E j \in (r + 1)..(k - 1) : q[j].index = q[k].index - 1

Resends(q, taken, given) ==
    \A r \in 1..Len(q) : q[r].resendMissing => Covers(q, r, taken, given)

\* The batch websocket.send has yet to write, and the messages on their way.
Unwritten == IF ~attempt.written THEN attempt.messages ELSE <<>>

OnItsWay(batch) == (toClient \o batch) \o pendingSends

ToWrite == IF attempt.socket = socket THEN Unwritten ELSE <<>>

\* The server has taken up the client's websocket, if anything came from it.
Current == toClient # <<>> \/ recovered \/ attempt.socket = socket

Placed ==
    /\ socket = latestSocket /\ latestSocket \in Nat \ {0}
    /\ connection <= latestSocket /\ attempt.socket <= latestSocket
    /\ Current => /\ connection \in {NoConnection, socket}
                  /\ Sending => attempt.socket = socket

Flowing ==
    /\ Resends(OnItsWay(ToWrite), serverIndex, nextMessageIndex)
    /\ Resends(Unwritten \o pendingSends, serverIndex, nextMessageIndex)
    /\ recovered => Covers(OnItsWay(ToWrite), 0, serverIndex, nextMessageIndex)

FlowInv == ~explicitlyClosed => Placed /\ Flowing

\* The entries of a sequence of messages.
LEMMA MessageIndex ==
    ASSUME NEW q \in Seq(Message)
    PROVE  \A k \in 1..Len(q) : q[k] \in Message /\ q[k].index \in Nat
<1> SUFFICES ASSUME NEW k \in 1..Len(q) PROVE q[k] \in Message /\ q[k].index \in Nat
  OBVIOUS
<1>1. q[k] \in Message
  OBVIOUS
<1>2. QED
  BY <1>1 DEF Message

\* What follows a message is covered by what follows it.
LEMMA CoversSuffix ==
    ASSUME NEW a \in Seq(Message), NEW b \in Seq(Message), NEW r \in 0..Len(b),
           NEW taken \in Nat, NEW given \in Nat
    PROVE  Covers(a \o b, Len(a) + r, taken, given) <=> Covers(b, r, taken, given)
<1> DEFINE q == a \o b
           n == Len(a)
<1>1. /\ n \in Nat /\ Len(b) \in Nat /\ Len(q) = n + Len(b)
      /\ \A k \in 1..Len(b) : q[n + k] = b[k] /\ b[k].index \in Nat
  <2>1. \A k \in 1..Len(b) : n + k \in 1..(n + Len(b)) /\ ~(n + k <= n) /\ (n + k) - n = k
    OBVIOUS
  <2>2. \A k \in 1..Len(b) : b[k].index \in Nat
    BY MessageIndex
  <2>3. QED
    BY <2>1, <2>2, ConcatProperties
<1> HIDE DEF q, n
<1>2. ASSUME Covers(q, n + r, taken, given) PROVE Covers(b, r, taken, given)
  <2>1. ASSUME NEW i \in (taken + 1)..(given - 1)
        PROVE  \E k \in (r + 1)..Len(b) : b[k].index = i
    <3>1. PICK k \in ((n + r) + 1)..Len(q) : q[k].index = i
      BY <1>2 DEF Covers
    <3>2. k - n \in (r + 1)..Len(b) /\ k - n \in 1..Len(b) /\ n + (k - n) = k
      BY <1>1
    <3>3. QED
      BY <1>1, <3>1, <3>2
  <2>2. ASSUME NEW k \in (r + 1)..Len(b), b[k].index > taken + 1
        PROVE  \E j \in (r + 1)..(k - 1) : b[j].index = b[k].index - 1
    <3>1. n + k \in ((n + r) + 1)..Len(q) /\ q[n + k] = b[k]
      BY <1>1
    <3>2. PICK j \in ((n + r) + 1)..((n + k) - 1) : q[j].index = b[k].index - 1
      BY <1>2, <2>2, <3>1 DEF Covers
    <3>3. j - n \in (r + 1)..(k - 1) /\ j - n \in 1..Len(b) /\ n + (j - n) = j
      BY <1>1
    <3>4. QED
      BY <1>1, <3>2, <3>3
  <2>3. QED
    BY <2>1, <2>2 DEF Covers
<1>3. ASSUME Covers(b, r, taken, given) PROVE Covers(q, n + r, taken, given)
  <2>1. ASSUME NEW i \in (taken + 1)..(given - 1)
        PROVE  \E k \in ((n + r) + 1)..Len(q) : q[k].index = i
    <3>1. PICK k \in (r + 1)..Len(b) : b[k].index = i
      BY <1>3 DEF Covers
    <3>2. n + k \in ((n + r) + 1)..Len(q) /\ k \in 1..Len(b)
      BY <1>1
    <3>3. QED
      BY <1>1, <3>1, <3>2
  <2>2. ASSUME NEW k \in ((n + r) + 1)..Len(q), q[k].index > taken + 1
        PROVE  \E j \in ((n + r) + 1)..(k - 1) : q[j].index = q[k].index - 1
    <3>1. k - n \in (r + 1)..Len(b) /\ k - n \in 1..Len(b) /\ n + (k - n) = k
      BY <1>1
    <3>2. q[k] = b[k - n] /\ b[k - n].index > taken + 1
      BY <1>1, <2>2, <3>1
    <3>3. PICK j \in (r + 1)..((k - n) - 1) : b[j].index = q[k].index - 1
      BY <1>3, <3>1, <3>2 DEF Covers
    <3>4. n + j \in ((n + r) + 1)..(k - 1) /\ j \in 1..Len(b)
      BY <1>1, <3>1
    <3>5. QED
      BY <1>1, <3>3, <3>4
  <2>3. QED
    BY <2>1, <2>2 DEF Covers
<1>4. QED
  BY <1>2, <1>3 DEF q, n

\* The rest of a sequence keeps its promises.
LEMMA ResendsSuffix ==
    ASSUME NEW a \in Seq(Message), NEW b \in Seq(Message),
           NEW taken \in Nat, NEW given \in Nat, Resends(a \o b, taken, given)
    PROVE  Resends(b, taken, given)
<1> SUFFICES ASSUME NEW r \in 1..Len(b), b[r].resendMissing
             PROVE  Covers(b, r, taken, given)
  BY DEF Resends
<1>1. /\ Len(a) + r \in 1..Len(a \o b) /\ (a \o b)[Len(a) + r] = b[r]
      /\ r \in 0..Len(b)
  <2>1. /\ Len(a) \in Nat /\ Len(b) \in Nat
        /\ ~(Len(a) + r <= Len(a)) /\ (Len(a) + r) - Len(a) = r
        /\ Len(a) + r \in 1..(Len(a) + Len(b))
    OBVIOUS
  <2>2. QED
    BY <2>1, ConcatProperties
<1>2. Covers(a \o b, Len(a) + r, taken, given)
  BY <1>1 DEF Resends
<1>3. QED
  BY <1>1, <1>2, CoversSuffix

\* A Ping, or the next message given out, may be appended.
LEMMA CoversAppend ==
    ASSUME NEW q \in Seq(Message), NEW m \in Message, NEW r \in 0..Len(q),
           NEW taken \in Nat, NEW given \in Nat, NEW next \in Nat, taken < given,
           \/ m.index = 0 /\ next = given
           \/ m.index = given /\ next = given + 1,
           Covers(q, r, taken, given)
    PROVE  Covers(Append(q, m), r, taken, next)
<1> DEFINE p == Append(q, m)
           n == Len(q)
<1>1. /\ n \in Nat /\ Len(p) = n + 1 /\ p[n + 1] = m
      /\ \A k \in 1..n : p[k] = q[k] /\ p[k].index \in Nat
      /\ m.index \in Nat
  <2>1. \A k \in 1..n : q[k].index \in Nat
    BY MessageIndex
  <2>2. m.index \in Nat
    BY DEF Message
  <2>3. QED
    BY <2>1, <2>2, AppendProperties
<1> HIDE DEF p, n
<1>2. ASSUME NEW i \in (taken + 1)..(next - 1)
      PROVE  \E k \in (r + 1)..Len(p) : p[k].index = i
  <2>1. CASE i < given
    <3>1. PICK k \in (r + 1)..n : q[k].index = i
      BY <2>1 DEF Covers, n
    <3>2. k \in 1..n /\ k \in (r + 1)..Len(p)
      BY <1>1
    <3>3. QED
      BY <1>1, <3>1, <3>2
  <2>2. CASE i >= given
    <3>1. i = given /\ m.index = given
      BY <2>2
    <3>2. n + 1 \in (r + 1)..Len(p)
      BY <1>1 DEF n
    <3>3. QED
      BY <1>1, <3>1, <3>2
  <2>3. QED
    BY <2>1, <2>2
<1>3. ASSUME NEW k \in (r + 1)..Len(p), p[k].index > taken + 1
      PROVE  \E j \in (r + 1)..(k - 1) : p[j].index = p[k].index - 1
  <2>1. CASE k <= n
    <3>1. k \in (r + 1)..n /\ k \in 1..n
      BY <1>1, <2>1
    <3>2. PICK j \in (r + 1)..(k - 1) : q[j].index = q[k].index - 1
      BY <1>1, <1>3, <3>1 DEF Covers, n
    <3>3. j \in 1..n
      BY <1>1, <3>1
    <3>4. QED
      BY <1>1, <3>1, <3>2, <3>3
  <2>2. CASE k > n
    <3>1. k = n + 1 /\ p[k] = m
      BY <1>1, <2>2
    <3>2. m.index = given /\ given - 1 \in (taken + 1)..(given - 1)
      BY <1>1, <1>3, <3>1
    <3>3. PICK j \in (r + 1)..n : q[j].index = given - 1
      BY <3>2 DEF Covers, n
    <3>4. j \in 1..n /\ j \in (r + 1)..(k - 1)
      BY <1>1, <3>1
    <3>5. QED
      BY <1>1, <3>1, <3>2, <3>3, <3>4
  <2>3. QED
    BY <1>1, <2>1, <2>2
<1>4. QED
  BY <1>2, <1>3 DEF Covers, p

\* So it does for every resend asked for in the sequence.
LEMMA ResendsAppend ==
    ASSUME NEW q \in Seq(Message), NEW m \in Message, ~m.resendMissing,
           NEW taken \in Nat, NEW given \in Nat, NEW next \in Nat, taken < given,
           \/ m.index = 0 /\ next = given
           \/ m.index = given /\ next = given + 1,
           Resends(q, taken, given)
    PROVE  Resends(Append(q, m), taken, next)
<1> SUFFICES ASSUME NEW r \in 1..Len(Append(q, m)), Append(q, m)[r].resendMissing
             PROVE  Covers(Append(q, m), r, taken, next)
  BY DEF Resends
<1>1. r \in 1..Len(q) /\ q[r].resendMissing
  BY AppendProperties
<1>2. Covers(q, r, taken, given) /\ r \in 0..Len(q)
  BY <1>1 DEF Resends
<1>3. QED
  BY <1>2, CoversAppend

\* The client takes the head, and finds in it nothing beyond the next index.
LEMMA CoversTail ==
    ASSUME NEW q \in Seq(Message), q # <<>>,
           NEW taken \in Nat, NEW given \in Nat, NEW now \in Nat, taken <= now,
           Head(q).index <= now, Covers(q, 0, taken, given)
    PROVE  Covers(Tail(q), 0, now, given)
<1> DEFINE p == Tail(q)
           n == Len(p)
<1>1. /\ n \in Nat /\ Len(q) = n + 1 /\ q[1].index <= now /\ q[1].index \in Nat
      /\ \A k \in 1..n : p[k] = q[k + 1] /\ q[k + 1].index \in Nat
  <2>1. q[1] = Head(q) /\ Len(q) \in Nat /\ Len(q) # 0
    OBVIOUS
  <2>2. p \in Seq(Message) /\ n = Len(q) - 1 /\ \A k \in 1..n : p[k] = q[k + 1]
    BY HeadTailProperties
  <2>3. \A k \in 1..Len(q) : q[k].index \in Nat
    BY MessageIndex
  <2>4. QED
    BY <2>1, <2>2, <2>3
<1> HIDE DEF p, n
<1>2. ASSUME NEW i \in (now + 1)..(given - 1)
      PROVE  \E k \in 1..n : p[k].index = i
  <2>1. PICK k \in (0 + 1)..Len(q) : q[k].index = i
    BY DEF Covers
  <2>2. k - 1 \in 1..n /\ (k - 1) + 1 = k
    BY <1>1, <2>1
  <2>3. QED
    BY <1>1, <2>1, <2>2
<1>3. ASSUME NEW k \in 1..n, p[k].index > now + 1
      PROVE  \E j \in 1..(k - 1) : p[j].index = p[k].index - 1
  <2>1. p[k] = q[k + 1] /\ q[k + 1].index > taken + 1 /\ k + 1 \in (0 + 1)..Len(q)
    <3>1. k + 1 \in (0 + 1)..Len(q)
      BY <1>1
    <3>2. p[k] = q[k + 1] /\ q[k + 1].index \in Nat
      BY <1>1
    <3>3. q[k + 1].index > now + 1
      BY <1>3, <3>2
    <3>4. QED
      BY <3>1, <3>2, <3>3
  <2>2. PICK j \in (0 + 1)..((k + 1) - 1) : q[j].index = p[k].index - 1
    BY <2>1 DEF Covers
  <2>3. j - 1 \in 1..(k - 1) /\ j - 1 \in 1..n /\ (j - 1) + 1 = j
    BY <1>1, <1>3, <2>1, <2>2
  <2>4. QED
    BY <1>1, <2>2, <2>3
<1>4. QED
  BY <1>2, <1>3 DEF Covers, p, n

\* What is covered stays covered when the client has taken more.
LEMMA CoversTaken ==
    ASSUME NEW q \in Seq(Message), NEW taken \in Nat, NEW given \in Nat,
           NEW now \in Nat, taken <= now, NEW r \in Nat, Covers(q, r, taken, given)
    PROVE  Covers(q, r, now, given)
<1>1. \A k \in (r + 1)..Len(q) : q[k].index \in Nat
  <2>1. \A k \in (r + 1)..Len(q) : k \in 1..Len(q)
    OBVIOUS
  <2>2. QED
    BY <2>1, MessageIndex
<1>2. ASSUME NEW k \in (r + 1)..Len(q), q[k].index > now + 1
      PROVE  q[k].index > taken + 1
  BY <1>1, <1>2
<1>3. \A i \in (now + 1)..(given - 1) : i \in (taken + 1)..(given - 1)
  OBVIOUS
<1>4. QED
  BY <1>2, <1>3 DEF Covers

\* So does what each resend in the sequence covers.
LEMMA ResendsTaken ==
    ASSUME NEW q \in Seq(Message), NEW taken \in Nat, NEW given \in Nat,
           NEW now \in Nat, taken <= now, Resends(q, taken, given)
    PROVE  Resends(q, now, given)
BY CoversTaken DEF Resends

\* A queue that covers all the client lacks may replace what comes last.
LEMMA CoversReplaced ==
    ASSUME NEW a \in Seq(Message), NEW b \in Seq(Message), NEW c \in Seq(Message),
           NEW taken \in Nat, NEW given \in Nat, NEW r \in 0..Len(a),
           Covers(a \o b, r, taken, given), Covers(c, 0, taken, given)
    PROVE  Covers(a \o c, r, taken, given)
<1> DEFINE p == a \o c
           q == a \o b
           n == Len(a)
<1>1. /\ n \in Nat /\ Len(c) \in Nat /\ Len(b) \in Nat
      /\ Len(p) = n + Len(c) /\ Len(q) = n + Len(b)
      /\ \A k \in 1..n : p[k] = a[k] /\ q[k] = a[k] /\ a[k].index \in Nat
      /\ \A k \in 1..Len(c) : p[n + k] = c[k] /\ c[k].index \in Nat
  <2>1. \A k \in 1..Len(c) : n + k \in 1..(n + Len(c)) /\ ~(n + k <= n) /\ (n + k) - n = k
    OBVIOUS
  <2>2. \A k \in 1..n : k \in 1..(n + Len(c)) /\ k \in 1..(n + Len(b)) /\ k <= n
    OBVIOUS
  <2>3. /\ \A k \in 1..n : a[k].index \in Nat
        /\ \A k \in 1..Len(c) : c[k].index \in Nat
    BY MessageIndex
  <2>4. QED
    BY <2>1, <2>2, <2>3, ConcatProperties
<1> HIDE DEF p, q, n
<1>2. ASSUME NEW i \in (taken + 1)..(given - 1)
      PROVE  \E k \in (r + 1)..Len(p) : p[k].index = i
  <2>1. PICK k \in (0 + 1)..Len(c) : c[k].index = i
    BY DEF Covers
  <2>2. n + k \in (r + 1)..Len(p) /\ k \in 1..Len(c)
    BY <1>1 DEF n
  <2>3. QED
    BY <1>1, <2>1, <2>2
<1>3. ASSUME NEW k \in (r + 1)..Len(p), p[k].index > taken + 1
      PROVE  \E j \in (r + 1)..(k - 1) : p[j].index = p[k].index - 1
  <2>1. CASE k <= n
    <3>1. k \in 1..n /\ k \in (r + 1)..Len(q)
      BY <1>1, <2>1
    <3>2. PICK j \in (r + 1)..(k - 1) : q[j].index = q[k].index - 1
      BY <1>1, <1>3, <3>1 DEF Covers, q
    <3>3. j \in 1..n
      BY <1>1, <2>1
    <3>4. QED
      BY <1>1, <3>1, <3>2, <3>3
  <2>2. CASE k > n
    <3>1. k - n \in (0 + 1)..Len(c) /\ n + (k - n) = k
      BY <1>1, <2>2
    <3>2. p[k] = c[k - n]
      BY <1>1, <3>1
    <3>3. \A i \in (0 + 1)..Len(c) :
            c[i].index > taken + 1 => \E j \in (0 + 1)..(i - 1) : c[j].index = c[i].index - 1
      BY DEF Covers
    <3>4. PICK j \in (0 + 1)..((k - n) - 1) : c[j].index = c[k - n].index - 1
      BY <1>3, <3>1, <3>2, <3>3
    <3>5. n + j \in (r + 1)..(k - 1) /\ j \in 1..Len(c)
      BY <1>1, <3>1 DEF n
    <3>6. QED
      BY <1>1, <3>2, <3>4, <3>5
  <2>3. QED
    BY <1>1, <2>1, <2>2
<1>4. QED
  BY <1>2, <1>3 DEF Covers, p

\* The array of unacknowledged messages covers what the client lacks: it
\* ascends, and every index the client has not taken is in it.
LEMMA CoversData ==
    ASSUME NEW taken \in Nat, NEW given \in Nat, NEW S \in SUBSET (1..(given - 1)),
           \A i \in (taken + 1)..(given - 1) : i \in S,
           NEW q \in InOrder(S)
    PROVE  Covers(DataSeq(q), 0, taken, given)
<1> DEFINE c == Cardinality(S)
           d == DataSeq(q)
<1>1. IsFiniteSet(S) /\ S \in SUBSET Nat /\ c \in Nat
  BY BelowIsFinite, FS_CardinalityType
<1>2. q \in [1..c -> S] /\ \A j, k \in 1..c : j < k => q[j] < q[k]
  BY DEF InOrder
<1>3. Len(d) = c /\ \A k \in 1..c : d[k].index = q[k] /\ q[k] \in S
  <2>1. d = [k \in 1..c |-> Data(q[k])]
    BY <1>2 DEF DataSeq
  <2>2. Len(d) = c
    BY <1>1, <2>1
  <2>3. \A k \in 1..c : d[k] = Data(q[k]) /\ q[k] \in S
    BY <1>2, <2>1
  <2>4. \A k \in 1..c : Data(q[k]).index = q[k]
    BY DEF Data
  <2>5. QED
    BY <2>2, <2>3, <2>4
<1> HIDE DEF c, d
<1>4. \A i \in S : \E k \in 1..c : q[k] = i
  <2>1. ASSUME NEW j \in 1..c, NEW k \in 1..c, q[j] = q[k] PROVE j = k
    <3>1. q[j] \in Nat /\ q[k] \in Nat
      <4>1. q[j] \in S /\ q[k] \in S
        BY <1>3
      <4>2. \A i \in S : i \in Nat
        BY <1>1
      <4>3. QED
        BY <4>1, <4>2
    <3>2. ~(q[j] < q[k]) /\ ~(q[k] < q[j])
      BY <2>1, <3>1
    <3>3. ~(j < k) /\ ~(k < j)
      BY <1>2, <3>2
    <3>4. QED
      BY <1>1, <3>3
  <2>2. q \in Injection(1..c, S)
    BY <1>2, <2>1 DEF Injection, IsInjective
  <2>3. Cardinality(1..c) = Cardinality(S)
    BY <1>1, FS_Interval DEF c
  <2>4. q \in Surjection(1..c, S)
    BY <1>1, <2>2, <2>3, FS_Injection
  <2>5. QED
    BY <2>4 DEF Surjection
<1>5. ASSUME NEW i \in (taken + 1)..(given - 1)
      PROVE  \E k \in (0 + 1)..Len(d) : d[k].index = i
  BY <1>3, <1>4
<1>6. ASSUME NEW k \in (0 + 1)..Len(d), d[k].index > taken + 1
      PROVE  \E j \in (0 + 1)..(k - 1) : d[j].index = d[k].index - 1
  <2>1. k \in 1..c /\ q[k] \in 1..(given - 1) /\ q[k] > taken + 1
    <3>1. k \in 1..c
      BY <1>1, <1>3
    <3>2. d[k].index = q[k] /\ q[k] \in S
      BY <1>3, <3>1
    <3>3. QED
      BY <1>6, <3>1, <3>2
  <2>2. q[k] - 1 \in S
    BY <2>1
  <2>3. PICK j \in 1..c : q[j] = q[k] - 1
    BY <1>4, <2>2
  <2>4. ~(q[k] < q[j])
    BY <2>1, <2>3
  <2>5. j # k /\ ~(k < j)
    BY <1>2, <2>1, <2>3, <2>4
  <2>6. j \in (0 + 1)..(k - 1)
    BY <1>1, <2>1, <2>5
  <2>7. QED
    BY <1>3, <2>1, <2>3, <2>6
<1>7. QED
  BY <1>5, <1>6 DEF Covers, d

\* What _recoverMissingMessages queues: a Ping that asks for a resend, and
\* behind it all the client lacks.
LEMMA ResendQueue ==
    ASSUME NEW taken \in Nat, NEW given \in Nat, NEW S \in SUBSET (1..(given - 1)),
           \A i \in (taken + 1)..(given - 1) : i \in S,
           NEW q \in InOrder(S), NEW ack \in Nat,
           NEW c, c = <<Ping(ack, TRUE)>> \o DataSeq(q)
    PROVE  c \in Seq(Message) /\ Covers(c, 0, taken, given) /\ Resends(c, taken, given)
<1> DEFINE d == DataSeq(q)
           a == <<Ping(ack, TRUE)>>
<1>1. IsFiniteSet(S) /\ S \in SUBSET Nat
  BY BelowIsFinite
<1>2. d \in Seq(Message)
  <2>1. \A i \in S : Data(i) \in Message
    BY <1>1 DEF Data, Message
  <2>2. QED
    BY <1>1, <2>1, DataSeqType
<1>3. a \in Seq(Message) /\ Len(a) = 1 /\ a[1] = Ping(ack, TRUE)
  <2>1. Ping(ack, TRUE) \in Message
    BY DEF Ping, Message
  <2>2. \A m \in Message : <<m>> \in Seq(Message) /\ Len(<<m>>) = 1 /\ <<m>>[1] = m
    OBVIOUS
  <2>3. QED
    BY <2>1, <2>2
<1>4. \A k \in 1..Len(d) : d[k].resendMissing = FALSE
  <2>1. q \in [1..Cardinality(S) -> S] /\ Cardinality(S) \in Nat
    BY <1>1, FS_CardinalityType DEF InOrder
  <2>2. d = [k \in 1..Cardinality(S) |-> Data(q[k])]
    BY <2>1 DEF DataSeq
  <2>3. \A k \in 1..Cardinality(S) : d[k] = Data(q[k])
    BY <2>2
  <2>4. Len(d) = Cardinality(S)
    BY <2>1, <2>2
  <2>5. \A i : Data(i).resendMissing = FALSE
    BY DEF Data
  <2>6. QED
    BY <2>3, <2>4, <2>5
<1>5. Covers(d, 0, taken, given)
  BY CoversData
<1> HIDE DEF d, a
<1>6. /\ c \in Seq(Message) /\ Len(c) = 1 + Len(d) /\ Len(d) \in Nat
      /\ c[1] = a[1] /\ \A k \in 2..Len(c) : c[k] = d[k - 1] /\ k - 1 \in 1..Len(d)
  <2>1. c = a \o d
    BY DEF a, d
  <2>2. Len(d) \in Nat
    BY <1>2
  <2>3. /\ a \o d \in Seq(Message) /\ Len(a \o d) = Len(a) + Len(d)
        /\ \A i \in 1..(Len(a) + Len(d)) :
              (a \o d)[i] = IF i <= Len(a) THEN a[i] ELSE d[i - Len(a)]
    BY <1>2, <1>3, ConcatProperties
  <2>4. c \in Seq(Message) /\ Len(c) = 1 + Len(d)
    BY <1>3, <2>1, <2>3
  <2>5. c[1] = a[1]
    <3>1. 1 \in 1..(Len(a) + Len(d)) /\ 1 <= Len(a)
      BY <1>3, <2>2
    <3>2. (a \o d)[1] = a[1]
      BY <2>3, <3>1
    <3>3. QED
      BY <2>1, <3>2
  <2>6. ASSUME NEW k \in 2..Len(c) PROVE c[k] = d[k - 1] /\ k - 1 \in 1..Len(d)
    <3>1. /\ k \in 1..(Len(a) + Len(d)) /\ ~(k <= Len(a))
          /\ k - Len(a) = k - 1 /\ k - 1 \in 1..Len(d)
      BY <1>3, <2>2, <2>4
    <3>2. (a \o d)[k] = d[k - 1]
      BY <2>3, <3>1
    <3>3. QED
      BY <2>1, <3>1, <3>2
  <2>7. QED
    BY <2>2, <2>4, <2>5, <2>6
<1>7. Covers(c, 1, taken, given)
  <2>1. c = a \o d /\ 0 \in 0..Len(d)
    BY <1>6 DEF a, d
  <2>2. Covers(a \o d, Len(a) + 0, taken, given)
    BY <1>2, <1>3, <1>5, <2>1, CoversSuffix
  <2>3. Len(a) + 0 = 1
    BY <1>3
  <2>4. QED
    BY <2>1, <2>2, <2>3
<1>8. c[1].index = 0
  BY <1>3, <1>6 DEF Ping
<1>9. Covers(c, 0, taken, given)
  <2>1. ASSUME NEW i \in (taken + 1)..(given - 1)
        PROVE  \E k \in (0 + 1)..Len(c) : c[k].index = i
    <3>1. PICK k \in (1 + 1)..Len(c) : c[k].index = i
      BY <1>7 DEF Covers
    <3>2. k \in (0 + 1)..Len(c)
      OBVIOUS
    <3>3. QED
      BY <3>1, <3>2
  <2>2. ASSUME NEW k \in (0 + 1)..Len(c), c[k].index > taken + 1
        PROVE  \E j \in (0 + 1)..(k - 1) : c[j].index = c[k].index - 1
    <3>1. k \in (1 + 1)..Len(c)
      <4>1. ASSUME k = 1 PROVE FALSE
        <5>1. c[k].index = 0
          BY <1>8, <4>1
        <5>2. 0 > taken + 1
          BY <2>2, <5>1
        <5>3. QED
          BY <5>2
      <4>2. QED
        BY <4>1
    <3>2. PICK j \in (1 + 1)..(k - 1) : c[j].index = c[k].index - 1
      BY <1>7, <2>2, <3>1 DEF Covers
    <3>3. j \in (0 + 1)..(k - 1)
      OBVIOUS
    <3>4. QED
      BY <3>2, <3>3
  <2>3. QED
    BY <2>1, <2>2 DEF Covers
<1>10. Resends(c, taken, given)
  <2>1. SUFFICES ASSUME NEW r \in 1..Len(c), c[r].resendMissing PROVE r = 1
    BY <1>7 DEF Resends
  <2>2. CASE r # 1
    <3>1. c[r] = d[r - 1] /\ r - 1 \in 1..Len(d)
      BY <1>6, <2>2
    <3>2. QED
      BY <1>4, <2>1, <3>1
  <2>3. QED
    BY <2>2
<1>11. QED
  BY <1>6, <1>9, <1>10

\* The resends before that queue, and its own, keep their promise.
LEMMA ResendsReplaced ==
    ASSUME NEW a \in Seq(Message), NEW b \in Seq(Message), NEW c \in Seq(Message),
           NEW taken \in Nat, NEW given \in Nat,
           Resends(a \o b, taken, given),
           Covers(c, 0, taken, given), Resends(c, taken, given)
    PROVE  Resends(a \o c, taken, given)
<1> DEFINE n == Len(a)
<1>1. /\ n \in Nat /\ Len(c) \in Nat /\ Len(b) \in Nat
      /\ Len(a \o c) = n + Len(c) /\ Len(a \o b) = n + Len(b)
      /\ \A k \in 1..(n + Len(c)) : (a \o c)[k] = IF k <= n THEN a[k] ELSE c[k - n]
      /\ \A k \in 1..(n + Len(b)) : (a \o b)[k] = IF k <= n THEN a[k] ELSE b[k - n]
  BY ConcatProperties
<1> SUFFICES ASSUME NEW r \in 1..Len(a \o c), (a \o c)[r].resendMissing
             PROVE  Covers(a \o c, r, taken, given)
  BY DEF Resends
<1>2. CASE r <= n
  <2>1. r \in 1..Len(a \o b) /\ r \in 0..Len(a)
    BY <1>1, <1>2
  <2>2. (a \o b)[r] = (a \o c)[r]
    BY <1>1, <1>2, <2>1
  <2>3. Covers(a \o b, r, taken, given)
    BY <2>1, <2>2 DEF Resends
  <2>4. QED
    BY <2>1, <2>3, CoversReplaced
<1>3. CASE r > n
  <2>1. r - n \in 1..Len(c) /\ r - n \in 0..Len(c) /\ n + (r - n) = r
    BY <1>1, <1>3
  <2>2. (a \o c)[r] = c[r - n]
    BY <1>1, <1>3
  <2>3. Covers(c, r - n, taken, given)
    BY <2>1, <2>2 DEF Resends
  <2>4. Covers(a \o c, Len(a) + (r - n), taken, given)
    BY <2>1, <2>3, CoversSuffix
  <2>5. QED
    BY <2>1, <2>4
<1>4. QED
  BY <1>1, <1>2, <1>3

----------------------------------------------------------------------------
(* FlowInv is inductive, given IInv *)

\* The sequences FlowInv is about are sequences of messages.
LEMMA FlowTypes ==
    ASSUME TypeOK
    PROVE  /\ toClient \in Seq(Message) /\ pendingSends \in Seq(Message)
           /\ attempt.messages \in Seq(Message) /\ attempt.socket \in Nat
           /\ Unwritten \in Seq(Message) /\ ToWrite \in Seq(Message)
           /\ toClient \o ToWrite \in Seq(Message) /\ <<>> \in Seq(Message)
           /\ OnItsWay(ToWrite) \in Seq(Message)
           /\ Unwritten \o pendingSends \in Seq(Message)
           /\ serverIndex \in Nat /\ nextMessageIndex \in Nat
           /\ socket \in Nat /\ connection \in Nat /\ recovered \in BOOLEAN
<1>1. /\ toClient \in Seq(Message) /\ pendingSends \in Seq(Message)
      /\ attempt.messages \in Seq(Message) /\ attempt.socket \in Nat
      /\ serverIndex \in Nat /\ nextMessageIndex \in Nat
      /\ socket \in Nat /\ connection \in Nat /\ recovered \in BOOLEAN
  BY DEF TypeOK, ServerTypeOK, ClientTypeOK
<1>2. <<>> \in Seq(Message)
  OBVIOUS
<1>3. Unwritten \in Seq(Message) /\ ToWrite \in Seq(Message)
  BY <1>1, <1>2 DEF Unwritten, ToWrite
<1>4. toClient \o ToWrite \in Seq(Message) /\ Unwritten \o pendingSends \in Seq(Message)
  BY <1>1, <1>3, ConcatProperties
<1>5. OnItsWay(ToWrite) \in Seq(Message)
  BY <1>1, <1>4, ConcatProperties DEF OnItsWay
<1>6. QED
  BY <1>1, <1>2, <1>3, <1>4, <1>5

\* Most steps leave the sequences alone; the server may drop the connection
\* or take up the client's websocket.
LEMMA FlowUnmoved ==
    ASSUME TypeOK, FlowInv,
           connection' = connection \/ connection' = NoConnection \/ connection' = socket,
           UNCHANGED <<toClient, recovered, attempt, pendingSends, socket, latestSocket,
                       explicitlyClosed, serverIndex, nextMessageIndex>>
    PROVE  FlowInv'
<1> SUFFICES ASSUME ~explicitlyClosed PROVE Placed' /\ Flowing'
  BY DEF FlowInv
<1>1. Placed /\ Flowing
  BY DEF FlowInv
<1>2. Placed'
  BY <1>1 DEF Placed, Current, Sending, NoConnection
<1>3. Unwritten' = Unwritten /\ ToWrite' = ToWrite
  BY DEF Unwritten, ToWrite
<1>4. Flowing'
  BY <1>1, <1>3 DEF Flowing, OnItsWay
<1>5. QED
  BY <1>2, <1>4

\* _transportAllPendingMessages hands over or keeps what it is given.
LEMMA FlushFlows ==
    ASSUME TypeOK, Placed, NEW q \in Seq(Message), TransportAllPendingMessages(q),
           UNCHANGED <<toClient, recovered, connection, socket, latestSocket,
                       serverIndex, nextMessageIndex>>,
           Resends((toClient \o ToWrite) \o q, serverIndex, nextMessageIndex),
           Resends(Unwritten \o q, serverIndex, nextMessageIndex),
           recovered => Covers((toClient \o ToWrite) \o q, 0, serverIndex, nextMessageIndex)
    PROVE  Placed' /\ Flowing'
<1>1. CASE pendingSends' = q /\ UNCHANGED attempt
  <2>1. Placed'
    BY <1>1 DEF Placed, Current, Sending
  <2>2. Unwritten' = Unwritten /\ ToWrite' = ToWrite
    BY <1>1 DEF Unwritten, ToWrite
  <2>3. QED
    BY <1>1, <2>1, <2>2 DEF Flowing, OnItsWay
<1>2. CASE /\ connection # NoConnection /\ ~Sending /\ q # <<>>
           /\ attempt' = [socket |-> connection, messages |-> q, written |-> FALSE]
           /\ pendingSends' = <<>>
  <2>1. Unwritten = <<>> /\ ToWrite = <<>>
    BY <1>2 DEF Unwritten, ToWrite, Sending
  <2>2. (toClient \o ToWrite) \o q = toClient \o q /\ Unwritten \o q = q
    BY <2>1, FlowTypes, ConcatEmptySeq
  <2>3. /\ Unwritten' = q /\ attempt'.socket = connection
        /\ ToWrite' = IF connection = socket THEN q ELSE <<>>
    BY <1>2 DEF Unwritten, ToWrite
  <2>4. Resends(Unwritten' \o pendingSends', serverIndex, nextMessageIndex)
    BY <1>2, <2>2, <2>3, ConcatEmptySeq
  <2>5. Placed'
    BY <1>2, <2>3, FlowTypes DEF Placed, Current, NoConnection
  <2>6. CASE connection = socket
    <3>1. toClient \o q \in Seq(Message)
      BY FlowTypes, ConcatProperties
    <3>2. OnItsWay(ToWrite)' = toClient \o q
      BY <1>2, <2>3, <2>6, <3>1, ConcatEmptySeq DEF OnItsWay
    <3>3. QED
      BY <2>2, <2>4, <2>5, <3>2 DEF Flowing
  <2>7. CASE connection # socket
    <3>1. toClient = <<>> /\ ~recovered
      BY <1>2, <2>7 DEF Placed, Current
    <3>2. OnItsWay(ToWrite)' = <<>>
      BY <1>2, <2>3, <2>7, <3>1, FlowTypes, ConcatEmptySeq DEF OnItsWay
    <3>3. Resends(<<>>, serverIndex, nextMessageIndex)
      BY DEF Resends
    <3>4. QED
      BY <2>4, <2>5, <3>1, <3>2, <3>3 DEF Flowing
  <2>8. QED
    BY <2>6, <2>7
<1>3. QED
  BY <1>1, <1>2 DEF TransportAllPendingMessages

\* _recoverMissingMessages replaces the queue by all the client lacks.
LEMMA RecoverFlows ==
    ASSUME TypeOK, Placed, Flowing,
           NEW S \in SUBSET (1..(nextMessageIndex - 1)),
           \A i \in (serverIndex + 1)..(nextMessageIndex - 1) : i \in S,
           RecoverMissingMessages(S),
           UNCHANGED <<toClient, recovered, connection, socket, latestSocket,
                       serverIndex, nextMessageIndex>>
    PROVE  Placed' /\ Flowing'
<1>1. PICK q \in InOrder(S) :
        TransportAllPendingMessages(<<Ping(clientIndex, TRUE)>> \o DataSeq(q))
  BY DEF RecoverMissingMessages
<1> DEFINE c == <<Ping(clientIndex, TRUE)>> \o DataSeq(q)
<1>2. clientIndex \in Nat /\ serverIndex \in Nat /\ nextMessageIndex \in Nat
  BY DEF TypeOK, ServerTypeOK, ClientTypeOK
<1>3. /\ c \in Seq(Message) /\ Covers(c, 0, serverIndex, nextMessageIndex)
      /\ Resends(c, serverIndex, nextMessageIndex)
  BY <1>2, ResendQueue
<1>4. TransportAllPendingMessages(c)
  BY <1>1
<1> HIDE DEF c
<1>5. Resends((toClient \o ToWrite) \o c, serverIndex, nextMessageIndex)
  BY <1>2, <1>3, FlowTypes, ResendsReplaced DEF Flowing, OnItsWay
<1>6. Resends(Unwritten \o c, serverIndex, nextMessageIndex)
  BY <1>2, <1>3, FlowTypes, ResendsReplaced DEF Flowing
<1>7. recovered => Covers((toClient \o ToWrite) \o c, 0, serverIndex, nextMessageIndex)
  <2>1. 0 \in 0..Len(toClient \o ToWrite)
    BY FlowTypes
  <2>2. QED
    BY <1>2, <1>3, <2>1, FlowTypes, CoversReplaced DEF Flowing, OnItsWay
<1>8. QED
  BY <1>3, <1>4, <1>5, <1>6, <1>7, FlushFlows

\* A message that asks for no resend joins the queue.
LEMMA QueueFlows ==
    ASSUME TypeOK, Placed, Flowing, serverIndex < nextMessageIndex,
           NEW m \in Message, ~m.resendMissing,
           \/ m.index = 0 /\ nextMessageIndex' = nextMessageIndex
           \/ m.index = nextMessageIndex /\ nextMessageIndex' = nextMessageIndex + 1,
           pendingSends' = Append(pendingSends, m),
           UNCHANGED <<toClient, recovered, attempt, connection, socket, latestSocket,
                       serverIndex>>
    PROVE  Placed' /\ Flowing'
<1>1. Placed'
  BY DEF Placed, Current, Sending
<1>2. Unwritten' = Unwritten /\ ToWrite' = ToWrite
  BY DEF Unwritten, ToWrite
<1>3. \A q \in Seq(Message) : q \o Append(pendingSends, m) = Append(q \o pendingSends, m)
  <2>1. SUFFICES ASSUME NEW q \in Seq(Message)
                 PROVE  q \o Append(pendingSends, m) = Append(q \o pendingSends, m)
    OBVIOUS
  <2>2. /\ pendingSends \in Seq(Message) /\ <<m>> \in Seq(Message)
        /\ q \o pendingSends \in Seq(Message)
    BY FlowTypes, SingletonSeq, ConcatProperties
  <2>3. /\ Append(pendingSends, m) = pendingSends \o <<m>>
        /\ Append(q \o pendingSends, m) = (q \o pendingSends) \o <<m>>
    BY <2>2, AppendIsConcat
  <2>4. QED
    BY <2>2, <2>3, ConcatAssociative
<1>4. /\ OnItsWay(ToWrite)' = Append(OnItsWay(ToWrite), m)
      /\ Unwritten' \o pendingSends' = Append(Unwritten \o pendingSends, m)
  BY <1>2, <1>3, FlowTypes DEF OnItsWay
<1>5. nextMessageIndex' \in Nat
  BY FlowTypes
<1>6. /\ Resends(Append(OnItsWay(ToWrite), m), serverIndex, nextMessageIndex')
      /\ Resends(Append(Unwritten \o pendingSends, m), serverIndex, nextMessageIndex')
  BY <1>5, FlowTypes, ResendsAppend DEF Flowing
<1>7. recovered => Covers(Append(OnItsWay(ToWrite), m), 0, serverIndex, nextMessageIndex')
  <2>1. 0 \in 0..Len(OnItsWay(ToWrite))
    BY FlowTypes
  <2>2. QED
    BY <1>5, <2>1, FlowTypes, CoversAppend DEF Flowing
<1>8. QED
  BY <1>1, <1>4, <1>6, <1>7 DEF Flowing

\* At the start nothing is on its way, and nothing is missing.
LEMMA InitFlow == Init => FlowInv
<1>1. SUFFICES ASSUME Init PROVE Placed /\ Flowing
  BY DEF FlowInv
<1>2. /\ toClient = <<>> /\ pendingSends = <<>> /\ attempt = NoAttempt
      /\ socket = 1 /\ latestSocket = 1 /\ connection = 1
      /\ serverIndex = 0 /\ nextMessageIndex = 1
  BY <1>1 DEF Init, ServerInit, ClientInit
<1>3. Unwritten = <<>> /\ ToWrite = <<>>
  BY <1>2 DEF Unwritten, ToWrite, NoAttempt
<1>4. <<>> \o <<>> = <<>>
  BY ConcatEmptySeq
<1>5. OnItsWay(ToWrite) = <<>> /\ Unwritten \o pendingSends = <<>>
  BY <1>2, <1>3, <1>4 DEF OnItsWay
<1>6. Resends(<<>>, 0, 1) /\ Covers(<<>>, 0, 0, 1)
  BY DEF Resends, Covers
<1>7. Placed
  BY <1>2 DEF Placed, Current, NoAttempt, NoConnection, Sending
<1>8. QED
  BY <1>2, <1>5, <1>6, <1>7 DEF Flowing

\* A batch is written to the client's websocket, or to one it has left.
LEMMA SocketWriteFlow == IInv /\ FlowInv /\ SocketWrite => FlowInv'
<1> SUFFICES ASSUME IInv, FlowInv, SocketWrite, ~explicitlyClosed PROVE Placed' /\ Flowing'
  BY DEF SocketWrite, clientVars, FlowInv
<1>1. /\ TypeOK /\ Placed /\ Flowing
      /\ UNCHANGED <<pendingSends, connection, socket, latestSocket, serverIndex,
                     nextMessageIndex, recovered>>
  BY DEF IInv, FlowInv, SocketWrite, clientVars
<1>2. /\ attempt'.messages = attempt.messages /\ attempt'.socket = attempt.socket
      /\ attempt'.written = TRUE /\ ~attempt.written
  BY <1>1 DEF SocketWrite, TypeOK, ServerTypeOK
<1>3. /\ Unwritten' = <<>> /\ ToWrite' = <<>> /\ Unwritten = attempt.messages
      /\ Sending' = Sending
  BY <1>2 DEF Unwritten, ToWrite, Sending
<1>4. Resends(Unwritten' \o pendingSends', serverIndex, nextMessageIndex)
  <2>1. Unwritten' \o pendingSends' = pendingSends
    BY <1>1, <1>3, FlowTypes, ConcatEmptySeq
  <2>2. Resends(pendingSends, serverIndex, nextMessageIndex)
    BY <1>1, FlowTypes, ResendsSuffix DEF Flowing
  <2>3. QED
    BY <2>1, <2>2
<1>5. CASE attempt.socket = socket /\ toClient' = toClient \o attempt.messages
  <2>1. ToWrite = attempt.messages
    BY <1>3, <1>5 DEF ToWrite
  <2>2. toClient \o attempt.messages \in Seq(Message)
    BY <1>1, FlowTypes, ConcatProperties
  <2>3. OnItsWay(ToWrite)' = OnItsWay(ToWrite)
    BY <1>1, <1>3, <1>5, <2>1, <2>2, ConcatEmptySeq DEF OnItsWay
  <2>4. Placed'
    BY <1>1, <1>2, <1>3, <1>5 DEF Placed, Current
  <2>5. QED
    BY <1>1, <1>4, <2>3, <2>4 DEF Flowing
<1>6. CASE attempt.socket # socket /\ toClient' = toClient
  <2>1. ToWrite = <<>>
    BY <1>6 DEF ToWrite
  <2>2. OnItsWay(ToWrite)' = OnItsWay(ToWrite)
    BY <1>1, <1>3, <1>6, <2>1 DEF OnItsWay
  <2>3. Placed'
    BY <1>1, <1>2, <1>3, <1>6 DEF Placed, Current
  <2>4. QED
    BY <1>1, <1>4, <2>2, <2>3 DEF Flowing
<1>7. QED
  BY <1>5, <1>6 DEF SocketWrite

\* A send that succeeds has been written; one that fails puts its batch back
\* in front of the queue.
LEMMA SendDoneFlow ==
    IInv /\ FlowInv /\ (WriteSucceeds \/ WriteFails) => FlowInv'
<1> SUFFICES ASSUME IInv, FlowInv, WriteSucceeds \/ WriteFails
             PROVE  FlowInv'
  OBVIOUS
<1>0. explicitlyClosed' = explicitlyClosed
  BY DEF WriteSucceeds, WriteFails, clientVars
<1> SUFFICES ASSUME ~explicitlyClosed PROVE Placed' /\ Flowing'
  BY <1>0 DEF FlowInv
<1>1. /\ TypeOK /\ Placed /\ Flowing /\ attempt' = NoAttempt
      /\ UNCHANGED <<connection, socket, latestSocket, serverIndex, nextMessageIndex,
                     toClient, recovered>>
  BY DEF IInv, FlowInv, WriteSucceeds, WriteFails, SendDone, clientVars, networkVars
<1>2. Unwritten' = <<>> /\ ToWrite' = <<>> /\ attempt'.socket = 0 /\ ~Sending'
  BY <1>1 DEF Unwritten, ToWrite, NoAttempt, NoConnection, Sending
<1>3. Placed'
  BY <1>1, <1>2, FlowTypes DEF Placed, Current
<1>4. pendingSends' = Unwritten \o pendingSends
  <2>1. CASE WriteSucceeds
    <3>1. attempt.written /\ pendingSends' = pendingSends
      BY <2>1 DEF WriteSucceeds, SendDone
    <3>2. QED
      BY <1>1, <3>1, FlowTypes, ConcatEmptySeq DEF Unwritten
  <2>2. CASE WriteFails
    BY <2>2 DEF WriteFails, SendDone, Unwritten
  <2>3. QED
    BY <2>1, <2>2
<1>5. Unwritten' \o pendingSends' = Unwritten \o pendingSends
  BY <1>1, <1>2, <1>4, FlowTypes, ConcatEmptySeq
<1>6. OnItsWay(ToWrite)' = toClient \o (Unwritten \o pendingSends)
  <2>1. toClient \o <<>> = toClient
    BY <1>1, FlowTypes, ConcatEmptySeq
  <2>2. QED
    BY <1>1, <1>2, <1>4, <2>1 DEF OnItsWay
<1>7. CASE ToWrite = Unwritten
  <2>1. (toClient \o Unwritten) \o pendingSends = toClient \o (Unwritten \o pendingSends)
    <3>1. \A t, u, v \in Seq(Message) : (t \o u) \o v = t \o (u \o v)
      BY ConcatAssociative
    <3>2. /\ toClient \in Seq(Message) /\ Unwritten \in Seq(Message)
          /\ pendingSends \in Seq(Message)
      BY <1>1, FlowTypes
    <3>3. QED
      BY <3>1, <3>2
  <2>2. OnItsWay(ToWrite)' = OnItsWay(ToWrite)
    BY <1>6, <1>7, <2>1 DEF OnItsWay
  <2>3. QED
    BY <1>1, <1>3, <1>5, <2>2 DEF Flowing
<1>8. CASE ToWrite # Unwritten
  <2>1. attempt.socket # socket /\ Sending
    BY <1>8 DEF ToWrite, Unwritten, Sending
  <2>2. toClient = <<>> /\ ~recovered
    BY <1>1, <2>1 DEF Placed, Current
  <2>3. OnItsWay(ToWrite)' = Unwritten \o pendingSends
    BY <1>1, <1>6, <2>2, FlowTypes, ConcatEmptySeq
  <2>4. QED
    BY <1>1, <1>3, <1>5, <2>2, <2>3 DEF Flowing
<1>9. QED
  BY <1>7, <1>8

\* The server's handlers that send, queue or listen.
LEMMA ServerFlow ==
    /\ IInv /\ FlowInv /\ ServerSends => FlowInv'
    /\ IInv /\ FlowInv /\ ServerFlushes => FlowInv'
    /\ IInv /\ FlowInv /\ ServerListener => FlowInv'
    /\ IInv /\ FlowInv /\ ServerPings => FlowInv'
<1>1. ASSUME IInv, FlowInv, ServerSends, ~explicitlyClosed PROVE Placed' /\ Flowing'
  <2> DEFINE m == Data(nextMessageIndex)
  <2>1. /\ TypeOK /\ Placed /\ Flowing /\ serverIndex < nextMessageIndex
        /\ nextMessageIndex \in Nat
    BY <1>1 DEF IInv, FlowInv, IndicesGivenOut, TypeOK, ServerTypeOK
  <2>2. m \in Message /\ ~m.resendMissing /\ m.index = nextMessageIndex
    BY <2>1 DEF Data, Message
  <2>3. /\ pendingSends' = Append(pendingSends, m)
        /\ nextMessageIndex' = nextMessageIndex + 1
        /\ UNCHANGED <<toClient, recovered, attempt, connection, socket, latestSocket,
                       serverIndex>>
    BY <1>1 DEF ServerSends, ServerSend, TransportMessage, clientVars, networkVars
  <2> HIDE DEF m
  <2>4. QED
    BY <2>1, <2>2, <2>3, QueueFlows
<1>2. ASSUME IInv, FlowInv, ServerFlushes, ~explicitlyClosed PROVE Placed' /\ Flowing'
  <2>1. /\ TypeOK /\ Placed /\ Flowing /\ TransportAllPendingMessages(pendingSends)
        /\ UNCHANGED <<toClient, recovered, connection, socket, latestSocket,
                       serverIndex, nextMessageIndex>>
    BY <1>2 DEF IInv, FlowInv, ServerFlushes, ServerImmediate, clientVars, networkVars
  <2>2. QED
    BY <2>1, FlowTypes, FlushFlows DEF Flowing, OnItsWay
<1>3. ASSUME IInv, FlowInv, ServerListener, ~explicitlyClosed PROVE Placed' /\ Flowing'
  <2>1. /\ TypeOK /\ Placed /\ Flowing
        /\ \/ TransportAllPendingMessages(pendingSends)
           \/ RecoverMissingMessages(nonAckedSends)
        /\ UNCHANGED <<toClient, recovered, connection, socket, latestSocket,
                       serverIndex, nextMessageIndex>>
    BY <1>3 DEF IInv, FlowInv, ServerListener, SendAttemptListener, clientVars, networkVars
  <2>2. CASE TransportAllPendingMessages(pendingSends)
    BY <2>1, <2>2, FlowTypes, FlushFlows DEF Flowing, OnItsWay
  <2>3. CASE RecoverMissingMessages(nonAckedSends)
    <3>1. /\ nonAckedSends \in SUBSET (1..(nextMessageIndex - 1))
          /\ \A i \in (serverIndex + 1)..(nextMessageIndex - 1) : i \in nonAckedSends
      BY <1>3, <2>1, FlowTypes DEF IInv, IndicesGivenOut, ServerRetainsUnseen
    <3>2. QED
      BY <2>1, <2>3, <3>1, RecoverFlows
  <2>4. QED
    BY <2>1, <2>2, <2>3
<1>4. ASSUME IInv, FlowInv, ServerPings, ~explicitlyClosed PROVE FlowInv'
  <2> DEFINE m == Ping(clientIndex, FALSE)
  <2>1. /\ TypeOK /\ Placed /\ Flowing /\ serverIndex < nextMessageIndex
        /\ clientIndex \in Nat
    BY <1>4 DEF IInv, FlowInv, IndicesGivenOut, TypeOK, ServerTypeOK
  <2>2. m \in Message /\ ~m.resendMissing /\ m.index = 0
    BY <2>1 DEF Ping, Message
  <2>3. /\ pendingSends' = Append(pendingSends, m) \/ pendingSends' = pendingSends
        /\ UNCHANGED <<toClient, recovered, attempt, connection, socket, latestSocket,
                       serverIndex, nextMessageIndex, explicitlyClosed>>
    BY <1>4 DEF ServerPings, SendInactivityPing, TransportMessage, clientVars, networkVars
  <2> HIDE DEF m
  <2>4. CASE pendingSends' = Append(pendingSends, m)
    BY <2>1, <2>2, <2>3, <2>4, QueueFlows DEF FlowInv
  <2>5. CASE pendingSends' = pendingSends
    BY <1>4, <2>1, <2>3, <2>5, FlowUnmoved
  <2>6. QED
    BY <2>3, <2>4, <2>5
<1>5. ServerSends \/ ServerFlushes \/ ServerListener \/ ServerPings
        => UNCHANGED explicitlyClosed
  BY DEF ServerSends, ServerFlushes, ServerListener, ServerPings, clientVars
<1>6. QED
  BY <1>1, <1>2, <1>3, <1>4, <1>5 DEF FlowInv

\* A Ping of the client's resends what is unacknowledged, at once or after
\* the send under way.
LEMMA ServerReceivesFlow ==
    ASSUME NEW s \in Sockets
    PROVE  IInv /\ IInv' /\ FlowInv /\ ServerReceives(s) => FlowInv'
<1> SUFFICES ASSUME IInv, IInv', FlowInv, ServerReceives(s), ~explicitlyClosed
             PROVE  FlowInv'
  BY DEF ServerReceives, clientVars, FlowInv
<1> DEFINE m == Head(toServer[s])
<1>1. /\ TypeOK /\ Placed /\ Flowing /\ MessageReceived(m)
      /\ UNCHANGED <<toClient, recovered, connection, socket, latestSocket,
                     serverIndex, nextMessageIndex, explicitlyClosed>>
  BY DEF IInv, FlowInv, ServerReceives, MessageReceived, clientVars
<1>2. CASE UNCHANGED <<pendingSends, attempt>>
  BY <1>1, <1>2, FlowUnmoved
<1>3. CASE RecoverMissingMessages(nonAckedSends')
  <2>1. /\ nonAckedSends' \in SUBSET (1..(nextMessageIndex - 1))
        /\ \A i \in (serverIndex + 1)..(nextMessageIndex - 1) : i \in nonAckedSends'
    BY <1>1, FlowTypes DEF IInv, IndicesGivenOut, ServerRetainsUnseen
  <2>2. QED
    BY <1>1, <1>3, <2>1, RecoverFlows DEF FlowInv
<1>4. QED
  BY <1>1, <1>2, <1>3 DEF MessageReceived, PingMessageReceived

\* Three sequences put together in either order.
IsRegrouped(a, s, t) == (a \o s) \o t = a \o (s \o t)

LEMMA Regrouped ==
    ASSUME NEW S, NEW a \in Seq(S), NEW s \in Seq(S), NEW t \in Seq(S)
    PROVE  IsRegrouped(a, s, t)
  BY ConcatAssociative DEF IsRegrouped

\* A head in front of a sequence of three parts.
IsInFront(a, s, t, u) == ((a \o s) \o t) \o u = a \o ((s \o t) \o u)

LEMMA HeadInFront ==
    ASSUME NEW S, NEW a \in Seq(S), NEW s \in Seq(S), NEW t \in Seq(S), NEW u \in Seq(S)
    PROVE  (s \o t) \o u \in Seq(S) /\ IsInFront(a, s, t, u)
<1>1. s \o t \in Seq(S) /\ (s \o t) \o u \in Seq(S)
  BY ConcatProperties
<1>2. IsRegrouped(a, s, t)
  BY Regrouped
<1>3. PICK st \in Seq(S) : st = s \o t
  BY <1>1
<1>4. IsRegrouped(a, st, u)
  BY Regrouped
<1>5. QED
  BY <1>1, <1>2, <1>3, <1>4 DEF IsInFront, IsRegrouped

\* With its head within what the client takes next, the rest stays covered.
LEMMA TakenFlows ==
    ASSUME TypeOK, TypeOK', Placed, Flowing, toClient # <<>>,
           toClient' = Tail(toClient),
           serverIndex <= serverIndex', Head(toClient).index <= serverIndex',
           \/ recovered' = recovered
           \/ Head(toClient).resendMissing /\ recovered' = TRUE,
           UNCHANGED <<attempt, pendingSends, connection, socket, latestSocket,
                       nextMessageIndex>>
    PROVE  Placed' /\ Flowing'
<1> DEFINE q == OnItsWay(ToWrite)
           a == <<Head(toClient)>>
<1>1. serverIndex \in Nat /\ serverIndex' \in Nat /\ nextMessageIndex \in Nat
  BY FlowTypes DEF TypeOK, ClientTypeOK
<1>2. Placed'
  BY DEF Placed, Current, Sending
<1>3. Unwritten' = Unwritten /\ ToWrite' = ToWrite
  BY DEF Unwritten, ToWrite
<1>4. /\ Head(toClient) \in Message /\ Tail(toClient) \in Seq(Message)
      /\ a \in Seq(Message) /\ Len(a) = 1 /\ toClient = a \o Tail(toClient)
  <2>1. toClient \in Seq(Message)
    BY FlowTypes
  <2>2. QED
    BY <2>1
<1>5. /\ q = a \o OnItsWay(ToWrite)' /\ OnItsWay(ToWrite)' \in Seq(Message)
      /\ q \in Seq(Message)
  <2>1. /\ a \in Seq(Message) /\ Tail(toClient) \in Seq(Message)
        /\ ToWrite \in Seq(Message) /\ pendingSends \in Seq(Message)
    BY <1>4, FlowTypes
  <2> HIDE DEF a
  <2>2. /\ (Tail(toClient) \o ToWrite) \o pendingSends \in Seq(Message)
        /\ IsInFront(a, Tail(toClient), ToWrite, pendingSends)
    BY <2>1, HeadInFront
  <2>3. ((a \o Tail(toClient)) \o ToWrite) \o pendingSends
             = a \o ((Tail(toClient) \o ToWrite) \o pendingSends)
    BY <2>2 DEF IsInFront
  <2>4. OnItsWay(ToWrite)' = (Tail(toClient) \o ToWrite) \o pendingSends
    BY <1>3 DEF OnItsWay
  <2>5. q = a \o OnItsWay(ToWrite)'
    BY <1>4, <2>3, <2>4 DEF OnItsWay
  <2>6. QED
    BY <2>2, <2>4, <2>5, FlowTypes
<1> DEFINE p == OnItsWay(ToWrite)'
<1>6. q # <<>> /\ Head(q) = Head(toClient) /\ Tail(q) = p
  <2>1. \A t \in Seq(Message), h \in Message :
          <<h>> \o t # <<>> /\ Head(<<h>> \o t) = h /\ Tail(<<h>> \o t) = t
    OBVIOUS
  <2>2. QED
    BY <1>4, <1>5, <2>1
<1>7. /\ Resends(p, serverIndex', nextMessageIndex)
      /\ Resends(Unwritten \o pendingSends, serverIndex', nextMessageIndex)
  <2>1. Resends(p, serverIndex, nextMessageIndex)
    BY <1>1, <1>4, <1>5, ResendsSuffix DEF Flowing
  <2>2. QED
    BY <1>1, <1>5, <2>1, FlowTypes, ResendsTaken DEF Flowing
<1>8. recovered => Covers(p, 0, serverIndex', nextMessageIndex)
  BY <1>1, <1>5, <1>6, CoversTail DEF Flowing
<1>9. Head(toClient).resendMissing => Covers(p, 0, serverIndex', nextMessageIndex)
  <2>1. SUFFICES ASSUME Head(toClient).resendMissing
                 PROVE  Covers(p, 0, serverIndex', nextMessageIndex)
    OBVIOUS
  <2>2. 1 \in 1..Len(q) /\ q[1] = Head(toClient)
    BY <1>5, <1>6
  <2>3. Covers(q, 1, serverIndex, nextMessageIndex)
    BY <2>1, <2>2 DEF Flowing, Resends
  <2>4. 0 \in 0..Len(p) /\ Len(a) + 0 = 1
    BY <1>4, <1>5
  <2>5. Covers(a \o p, Len(a) + 0, serverIndex, nextMessageIndex)
    BY <1>5, <2>3, <2>4
  <2>6. Covers(p, 0, serverIndex, nextMessageIndex)
    BY <1>1, <1>4, <1>5, <2>4, <2>5, CoversSuffix
  <2>7. QED
    BY <1>1, <1>5, <2>6, CoversTaken
<1>10. recovered' => Covers(p, 0, serverIndex', nextMessageIndex)
  BY <1>8, <1>9
<1>11. QED
  BY <1>2, <1>3, <1>7, <1>10 DEF Flowing

\* Of what the client takes only a gap sets explicitlyClosed.
LEMMA ClientReceivesFlow ==
    IInv /\ IInv' /\ FlowInv /\ ClientReceives => FlowInv'
<1> SUFFICES ASSUME IInv, IInv', FlowInv, ClientReceives, ~explicitlyClosed'
             PROVE  Placed' /\ Flowing'
  BY DEF FlowInv
<1> DEFINE m == Head(toClient)
<1>1. /\ TypeOK /\ TypeOK' /\ toClient # <<>>
      /\ ClientTakesPing(m) \/ ClientTakesData(m)
      /\ UNCHANGED <<attempt, pendingSends, connection, nextMessageIndex>>
  BY DEF IInv, ClientReceives, serverVars
<1>2. m \in Message /\ m.index \in Nat /\ serverIndex \in Nat
  <2>1. m \in Message
    BY <1>1, FlowTypes, HeadTailProperties
  <2>2. QED
    BY <1>1, <2>1, FlowTypes DEF Message
<1>3. ~GapReconnects(m)
  BY DEF GapReconnects
<1>4. /\ toClient' = Tail(toClient) /\ serverIndex <= serverIndex' /\ m.index <= serverIndex'
      /\ recovered' = recovered \/ (m.resendMissing /\ recovered' = TRUE)
      /\ UNCHANGED <<socket, latestSocket, explicitlyClosed>>
  <2>1. CASE ClientTakesPing(m)
    BY <1>2, <2>1 DEF ClientTakesPing, PingMessageTaken, IsPing
  <2>2. CASE ClientTakesData(m)
    BY <1>2, <1>3, <2>2 DEF ClientTakesData, DuplicateIgnored, InOrderTaken, clientVars
  <2>3. QED
    BY <1>1, <2>1, <2>2
<1>5. Placed /\ Flowing
  BY <1>4 DEF FlowInv
<1> HIDE DEF m
<1>6. m = Head(toClient)
  BY DEF m
<1>7. QED
  BY <1>1, <1>4, <1>5, <1>6, TakenFlows

\* What was on its way on the websocket given up is lost; the queue is not.
LEMMA ClientLosesSocketFlow == IInv /\ FlowInv /\ ClientLosesSocket => FlowInv'
<1> SUFFICES ASSUME IInv, FlowInv, ClientLosesSocket
             PROVE  FlowInv'
  OBVIOUS
<1>0. explicitlyClosed' = explicitlyClosed
  BY DEF ClientLosesSocket, SocketClose
<1> SUFFICES ASSUME ~explicitlyClosed PROVE Placed' /\ Flowing'
  BY <1>0 DEF FlowInv
<1>1. /\ TypeOK /\ Placed /\ Flowing
      /\ latestSocket' = latestSocket + 1 /\ socket' = latestSocket + 1
      /\ toClient' = <<>> /\ recovered' = FALSE
      /\ UNCHANGED <<attempt, pendingSends, connection, serverIndex, nextMessageIndex>>
  BY DEF IInv, FlowInv, ClientLosesSocket, SocketClose, serverVars
<1>2. attempt'.socket # socket'
  BY <1>1, FlowTypes DEF Placed
<1>3. Unwritten' = Unwritten /\ ToWrite' = <<>>
  BY <1>1, <1>2 DEF Unwritten, ToWrite
<1>4. OnItsWay(ToWrite)' = pendingSends
  BY <1>1, <1>3, FlowTypes, ConcatEmptySeq DEF OnItsWay
<1>5. Resends(pendingSends, serverIndex, nextMessageIndex)
  BY <1>1, FlowTypes, ResendsSuffix DEF Flowing
<1>6. Placed'
  BY <1>1, <1>2, FlowTypes DEF Placed, Current
<1>7. QED
  BY <1>1, <1>3, <1>4, <1>5, <1>6 DEF Flowing

\* Every other step leaves the sequences alone.
LEMMA NextFlow == IInv /\ IInv' /\ FlowInv /\ [Next]_vars => FlowInv'
<1> SUFFICES ASSUME IInv, IInv', FlowInv, [Next]_vars PROVE FlowInv'
  OBVIOUS
<1>1. TypeOK
  BY DEF IInv
<1>2. ASSUME NEW s \in Sockets, ServerAccepts(s) PROVE FlowInv'
  <2>1. /\ connection' = connection \/ connection' = socket
        /\ UNCHANGED <<toClient, recovered, attempt, pendingSends, socket, latestSocket,
                       explicitlyClosed, serverIndex, nextMessageIndex>>
    BY <1>2 DEF ServerAccepts, ResumeWithConnection, serverVars, clientVars
  <2>2. QED
    BY <1>1, <2>1, FlowUnmoved
<1>3. ASSUME NEW s \in Sockets, ServerDenies(s) PROVE FlowInv'
  BY <1>1, <1>3, FlowUnmoved DEF ServerDenies, serverVars, clientVars
<1>4. ASSUME NEW s \in Sockets, ServerNoticesClose(s) PROVE FlowInv'
  BY <1>1, <1>4, FlowUnmoved DEF ServerNoticesClose, ConnectionClosed, clientVars
<1>5. CASE ClientSends
  BY <1>1, <1>5, FlowUnmoved DEF ClientSends, ClientSend, serverVars
<1>6. CASE ClientPings
  BY <1>1, <1>6, FlowUnmoved DEF ClientPings, serverVars, clientVars
<1>7. CASE ClientOpens
  BY <1>1, <1>7, FlowUnmoved DEF ClientOpens, SocketOpen, serverVars
<1>8. CASE UNCHANGED vars
  BY <1>1, <1>8, FlowUnmoved DEF vars, serverVars, clientVars, networkVars
<1>9. ASSUME NEW s \in Sockets, ServerReceives(s) PROVE FlowInv'
  BY <1>9, ServerReceivesFlow
<1>10. QED
  BY <1>2, <1>3, <1>4, <1>5, <1>6, <1>7, <1>8, <1>9, ServerFlow, SocketWriteFlow,
     SendDoneFlow, ClientReceivesFlow, ClientLosesSocketFlow
     DEF Next, ServerNext, ClientNext

\* A message beyond the next index would be preceded by the one it skips.
LEMMA RecoveredNoGap ==
    IInv /\ FlowInv /\ [Next]_vars
        => ((recovered /\ recovered') => (explicitlyClosed' = explicitlyClosed))
<1> SUFFICES ASSUME IInv, FlowInv, [Next]_vars, recovered,
                    explicitlyClosed' # explicitlyClosed
             PROVE  FALSE
  OBVIOUS
<1> DEFINE m == Head(toClient)
           q == OnItsWay(ToWrite)
<1>1. GapReconnects(m) /\ toClient # <<>>
  <2>1. CASE ServerNext \/ UNCHANGED vars
    BY <2>1 DEF ServerNext, ServerSends, ServerFlushes, SocketWrite, WriteSucceeds,
       WriteFails, ServerListener, ServerPings, ServerReceives, ServerAccepts,
       ServerDenies, ServerNoticesClose, vars, clientVars
  <2>2. CASE ClientSends \/ ClientPings \/ ClientLosesSocket \/ ClientOpens
    BY <2>2 DEF ClientSends, ClientSend, ClientPings, ClientLosesSocket, SocketClose,
       ClientOpens, SocketOpen, clientVars
  <2>3. CASE ClientReceives
    BY <2>3 DEF ClientReceives, ClientTakesPing, PingMessageTaken, ClientTakesData,
       DuplicateIgnored, InOrderTaken, clientVars
  <2>4. QED
    BY <2>1, <2>2, <2>3 DEF Next, ClientNext
<1>2. TypeOK /\ ~explicitlyClosed
  BY <1>1 DEF IInv, GapReconnects, TypeOK, ClientTypeOK
<1>3. Covers(q, 0, serverIndex, nextMessageIndex)
  BY <1>2 DEF FlowInv, Flowing
<1>4. 1 \in 1..Len(q) /\ q[1] = m
  <2>1. /\ toClient \in Seq(Message) /\ ToWrite \in Seq(Message)
        /\ pendingSends \in Seq(Message) /\ toClient \o ToWrite \in Seq(Message)
    BY <1>2, FlowTypes
  <2>2. 1 \in 1..Len(toClient) /\ toClient[1] = m
    BY <1>1, <2>1
  <2>3. 1 \in 1..Len(toClient \o ToWrite) /\ (toClient \o ToWrite)[1] = m
    BY <2>1, <2>2, ConcatProperties
  <2>4. QED
    BY <2>1, <2>3, ConcatProperties DEF OnItsWay
<1> HIDE DEF q
<1>5. q[1].index > serverIndex + 1 /\ 1 \in (0 + 1)..Len(q)
  BY <1>1, <1>4 DEF GapReconnects
<1>6. \E j \in (0 + 1)..(1 - 1) : q[j].index = q[1].index - 1
  BY <1>3, <1>5 DEF Covers
<1>7. QED
  BY <1>6

\* Whatever breaks, is resent or put back: once a resend has reached it on its
\* websocket, the client finds no gap there, and so does not give up its
\* session (websocket_transport.js:165-175, 246-271).
THEOREM NoGap == Spec => NoGapOnceRecovered
<1>1. Spec => [](IInv /\ FlowInv)
  BY InitIInv, InitFlow, NextIInv, NextFlow, PTL DEF Spec
<1>2. QED
  BY <1>1, RecoveredNoGap, PTL DEF Spec, NoGapOnceRecovered

----------------------------------------------------------------------------
(* Replies: what a step of it is to Channel *)

\* What RepliesInv needs to know of the indices of the two sessions.
LEMMA Indices ==
    ASSUME IInv
    PROVE  /\ nextMessageIndex \in Nat /\ clientNextIndex \in Nat
           /\ serverIndex \in Nat /\ clientIndex \in Nat
           /\ serverIndex < nextMessageIndex /\ clientIndex < clientNextIndex
           /\ explicitlyClosed \in BOOLEAN
BY DEF IInv, TypeOK, ServerTypeOK, ClientTypeOK, IndicesGivenOut

LEMMA TransportsUnmoved ==
    ASSUME Transports
    PROVE  /\ UNCHANGED <<nextMessageIndex, clientNextIndex, serverIndex, clientIndex,
                          explicitlyClosed>>
           /\ UNCHANGED <<requestVars, answerVars, queuedTwice>>
<1> DEFINE Unmoved == UNCHANGED <<nextMessageIndex, clientNextIndex, serverIndex,
                                  clientIndex, explicitlyClosed>>
<1>1. ASSUME ServerFlushes \/ SocketWrite \/ WriteSucceeds \/ WriteFails
             \/ ServerListener \/ ServerPings
      PROVE  Unmoved
  BY <1>1 DEF ServerFlushes, ServerImmediate, SocketWrite, WriteSucceeds, WriteFails,
     SendDone, ServerListener, SendAttemptListener, ServerPings, SendInactivityPing,
     clientVars
<1>2. ASSUME NEW s \in Sockets, ServerAccepts(s) \/ ServerDenies(s) \/ ServerNoticesClose(s)
      PROVE  Unmoved
  BY <1>2 DEF ServerAccepts, ResumeWithConnection, ServerDenies, ServerNoticesClose,
     ConnectionClosed, clientVars, serverVars
<1>3. ASSUME ClientPings \/ ClientLosesSocket \/ ClientOpens
      PROVE  Unmoved
  BY <1>3 DEF ClientPings, ClientLosesSocket, SocketClose, ClientOpens, SocketOpen,
     clientVars, serverVars
<1>4. QED
  BY <1>1, <1>2, <1>3 DEF Transports

LEMMA ClientSendsIndices ==
    ASSUME ClientSends
    PROVE  /\ clientNextIndex' = clientNextIndex + 1
           /\ UNCHANGED <<nextMessageIndex, serverIndex, clientIndex, explicitlyClosed>>
BY DEF ClientSends, ClientSend, serverVars

LEMMA ServerSendsIndices ==
    ASSUME ServerSends
    PROVE  /\ nextMessageIndex' = nextMessageIndex + 1
           /\ UNCHANGED <<clientNextIndex, serverIndex, clientIndex, explicitlyClosed>>
BY DEF ServerSends, ServerSend, clientVars

LEMMA ServerReceivesIndices ==
    ASSUME IInv, NEW s \in Sockets, ServerReceives(s)
    PROVE  /\ clientIndex' \in Nat /\ clientIndex <= clientIndex'
           /\ clientIndex' < clientNextIndex
           /\ UNCHANGED <<nextMessageIndex, clientNextIndex, serverIndex, explicitlyClosed>>
<1> DEFINE m == Head(toServer[s])
<1>1. /\ MessageReceived(m) /\ toServer[s] # <<>> /\ UNCHANGED clientVars
      /\ toServer[s] \in Seq(FromClient)
  BY DEF IInv, InFlightTruthful, ServerReceives
<1>2. m \in FromClient
  BY <1>1, HeadTailProperties
<1>3. m.index \in Nat /\ m.index < clientNextIndex
  BY <1>2 DEF FromClient, Message
<1>4. /\ clientIndex' = clientIndex
         \/ clientIndex' = IF m.index > clientIndex THEN m.index ELSE clientIndex
      /\ UNCHANGED nextMessageIndex
  BY <1>1 DEF MessageReceived
<1>5. QED
  BY <1>1, <1>3, <1>4, Indices DEF clientVars

\* The message the client receives is one the server has sent; a duplicate, the
\* next one, or one beyond a gap.
LEMMA ClientReceivesIndices ==
    ASSUME IInv, ClientReceives, NEW m, m = Head(toClient)
    PROVE  /\ m.index \in Nat /\ m.index < nextMessageIndex
           /\ UNCHANGED <<nextMessageIndex, clientNextIndex, clientIndex>>
           /\ \/ /\ IsPing(m) \/ m.index <= serverIndex
                 /\ UNCHANGED <<serverIndex, explicitlyClosed>>
              \/ /\ ~IsPing(m) /\ m.index = serverIndex + 1
                 /\ serverIndex' = m.index /\ UNCHANGED explicitlyClosed
              \/ /\ ~IsPing(m) /\ m.index > serverIndex + 1
                 /\ UNCHANGED serverIndex /\ explicitlyClosed' = TRUE
<1>1. /\ ClientTakesPing(m) \/ ClientTakesData(m)
      /\ UNCHANGED serverVars /\ toClient # <<>> /\ toClient \in Seq(FromServer)
  BY DEF IInv, InFlightTruthful, ClientReceives
<1>2. m \in FromServer
  BY <1>1, HeadTailProperties
<1>3. m.index \in Nat /\ m.index < nextMessageIndex
  BY <1>2 DEF FromServer, Message
<1>4. UNCHANGED <<nextMessageIndex, clientIndex>>
  BY <1>1 DEF serverVars
<1>5. CASE ClientTakesPing(m)
  BY <1>3, <1>4, <1>5 DEF ClientTakesPing, PingMessageTaken
<1>6. CASE ClientTakesData(m)
  BY <1>3, <1>4, <1>6 DEF ClientTakesData, DuplicateIgnored, InOrderTaken, GapReconnects,
     clientVars
<1>7. QED
  BY <1>1, <1>5, <1>6

LEMMA RepliesStep == [RepliesNext]_repliesVars /\ ~ReceiveDenial => [Next]_vars
<1> SUFFICES ASSUME RepliesNext, ~ReceiveDenial PROVE Next
  BY DEF repliesVars
<1>1. ASSUME NEW s \in Scopes, Fetch(s) \/ Change(s) PROVE Next
  BY <1>1 DEF Fetch, Change, Request, Next, ClientNext
<1>2. CASE Receive
  BY <1>2 DEF Receive, Next, ClientNext
<1>3. ASSUME NEW s \in Sockets, TakeRequest(s) PROVE Next
  BY <1>3 DEF TakeRequest, Next, ServerNext
<1>4. ASSUME NEW r, AcceptFetch(r) \/ DenyFetch(r) \/ AnswerChange(r) \/ SendState(r)
             \/ SendSync(r)
      PROVE  Next
  BY <1>4 DEF AcceptFetch, DenyFetch, AnswerChange, SendState, SendSync, Says, Next,
     ServerNext
<1>5. CASE Transports
  BY <1>5 DEF Transports, Next, ServerNext, ClientNext
<1>6. QED
  BY <1>1, <1>2, <1>3, <1>4, <1>5 DEF RepliesNext

\* The one step that is not of Channel: messages are not looked at.
LEMMA DenialStep ==
    ASSUME IInv, ReceiveDenial
    PROVE  IInv'
<1>1. /\ UNCHANGED <<serverVars, clientVars, serverSocket, toServer, recovered>>
      /\ toClient' \in AfterThrow
  BY DEF ReceiveDenial
<1>2. PICK n \in Nat : toClient' = SubSeq(toClient, n + 1, Len(toClient))
                        /\ n <= Len(toClient) /\ Len(toClient) \in Nat
  <2>1. toClient \in Seq(Message)
    BY DEF IInv, TypeOK
  <2>2. Len(toClient) \in Nat
    BY <2>1
  <2>3. QED
    BY <1>1, <2>2 DEF AfterThrow
<1>3. \A T : toClient \in Seq(T) => toClient' \in Seq(T)
  BY <1>2, SubSeqProperties
<1>4. /\ FromServer' = FromServer /\ FromClient' = FromClient
  BY <1>1 DEF FromServer, FromClient, serverVars, clientVars
<1>5. TypeOK'
  <2>1. ServerTypeOK' /\ ClientTypeOK'
    BY <1>1 DEF IInv, TypeOK, ServerTypeOK, ClientTypeOK, serverVars, clientVars
  <2>2. toClient' \in Seq(Message)
    BY <1>3 DEF IInv, TypeOK
  <2>3. QED
    BY <1>1, <2>1, <2>2 DEF IInv, TypeOK, serverVars, clientVars
<1>6. InFlightTruthful'
  BY <1>1, <1>3, <1>4 DEF IInv, InFlightTruthful, serverVars
<1>7. IndicesGivenOut' /\ ServerRetainsUnseen' /\ ClientRetainsUnseen' /\ PingTimerRuns'
  BY <1>1 DEF IInv, IndicesGivenOut, ServerRetainsUnseen, ClientRetainsUnseen,
     PingTimerRuns, serverVars, clientVars
<1>8. QED
  BY <1>5, <1>6, <1>7 DEF IInv

----------------------------------------------------------------------------
(* RepliesInv is inductive, given IInv *)

LEMMA Appended ==
    ASSUME NEW S, NEW q \in Seq(S), NEW x \in S, NEW p, p = Append(q, x)
    PROVE  /\ p \in Seq(S) /\ Len(q) \in Nat /\ Len(p) = Len(q) + 1
           /\ DOMAIN q = 1..Len(q) /\ DOMAIN p = 1..(Len(q) + 1)
           /\ \A i \in 1..Len(q) : p[i] = q[i]
           /\ p[Len(q) + 1] = x
BY AppendProperties

\* What has been said on both sides, in terms of the indices.
LEMMA Said ==
    ASSUME IInv, RepliesTypeOK
    PROVE  /\ clientSaid \in Seq(Requests) /\ serverSaid \in Seq(ServerSays)
           /\ DOMAIN clientSaid = 1..(clientNextIndex - 1)
           /\ DOMAIN serverSaid = 1..(nextMessageIndex - 1)
           /\ \A r \in DOMAIN clientSaid : clientSaid[r] \in Requests
           /\ \A i \in DOMAIN serverSaid : serverSaid[i] \in ServerSays
<1>1. clientSaid \in Seq(Requests) /\ serverSaid \in Seq(ServerSays)
  BY DEF RepliesTypeOK
<1>2. Len(clientSaid) = clientNextIndex - 1 /\ Len(serverSaid) = nextMessageIndex - 1
  BY DEF RepliesTypeOK
<1>3. \A T : \A q \in Seq(T) : DOMAIN q = 1..Len(q) /\ \A i \in DOMAIN q : q[i] \in T
  OBVIOUS
<1>4. QED
  BY <1>1, <1>2, <1>3

LEMMA InitReplies == RepliesInit => RepliesInv
<1> SUFFICES ASSUME RepliesInit PROVE RepliesInv
  OBVIOUS
<1>1. /\ clientSaid = <<>> /\ serverSaid = <<>> /\ serverScopes = <<>> /\ attached = <<>>
      /\ callbacks = {} /\ deciding = {} /\ stating = {} /\ queuedTwice = FALSE
      /\ listeners = [s \in Scopes |-> 0]
      /\ clientNextIndex = 1 /\ nextMessageIndex = 1
  BY DEF RepliesInit, Init, ServerInit, ClientInit
<1>2. /\ DOMAIN clientSaid = {} /\ DOMAIN serverSaid = {} /\ DOMAIN serverScopes = {}
      /\ DOMAIN attached = {} /\ attached \in [{} -> Scopes]
  BY <1>1
<1>3. RepliesTypeOK
  <2>1. /\ clientSaid \in Seq(Requests) /\ Len(clientSaid) = 0
        /\ serverSaid \in Seq(ServerSays) /\ Len(serverSaid) = 0
        /\ serverScopes \in Seq(Named)
    BY <1>1
  <2>2. listeners \in [Scopes -> Nat]
    BY <1>1
  <2>3. DOMAIN attached \subseteq Nat /\ attached \in [DOMAIN attached -> Scopes]
    BY <1>2
  <2>4. nextMessageIndex - 1 = 0 /\ clientNextIndex - 1 = 0
    BY <1>1
  <2>5. callbacks \subseteq DOMAIN clientSaid /\ deciding \subseteq DOMAIN clientSaid
        /\ stating \subseteq DOMAIN clientSaid /\ queuedTwice \in BOOLEAN
    BY <1>1
  <2>6. QED
    BY <2>1, <2>2, <2>3, <2>4, <2>5 DEF RepliesTypeOK
<1>4. AnsweredOnce /\ CallbacksFollowSession /\ RepliedFirst /\ ChangesFindTheirScope
  BY <1>1, <1>2 DEF AnsweredOnce, CallbacksFollowSession, RepliedFirst,
     ChangesFindTheirScope
<1>5. ScopesAgree
  BY <1>1, <1>2 DEF ScopesAgree
<1>6. ASSUME NEW s \in Scopes PROVE listeners[s] <= Cardinality(Attaching(s))
  <2>1. Attaching(s) = {}
    BY <1>2 DEF Attaching, Accepting
  <2>2. QED
    BY <1>1, <2>1, FS_EmptySet
<1>7. QED
  BY <1>3, <1>4, <1>5, <1>6 DEF RepliesInv

\* What Channel does by itself leaves it alone.
LEMMA RepliesUnmoved ==
    ASSUME RepliesInv,
           UNCHANGED <<nextMessageIndex, clientNextIndex, serverIndex, clientIndex,
                       explicitlyClosed>>,
           UNCHANGED <<requestVars, answerVars, queuedTwice>>
    PROVE  RepliesInv'
<1>1. UNCHANGED <<clientSaid, callbacks, attached, listeners, serverSaid, deciding,
                  stating, serverScopes, queuedTwice>>
  BY DEF requestVars, answerVars
<1>2. RepliesTypeOK'
  BY <1>1 DEF RepliesInv, RepliesTypeOK
<1>3. AnsweredOnce' /\ CallbacksFollowSession'
  BY <1>1 DEF RepliesInv, AnsweredOnce, CallbacksFollowSession
<1>4. RepliedFirst' /\ ScopesAgree' /\ ChangesFindTheirScope'
  BY <1>1 DEF RepliesInv, RepliedFirst, Accepts, IndexOfName, ScopesAgree,
     ChangesFindTheirScope
<1>5. \A s \in Scopes : Attaching(s)' = Attaching(s)
  BY <1>1 DEF Attaching, Accepting
<1>6. (\A s \in Scopes : listeners[s] <= Cardinality(Attaching(s)))'
  BY <1>1, <1>5 DEF RepliesInv
<1>7. QED
  BY <1>2, <1>3, <1>4, <1>6 DEF RepliesInv

\* A request: a message no one has answered, with a callback.
LEMMA RequestInv ==
    ASSUME IInv, RepliesInv, NEW r \in Requests, Request(r),
           UNCHANGED <<attached, listeners, answerVars>>, queuedTwice' \in BOOLEAN,
           r.type = "change" =>
               /\ r.scopeIndex \in DOMAIN serverScopes
               /\ serverScopes[r.scopeIndex] = Name[r.scope]
    PROVE  RepliesInv'
<1> DEFINE n == clientNextIndex
<1>1. /\ clientSaid' = Append(clientSaid, r)
      /\ callbacks' = callbacks \cup {n} /\ n' = n + 1
      /\ UNCHANGED <<nextMessageIndex, serverIndex, clientIndex, explicitlyClosed>>
      /\ UNCHANGED <<attached, listeners, serverSaid, deciding, stating, serverScopes>>
  BY ClientSendsIndices DEF Request, answerVars
<1>2. RepliesTypeOK /\ AnsweredOnce /\ CallbacksFollowSession /\ RepliedFirst
      /\ ScopesAgree /\ ChangesFindTheirScope
  BY DEF RepliesInv
<1>3. n \in Nat /\ DOMAIN clientSaid = 1..(n - 1) /\ clientIndex < n /\ n >= 1
      /\ clientIndex \in Nat /\ clientSaid \in Seq(Requests) /\ Len(clientSaid) = n - 1
  BY <1>2, Indices, Said DEF RepliesTypeOK
<1>4. /\ clientSaid' \in Seq(Requests) /\ Len(clientSaid') = n
      /\ DOMAIN clientSaid' = 1..n /\ clientSaid'[n] = r
      /\ \A k \in 1..(n - 1) : clientSaid'[k] = clientSaid[k]
  BY <1>1, <1>3, Appended
<1>5. callbacks \subseteq 1..(n - 1) /\ deciding \subseteq 1..(n - 1)
      /\ stating \subseteq 1..(n - 1)
  BY <1>2, <1>3 DEF RepliesTypeOK
<1>6. \A i \in DOMAIN serverSaid :
          serverSaid[i].type \in Answers => serverSaid[i].replyTo \in 1..(n - 1)
  BY <1>2, <1>3 DEF AnsweredOnce
<1>7. RepliesTypeOK'
  BY <1>1, <1>2, <1>3, <1>4, <1>5 DEF RepliesTypeOK
<1>8. AnsweredOnce'
  BY <1>1, <1>2, <1>3, <1>4, <1>6 DEF AnsweredOnce
<1>9. CallbacksFollowSession'
  BY <1>1, <1>2, <1>3, <1>6 DEF CallbacksFollowSession
<1>10. RepliedFirst'
  BY <1>1, <1>2 DEF RepliedFirst, Accepts, IndexOfName
<1>11. "fetchReply" \in Answers
  BY DEF Answers
<1>12. ScopesAgree'
  BY <1>1, <1>2, <1>3, <1>4, <1>6, <1>11 DEF ScopesAgree
<1>13. ChangesFindTheirScope'
  BY <1>1, <1>2, <1>3, <1>4 DEF ChangesFindTheirScope
<1>14. ASSUME NEW s \in Scopes PROVE Attaching(s)' = Attaching(s)
  BY <1>1, <1>3, <1>4, <1>6, <1>11 DEF Attaching, Accepting
<1>15. (\A s \in Scopes : listeners[s] <= Cardinality(Attaching(s)))'
  BY <1>1, <1>14 DEF RepliesInv
<1>16. QED
  BY <1>7, <1>8, <1>9, <1>10, <1>12, <1>13, <1>15 DEF RepliesInv

\* What the server's session says next, whatever it is: its only answer to a
\* message it has taken, the acceptance that names a scope, or what comes after.
LEMMA SaysInv ==
    ASSUME IInv, RepliesInv, NEW said \in ServerSays, Says(said),
           UNCHANGED <<requestVars, queuedTwice>>,
           deciding' \subseteq deciding, stating' \subseteq DOMAIN clientSaid,
           said.type \in Answers => said.replyTo \in deciding \ deciding',
           serverScopes' \in Seq(Named),
           \A k \in DOMAIN serverScopes :
               k \in DOMAIN serverScopes' /\ serverScopes'[k] = serverScopes[k],
           said.type = "fetchReply" =>
               /\ said.scopeIndex \in DOMAIN serverScopes'
               /\ serverScopes'[said.scopeIndex] = Name[clientSaid[said.replyTo].scope],
           said.type \in {"state", "sync"} =>
               \E j \in DOMAIN serverSaid : Accepts(j, said.scopeIndex),
           \A k \in DOMAIN serverScopes' :
               IndexOfName(serverScopes', serverScopes'[k], k) =>
                   \/ \E j \in DOMAIN serverSaid : Accepts(j, k)
                   \/ said.type = "fetchReply" /\ said.scopeIndex = k
    PROVE  RepliesInv'
<1> PICK n : n = nextMessageIndex
  OBVIOUS
<1>1. /\ serverSaid' = Append(serverSaid, said) /\ nextMessageIndex' = n + 1
      /\ UNCHANGED <<clientNextIndex, serverIndex, clientIndex, explicitlyClosed>>
      /\ UNCHANGED <<clientSaid, callbacks, attached, listeners>>
  BY ServerSendsIndices DEF Says, requestVars
<1>2. RepliesTypeOK /\ AnsweredOnce /\ CallbacksFollowSession /\ RepliedFirst
      /\ ScopesAgree /\ ChangesFindTheirScope
  BY DEF RepliesInv
<1>3. /\ n \in Nat /\ serverIndex \in Nat /\ serverIndex < n /\ n >= 1
      /\ DOMAIN serverSaid = 1..(n - 1) /\ serverSaid \in Seq(ServerSays)
      /\ Len(serverSaid) = n - 1
  BY <1>2, Indices, Said DEF RepliesTypeOK
<1>4. /\ serverSaid' \in Seq(ServerSays) /\ Len(serverSaid') = n
      /\ DOMAIN serverSaid' = 1..n /\ serverSaid'[n] = said
      /\ \A k \in 1..(n - 1) : serverSaid'[k] = serverSaid[k]
  BY <1>1, <1>3, Appended
<1>5. deciding \subseteq DOMAIN clientSaid
  BY <1>2 DEF RepliesTypeOK
<1>6. RepliesTypeOK'
  <2>1. /\ clientSaid \in Seq(Requests) /\ Len(clientSaid) = clientNextIndex - 1
        /\ callbacks \subseteq DOMAIN clientSaid
        /\ DOMAIN attached \subseteq Nat /\ attached \in [DOMAIN attached -> Scopes]
        /\ listeners \in [Scopes -> Nat] /\ queuedTwice \in BOOLEAN
    BY <1>2 DEF RepliesTypeOK
  <2>2. Len(serverSaid') = nextMessageIndex' - 1
    BY <1>1, <1>3, <1>4
  <2>3. deciding' \subseteq DOMAIN clientSaid
    BY <1>5
  <2>4. UNCHANGED <<clientSaid, clientNextIndex, callbacks, attached, listeners, queuedTwice>>
    BY <1>1
  <2>5. QED
    BY <1>4, <2>1, <2>2, <2>3, <2>4 DEF RepliesTypeOK
<1>7. deciding \subseteq callbacks
  BY <1>2, <1>5 DEF AnsweredOnce
<1>8. AnsweredOnce'
  <2>1. ASSUME NEW i \in 1..n, serverSaid'[i].type \in Answers
        PROVE  /\ serverSaid'[i].replyTo \in DOMAIN clientSaid \ deciding'
               /\ serverSaid'[i].replyTo <= clientIndex
    <3>1. CASE i = n
      <4>1. said.replyTo \in deciding \ deciding'
        BY <1>4, <2>1, <3>1
      <4>2. said.replyTo <= clientIndex
        BY <1>2, <4>1 DEF AnsweredOnce
      <4>3. QED
        BY <1>4, <1>5, <3>1, <4>1, <4>2
    <3>2. CASE i # n
      <4>1. i \in 1..(n - 1) /\ serverSaid'[i] = serverSaid[i]
        BY <1>3, <1>4, <3>2
      <4>2. /\ serverSaid[i].replyTo \in DOMAIN clientSaid \ deciding
            /\ serverSaid[i].replyTo <= clientIndex
        BY <1>2, <1>3, <2>1, <4>1 DEF AnsweredOnce
      <4>3. QED
        BY <4>1, <4>2
    <3>3. QED
      BY <3>1, <3>2
  <2>2. ASSUME NEW i \in 1..(n - 1), serverSaid[i].type \in Answers,
               said.type \in Answers
        PROVE  serverSaid[i].replyTo # said.replyTo
    BY <1>2, <1>3, <2>2 DEF AnsweredOnce
  <2>3. ASSUME NEW i \in 1..n, NEW j \in 1..n,
               serverSaid'[i].type \in Answers, serverSaid'[j].type \in Answers,
               serverSaid'[i].replyTo = serverSaid'[j].replyTo
        PROVE  i = j
    <3>1. CASE i = n
      <4>1. CASE j = n
        BY <3>1, <4>1
      <4>2. CASE j # n
        <5>1. j \in 1..(n - 1)
          BY <1>3, <4>2
        <5>2. QED
          BY <1>4, <2>2, <2>3, <3>1, <5>1
      <4>3. QED
        BY <4>1, <4>2
    <3>2. CASE i # n
      <4>1. i \in 1..(n - 1)
        BY <1>3, <3>2
      <4>2. CASE j = n
        BY <1>4, <2>2, <2>3, <4>1, <4>2
      <4>3. CASE j # n
        <5>1. j \in 1..(n - 1)
          BY <1>3, <4>3
        <5>2. QED
          BY <1>2, <1>3, <1>4, <2>3, <4>1, <5>1 DEF AnsweredOnce
      <4>4. QED
        BY <4>2, <4>3
    <3>3. QED
      BY <3>1, <3>2
  <2>4. ASSUME NEW r \in DOMAIN clientSaid \ callbacks
        PROVE  \E i \in 1..n : serverSaid'[i].type \in Answers /\ serverSaid'[i].replyTo = r
    <3>1. PICK i \in 1..(n - 1) : serverSaid[i].type \in Answers /\ serverSaid[i].replyTo = r
      BY <1>2, <1>3, <2>4 DEF AnsweredOnce
    <3>2. i \in 1..n /\ serverSaid'[i] = serverSaid[i]
      BY <1>3, <1>4
    <3>3. QED
      BY <3>1, <3>2
  <2>5. \A r \in deciding' : r <= clientIndex
    BY <1>2 DEF AnsweredOnce
  <2>6. DOMAIN serverSaid' = 1..n
    BY <1>4
  <2>7. UNCHANGED <<clientSaid, callbacks, clientIndex>>
    BY <1>1
  <2>8. QED
    BY <2>1, <2>3, <2>4, <2>5, <2>6, <2>7 DEF AnsweredOnce
<1>9. CallbacksFollowSession'
  <2>1. ASSUME NEW i \in 1..n, serverSaid'[i].type \in Answers
        PROVE  /\ i <= serverIndex => serverSaid'[i].replyTo \notin callbacks
               /\ serverSaid'[i].replyTo \notin callbacks
                      => i <= serverIndex \/ explicitlyClosed
    <3>1. CASE i = n
      BY <1>3, <1>4, <1>7, <2>1, <3>1
    <3>2. CASE i # n
      <4>1. i \in 1..(n - 1)
        BY <1>3, <3>2
      <4>2. QED
        BY <1>2, <1>3, <1>4, <2>1, <4>1 DEF CallbacksFollowSession
    <3>3. QED
      BY <3>1, <3>2
  <2>2. QED
    BY <1>1, <1>4, <2>1 DEF CallbacksFollowSession
<1>11. RepliedFirst'
  <2>1. ASSUME NEW i \in 1..n, serverSaid'[i].type \in {"state", "sync"}
        PROVE  \E j \in 1..(i - 1) :
                   /\ serverSaid'[j].type = "fetchReply"
                   /\ serverSaid'[j].scopeIndex = serverSaid'[i].scopeIndex
    <3>1. CASE i = n
      <4>1. PICK j \in 1..(n - 1) : Accepts(j, said.scopeIndex)
        BY <1>3, <1>4, <2>1, <3>1
      <4>2. Accepts(j, said.scopeIndex)'
        BY <1>4, <4>1 DEF Accepts
      <4>3. QED
        BY <1>4, <3>1, <4>2 DEF Accepts
    <3>2. CASE i # n
      <4>1. i \in 1..(n - 1) /\ serverSaid'[i] = serverSaid[i]
        BY <1>3, <1>4, <3>2
      <4>2. PICK j \in 1..(i - 1) : Accepts(j, serverSaid[i].scopeIndex)
        BY <1>2, <1>3, <2>1, <4>1 DEF RepliedFirst
      <4>3. j \in 1..(n - 1)
        BY <1>3, <4>1
      <4>4. QED
        BY <1>4, <4>1, <4>2, <4>3 DEF Accepts
    <3>3. QED
      BY <3>1, <3>2
  <2>2. ASSUME NEW k \in DOMAIN serverScopes',
               IndexOfName(serverScopes', serverScopes'[k], k)
        PROVE  \E j \in 1..n : Accepts(j, k)'
    <3>1. CASE \E j \in DOMAIN serverSaid : Accepts(j, k)
      <4>1. PICK j \in 1..(n - 1) : Accepts(j, k)
        BY <1>3, <3>1
      <4>2. j \in 1..n /\ Accepts(j, k)'
        BY <1>3, <1>4, <4>1 DEF Accepts
      <4>3. QED
        BY <4>2
    <3>2. CASE said.type = "fetchReply" /\ said.scopeIndex = k
      <4>1. n \in 1..n /\ Accepts(n, k)'
        BY <1>3, <1>4, <3>2 DEF Accepts
      <4>2. QED
        BY <4>1
    <3>3. QED
      BY <2>2, <3>1, <3>2
  <2>3. QED
    BY <1>4, <2>1, <2>2 DEF RepliedFirst, IndexOfName, Accepts
<1>12. "fetchReply" \in Answers
  BY DEF Answers
<1>13. ScopesAgree'
  <2>1. ASSUME NEW i \in 1..n, serverSaid'[i].type = "fetchReply"
        PROVE  /\ serverSaid'[i].scopeIndex \in DOMAIN serverScopes'
               /\ serverScopes'[serverSaid'[i].scopeIndex]
                      = Name[clientSaid[serverSaid'[i].replyTo].scope]
               /\ \/ serverSaid'[i].replyTo \in callbacks
                  \/ serverSaid'[i].scopeIndex \in DOMAIN attached
    <3>1. CASE i = n
      BY <1>4, <1>7, <1>12, <2>1, <3>1
    <3>2. CASE i # n
      <4>1. i \in 1..(n - 1) /\ serverSaid'[i] = serverSaid[i]
        BY <1>3, <1>4, <3>2
      <4>2. QED
        BY <1>2, <1>3, <2>1, <4>1 DEF ScopesAgree
    <3>3. QED
      BY <3>1, <3>2
  <2>2. ASSUME NEW k \in DOMAIN attached
        PROVE  k \in DOMAIN serverScopes' /\ serverScopes'[k] = Name[attached[k]]
    BY <1>2, <2>2 DEF ScopesAgree
  <2>3. QED
    BY <1>1, <1>2, <1>4, <2>1, <2>2 DEF ScopesAgree
<1>14. ChangesFindTheirScope'
  BY <1>1, <1>2 DEF ChangesFindTheirScope
<1>15. ASSUME NEW s \in Scopes PROVE Attaching(s)' = Attaching(s)
  <2>1. ASSUME NEW i \in 1..n, said.type = "fetchReply" => i # n
        PROVE  i \in Attaching(s)' <=> i \in Attaching(s)
    <3>1. CASE i = n
      BY <1>3, <1>4, <2>1, <3>1 DEF Attaching, Accepting
    <3>2. CASE i # n
      <4>1. i \in 1..(n - 1) /\ serverSaid'[i] = serverSaid[i]
        BY <1>3, <1>4, <3>2
      <4>2. QED
        BY <1>1, <1>3, <1>4, <4>1 DEF Attaching, Accepting
    <3>3. QED
      BY <3>1, <3>2
  <2>2. said.type = "fetchReply" => n \notin Attaching(s)' /\ n \notin Attaching(s)
    BY <1>1, <1>3, <1>4, <1>7, <1>12 DEF Attaching, Accepting
  <2>3. Attaching(s) \subseteq 1..n /\ Attaching(s)' \subseteq 1..n
    BY <1>3, <1>4 DEF Attaching, Accepting
  <2>4. \A i \in 1..n : i \in Attaching(s)' <=> i \in Attaching(s)
    BY <2>1, <2>2
  <2>5. \A A, B : A \subseteq 1..n /\ B \subseteq 1..n /\ (\A i \in 1..n : i \in A <=> i \in B)
                      => A = B
    OBVIOUS
  <2>6. QED
    BY <2>3, <2>4, <2>5, Zenon
<1>16. (\A s \in Scopes : listeners[s] <= Cardinality(Attaching(s)))'
  BY <1>1, <1>15 DEF RepliesInv
<1>17. QED
  BY <1>6, <1>8, <1>9, <1>11, <1>13, <1>14, <1>16 DEF RepliesInv

\* The server's session takes a message: no one has answered it, for what has
\* been answered is not beyond the index of the last it took.
LEMMA TakeRequestInv ==
    ASSUME IInv, RepliesInv, NEW s \in Sockets, TakeRequest(s)
    PROVE  RepliesInv'
<1>1. /\ UNCHANGED <<nextMessageIndex, clientNextIndex, serverIndex, explicitlyClosed>>
      /\ UNCHANGED <<clientSaid, callbacks, attached, listeners>>
      /\ UNCHANGED <<serverSaid, stating, serverScopes, queuedTwice>>
      /\ deciding' = deciding \cup (IF clientIndex' > clientIndex THEN {clientIndex'} ELSE {})
      /\ clientIndex' \in Nat /\ clientIndex \in Nat /\ clientIndex <= clientIndex'
      /\ clientIndex' < clientNextIndex /\ clientNextIndex \in Nat
  BY ServerReceivesIndices, Indices DEF TakeRequest, requestVars
<1>2. RepliesTypeOK /\ AnsweredOnce /\ CallbacksFollowSession /\ RepliedFirst
      /\ ScopesAgree /\ ChangesFindTheirScope
  BY DEF RepliesInv
<1>3. DOMAIN clientSaid = 1..(clientNextIndex - 1)
  BY <1>2, Said
<1>4. clientIndex' > clientIndex => clientIndex' \in DOMAIN clientSaid
  BY <1>1, <1>3
<1>5. RepliesTypeOK'
  BY <1>1, <1>2, <1>4 DEF RepliesTypeOK
<1>6. AnsweredOnce'
  <2>1. ASSUME NEW i \in DOMAIN serverSaid, serverSaid[i].type \in Answers
        PROVE  /\ serverSaid[i].replyTo \in DOMAIN clientSaid \ deciding'
               /\ serverSaid[i].replyTo <= clientIndex'
    <3>1. serverSaid[i].replyTo \in DOMAIN clientSaid \ deciding
          /\ serverSaid[i].replyTo <= clientIndex
      BY <1>2, <2>1 DEF AnsweredOnce
    <3>2. serverSaid[i].replyTo \in Nat
      BY <1>1, <1>3, <3>1
    <3>3. QED
      BY <1>1, <3>1, <3>2
  <2>2. ASSUME NEW r \in deciding' PROVE r <= clientIndex'
    <3>1. CASE r \in deciding
      <4>1. r <= clientIndex /\ r \in DOMAIN clientSaid
        BY <1>2, <3>1 DEF AnsweredOnce, RepliesTypeOK
      <4>2. QED
        BY <1>1, <1>3, <4>1
    <3>2. CASE r \notin deciding
      BY <1>1, <3>2
    <3>3. QED
      BY <3>1, <3>2
  <2>3. QED
    BY <1>1, <1>2, <2>1, <2>2 DEF AnsweredOnce
<1>7. CallbacksFollowSession'
  BY <1>1, <1>2 DEF CallbacksFollowSession
<1>8. RepliedFirst' /\ ScopesAgree' /\ ChangesFindTheirScope'
  BY <1>1, <1>2 DEF RepliedFirst, Accepts, IndexOfName, ScopesAgree,
     ChangesFindTheirScope
<1>9. \A t \in Scopes : Attaching(t)' = Attaching(t)
  BY <1>1 DEF Attaching, Accepting
<1>10. (\A t \in Scopes : listeners[t] <= Cardinality(Attaching(t)))'
  BY <1>1, <1>9 DEF RepliesInv
<1>11. QED
  BY <1>5, <1>6, <1>7, <1>8, <1>10 DEF RepliesInv

\* A reply without a callback changes nothing: it has come before.
LEMMA NoCallbackInv ==
    ASSUME IInv, RepliesInv, Receive, ~HasCallback(Head(toClient)),
           UNCHANGED <<callbacks, attached, listeners>>
    PROVE  RepliesInv'
<1> PICK m : m = Head(toClient)
  OBVIOUS
<1>1. /\ UNCHANGED <<nextMessageIndex, clientNextIndex, clientIndex>>
      /\ UNCHANGED <<clientSaid, callbacks, attached, listeners, serverSaid, deciding,
                     stating, serverScopes, queuedTwice>>
      /\ m.index \in Nat /\ m.index < nextMessageIndex
      /\ serverIndex \in Nat /\ nextMessageIndex \in Nat
      /\ \/ UNCHANGED <<serverIndex, explicitlyClosed>>
         \/ /\ ~IsPing(m) /\ m.index = serverIndex + 1
            /\ serverIndex' = m.index /\ UNCHANGED explicitlyClosed
         \/ /\ ~IsPing(m) /\ UNCHANGED serverIndex /\ explicitlyClosed' = TRUE
  BY ClientReceivesIndices, Indices DEF Receive, answerVars
<1>2. RepliesTypeOK /\ AnsweredOnce /\ CallbacksFollowSession /\ RepliedFirst
      /\ ScopesAgree /\ ChangesFindTheirScope
  BY DEF RepliesInv
<1>3. /\ DOMAIN serverSaid = 1..(nextMessageIndex - 1)
  BY <1>2, Said
<1>4. RepliesTypeOK' /\ AnsweredOnce'
  BY <1>1, <1>2 DEF RepliesTypeOK, AnsweredOnce
<1>5. CallbacksFollowSession'
  <2>1. ASSUME NEW i \in DOMAIN serverSaid, serverSaid[i].type \in Answers
        PROVE  /\ i <= serverIndex' => serverSaid[i].replyTo \notin callbacks
               /\ serverSaid[i].replyTo \notin callbacks
                      => i <= serverIndex' \/ explicitlyClosed'
    <3>1. /\ i <= serverIndex => serverSaid[i].replyTo \notin callbacks
          /\ serverSaid[i].replyTo \notin callbacks => i <= serverIndex \/ explicitlyClosed
      BY <1>2, <2>1 DEF CallbacksFollowSession
    <3>2. CASE UNCHANGED <<serverIndex, explicitlyClosed>>
      BY <3>1, <3>2
    <3>3. CASE /\ ~IsPing(m) /\ m.index = serverIndex + 1
               /\ serverIndex' = m.index /\ UNCHANGED explicitlyClosed
      <4>1. i = m.index => serverSaid[i].replyTo \notin callbacks
        BY <2>1, <3>3 DEF HasCallback
      <4>2. i \in Nat
        BY <1>1, <1>3
      <4>3. QED
        BY <1>1, <3>1, <3>3, <4>1, <4>2
    <3>4. CASE UNCHANGED serverIndex /\ explicitlyClosed' = TRUE
      BY <3>1, <3>4
    <3>5. QED
      BY <1>1, <3>2, <3>3, <3>4
  <2>2. QED
    BY <1>1, <2>1 DEF CallbacksFollowSession
<1>6. RepliedFirst' /\ ScopesAgree' /\ ChangesFindTheirScope'
  BY <1>1, <1>2 DEF RepliedFirst, Accepts, IndexOfName, ScopesAgree,
     ChangesFindTheirScope
<1>7. \A t \in Scopes : Attaching(t)' = Attaching(t)
  BY <1>1 DEF Attaching, Accepting
<1>8. (\A t \in Scopes : listeners[t] <= Cardinality(Attaching(t)))'
  BY <1>1, <1>7 DEF RepliesInv
<1>9. QED
  BY <1>4, <1>5, <1>6, <1>8 DEF RepliesInv

\* A reply with a callback is one the session has yet to take: the next one,
\* or one beyond a gap, over which the session is given up.
LEMMA CallbackInv ==
    ASSUME IInv, RepliesInv, Receive, HasCallback(Head(toClient)),
           OnReplyMessage(serverSaid[Head(toClient).index])
    PROVE  RepliesInv'
<1> PICK m : m = Head(toClient)
  OBVIOUS
<1> PICK n : n = m.index
  OBVIOUS
<1> PICK said : said = serverSaid[n]
  OBVIOUS
<1> PICK r : r = said.replyTo
  OBVIOUS
<1> PICK s : s = clientSaid[r].scope
  OBVIOUS
<1>1. /\ UNCHANGED <<nextMessageIndex, clientNextIndex, clientIndex>>
      /\ UNCHANGED <<clientSaid, serverSaid, deciding, stating, serverScopes, queuedTwice>>
      /\ n \in Nat /\ n < nextMessageIndex
      /\ serverIndex \in Nat /\ nextMessageIndex \in Nat /\ clientNextIndex \in Nat
      /\ \/ /\ IsPing(m) \/ n <= serverIndex
            /\ UNCHANGED <<serverIndex, explicitlyClosed>>
         \/ /\ n = serverIndex + 1 /\ serverIndex' = n /\ UNCHANGED explicitlyClosed
         \/ UNCHANGED serverIndex /\ explicitlyClosed' = TRUE
  BY ClientReceivesIndices, Indices DEF Receive, answerVars
<1>2. RepliesTypeOK /\ AnsweredOnce /\ CallbacksFollowSession /\ RepliedFirst
      /\ ScopesAgree /\ ChangesFindTheirScope
  BY DEF RepliesInv
<1>3. DOMAIN serverSaid = 1..(nextMessageIndex - 1)
      /\ DOMAIN clientSaid = 1..(clientNextIndex - 1)
      /\ (\A i \in DOMAIN serverSaid : serverSaid[i] \in ServerSays)
      /\ (\A i \in DOMAIN clientSaid : clientSaid[i] \in Requests)
  BY <1>2, Said
<1>4. /\ ~IsPing(m) /\ said.type \in Answers /\ r \in callbacks
      /\ callbacks' = callbacks \ {r}
      /\ \/ said.type = "fetchReply" /\ OnScopeAttach(s, said.scopeIndex)
         \/ said.type # "fetchReply" /\ UNCHANGED <<attached, listeners>>
  BY DEF HasCallback, OnReplyMessage
<1>5. n \in DOMAIN serverSaid /\ said \in ServerSays /\ r \in DOMAIN clientSaid
      /\ s \in Scopes /\ said.scopeIndex \in Nat
  <2>1. n \in DOMAIN serverSaid
    <3>1. n # 0
      BY <1>4 DEF IsPing
    <3>2. QED
      BY <1>1, <1>3, <3>1
  <2>2. said \in ServerSays
    BY <1>3, <2>1
  <2>3. r \in DOMAIN clientSaid
    BY <1>2, <1>4 DEF RepliesTypeOK
  <2>4. clientSaid[r] \in Requests
    BY <1>3, <2>3
  <2>5. QED
    BY <2>1, <2>2, <2>3, <2>4 DEF ServerSays, Requests
<1>6. ~(n <= serverIndex)
  BY <1>2, <1>4, <1>5 DEF CallbacksFollowSession
<1>7. \/ /\ n = serverIndex + 1 /\ serverIndex' = n /\ UNCHANGED explicitlyClosed
      \/ UNCHANGED serverIndex /\ explicitlyClosed' = TRUE
  BY <1>1, <1>4, <1>6
<1>8. \A i \in DOMAIN serverSaid :
          serverSaid[i].type \in Answers /\ serverSaid[i].replyTo = r => i = n
  BY <1>2, <1>4, <1>5 DEF AnsweredOnce
<1>9. "fetchReply" \in Answers
  BY DEF Answers
<1>10. ASSUME said.type = "fetchReply"
       PROVE  /\ said.scopeIndex \in DOMAIN serverScopes
              /\ serverScopes[said.scopeIndex] = Name[s]
              /\ listeners' = [listeners EXCEPT ![s] = @ + 1]
              /\ DOMAIN attached' = DOMAIN attached \cup {said.scopeIndex}
              /\ \A j \in DOMAIN attached' :
                     attached'[j] = IF j = said.scopeIndex THEN s ELSE attached[j]
  <2>1. OnScopeAttach(s, said.scopeIndex)
    BY <1>4, <1>10
  <2>2. said.scopeIndex \in DOMAIN serverScopes
        /\ serverScopes[said.scopeIndex] = Name[s]
    BY <1>2, <1>5, <1>10 DEF ScopesAgree
  <2>3. QED
    BY <2>1, <2>2 DEF OnScopeAttach
<1>11. RepliesTypeOK'
  <2>1. DOMAIN attached' \subseteq Nat /\ attached' \in [DOMAIN attached' -> Scopes]
        /\ listeners' \in [Scopes -> Nat]
    <3>1. CASE said.type = "fetchReply"
      <4>1. attached' = [j \in DOMAIN attached \cup {said.scopeIndex} |->
                            IF j = said.scopeIndex THEN s ELSE attached[j]]
        BY <1>4, <3>1 DEF OnScopeAttach
      <4>2. /\ DOMAIN attached \subseteq Nat /\ listeners \in [Scopes -> Nat]
            /\ \A j \in DOMAIN attached : attached[j] \in Scopes
        BY <1>2 DEF RepliesTypeOK
      <4>3. DOMAIN attached' \subseteq Nat /\ attached' \in [DOMAIN attached' -> Scopes]
        <5>1. DOMAIN attached' = DOMAIN attached \cup {said.scopeIndex}
          BY <1>10, <3>1
        <5>2. DOMAIN attached' \subseteq Nat
          BY <1>5, <4>2, <5>1
        <5>3. \A j \in DOMAIN attached' :
                  attached'[j] = IF j = said.scopeIndex THEN s ELSE attached[j]
          BY <1>10, <3>1
        <5>4. \A j \in DOMAIN attached' : attached'[j] \in Scopes
          BY <1>5, <4>2, <5>1, <5>3
        <5>5. attached' = [j \in DOMAIN attached' |-> attached'[j]]
          BY <4>1
        <5>6. QED
          BY <5>2, <5>4, <5>5
      <4>4. listeners' \in [Scopes -> Nat]
        <5>1. listeners' = [listeners EXCEPT ![s] = @ + 1]
          BY <1>10, <3>1
        <5>2. QED
          BY <1>5, <4>2, <5>1
      <4>5. QED
        BY <4>3, <4>4
    <3>2. CASE said.type # "fetchReply"
      BY <1>2, <1>4, <3>2 DEF RepliesTypeOK
    <3>3. QED
      BY <3>1, <3>2
  <2>2. QED
    BY <1>1, <1>2, <1>4, <2>1 DEF RepliesTypeOK
<1>12. AnsweredOnce'
  <2>1. ASSUME NEW q \in DOMAIN clientSaid \ callbacks'
        PROVE  \E i \in DOMAIN serverSaid :
                   serverSaid[i].type \in Answers /\ serverSaid[i].replyTo = q
    BY <1>2, <1>4, <1>5, <2>1 DEF AnsweredOnce
  <2>2. QED
    BY <1>1, <1>2, <2>1 DEF AnsweredOnce
<1>13. CallbacksFollowSession'
  <2>1. ASSUME NEW i \in DOMAIN serverSaid, serverSaid[i].type \in Answers
        PROVE  /\ i <= serverIndex' => serverSaid[i].replyTo \notin callbacks'
               /\ serverSaid[i].replyTo \notin callbacks'
                      => i <= serverIndex' \/ explicitlyClosed'
    <3>1. CASE i = n
      BY <1>1, <1>4, <1>7, <3>1
    <3>2. CASE i # n
      <4>1. serverSaid[i].replyTo # r
        BY <1>8, <2>1, <3>2
      <4>2. /\ i <= serverIndex => serverSaid[i].replyTo \notin callbacks
            /\ serverSaid[i].replyTo \notin callbacks => i <= serverIndex \/ explicitlyClosed
        BY <1>2, <2>1 DEF CallbacksFollowSession
      <4>3. i \in Nat
        BY <1>1, <1>3
      <4>4. i <= serverIndex' => i <= serverIndex
        BY <1>1, <1>7, <3>2, <4>3
      <4>5. i <= serverIndex \/ explicitlyClosed => i <= serverIndex' \/ explicitlyClosed'
        BY <1>1, <1>7, <4>3
      <4>6. QED
        BY <1>4, <4>1, <4>2, <4>4, <4>5
    <3>3. QED
      BY <3>1, <3>2
  <2>2. QED
    BY <1>1, <2>1 DEF CallbacksFollowSession
<1>14. RepliedFirst' /\ ChangesFindTheirScope'
  BY <1>1, <1>2 DEF RepliedFirst, Accepts, IndexOfName, ChangesFindTheirScope
<1>15. DOMAIN attached \subseteq DOMAIN attached'
  BY <1>4, <1>10
<1>16. ScopesAgree'
  <2>1. ASSUME NEW i \in DOMAIN serverSaid, serverSaid[i].type = "fetchReply"
        PROVE  \/ serverSaid[i].replyTo \in callbacks'
               \/ serverSaid[i].scopeIndex \in DOMAIN attached'
    <3>1. CASE i = n
      BY <1>10, <2>1, <3>1
    <3>2. CASE i # n
      <4>1. serverSaid[i].replyTo # r
        BY <1>8, <1>9, <2>1, <3>2
      <4>2. serverSaid[i].replyTo \in callbacks \/ serverSaid[i].scopeIndex \in DOMAIN attached
        BY <1>2, <2>1 DEF ScopesAgree
      <4>3. QED
        BY <1>4, <1>15, <4>1, <4>2
    <3>3. QED
      BY <3>1, <3>2
  <2>2. ASSUME NEW k \in DOMAIN attached'
        PROVE  k \in DOMAIN serverScopes /\ serverScopes[k] = Name[attached'[k]]
    <3>1. CASE said.type = "fetchReply" /\ k = said.scopeIndex
      BY <1>10, <2>2, <3>1
    <3>2. CASE ~(said.type = "fetchReply" /\ k = said.scopeIndex)
      <4>1. k \in DOMAIN attached /\ attached'[k] = attached[k]
        <5>1. CASE said.type = "fetchReply"
          <6>1. k # said.scopeIndex
            BY <3>2, <5>1
          <6>2. k \in DOMAIN attached
            BY <1>10, <2>2, <5>1, <6>1
          <6>3. QED
            BY <1>10, <2>2, <5>1, <6>1, <6>2
        <5>2. CASE said.type # "fetchReply"
          BY <1>4, <2>2, <5>2
        <5>3. QED
          BY <5>1, <5>2
      <4>2. QED
        BY <1>2, <4>1 DEF ScopesAgree
    <3>3. QED
      BY <3>1, <3>2
  <2>3. QED
    BY <1>1, <1>2, <2>1, <2>2 DEF ScopesAgree
<1>17. ASSUME NEW t \in Scopes PROVE listeners'[t] <= Cardinality(Attaching(t)')
  <2>1. listeners[t] \in Nat /\ listeners[t] <= Cardinality(Attaching(t))
    BY DEF RepliesInv, RepliesTypeOK
  <2>2. CASE said.type = "fetchReply" /\ t = s
    <3>1. ASSUME NEW i PROVE i \in Attaching(t)' <=> i \in Attaching(t) \cup {n}
      BY <1>1, <1>4, <1>5, <1>8, <1>9, <2>2 DEF Attaching, Accepting
    <3>2. Attaching(t)' = Attaching(t) \cup {n}
      BY <3>1
    <3>3. n \notin Attaching(t)
      BY <1>4 DEF Attaching
    <3>4. Attaching(t) \subseteq 1..(nextMessageIndex - 1)
      BY <1>3 DEF Attaching, Accepting
    <3>5. IsFiniteSet(Attaching(t))
      <4>1. IsFiniteSet(1..(nextMessageIndex - 1))
        <5>1. 1 \in Int /\ nextMessageIndex - 1 \in Int
          BY <1>1
        <5>2. QED
          BY <5>1, FS_Interval, Zenon
      <4>2. QED
        BY <3>4, <4>1, FS_Subset
    <3>6. Cardinality(Attaching(t)') = Cardinality(Attaching(t)) + 1
          /\ Cardinality(Attaching(t)) \in Nat
      BY <3>2, <3>3, <3>5, FS_AddElement, FS_CardinalityType
    <3>7. listeners'[t] = listeners[t] + 1
      BY <1>2, <1>10, <2>2 DEF RepliesTypeOK
    <3>8. QED
      BY <2>1, <3>6, <3>7
  <2>3. CASE ~(said.type = "fetchReply" /\ t = s)
    <3>1. ASSUME NEW i PROVE i \in Attaching(t)' <=> i \in Attaching(t)
      BY <1>1, <1>4, <1>5, <1>8, <1>9, <2>3 DEF Attaching, Accepting
    <3>2. Attaching(t)' = Attaching(t)
      BY <3>1
    <3>3. listeners'[t] = listeners[t]
      BY <1>2, <1>4, <1>10, <2>3 DEF RepliesTypeOK
    <3>4. QED
      BY <2>1, <3>2, <3>3
  <2>4. QED
    BY <2>2, <2>3
<1>18. QED
  BY <1>11, <1>12, <1>13, <1>14, <1>16, <1>17 DEF RepliesInv

LEMMA FetchInv ==
    ASSUME IInv, RepliesInv, NEW s \in Scopes, Fetch(s)
    PROVE  RepliesInv'
<1>1. FetchOf(s) \in Requests /\ FetchOf(s).type # "change"
  BY DEF FetchOf, Requests
<1>2. queuedTwice' \in BOOLEAN
  BY DEF Fetch, RepliesInv, RepliesTypeOK
<1>3. QED
  BY <1>1, <1>2, RequestInv DEF Fetch

\* The scope the client has at an index, the server has one of that name at.
LEMMA ChangeInv ==
    ASSUME IInv, RepliesInv, NEW s \in Scopes, Change(s)
    PROVE  RepliesInv'
<1>1. ScopesAgree /\ RepliesTypeOK
  BY DEF RepliesInv
<1>2. PICK k \in DOMAIN attached : IndexOfScope(s, k) /\ Request(ChangeOf(s, k))
  BY DEF Change
<1>3. ChangeOf(s, k) \in Requests /\ ChangeOf(s, k).scope = s
      /\ ChangeOf(s, k).scopeIndex = k
  BY <1>1, <1>2 DEF ChangeOf, Requests, RepliesTypeOK
<1>4. k \in DOMAIN serverScopes /\ serverScopes[k] = Name[s]
  BY <1>1, <1>2 DEF IndexOfScope, ScopesAgree
<1>5. queuedTwice' \in BOOLEAN /\ UNCHANGED <<attached, listeners, answerVars>>
  BY DEF Change
<1>6. QED
  BY <1>2, <1>3, <1>4, <1>5, RequestInv

\* What the server's session has a scope at was named in a reply.
LEMMA NamedBefore ==
    ASSUME RepliesInv, NEW k \in DOMAIN serverScopes, NEW x,
           IndexOfName(serverScopes, x, k)
    PROVE  \E j \in DOMAIN serverSaid : Accepts(j, k)
BY DEF RepliesInv, RepliedFirst, IndexOfName

LEMMA AcceptFetchInv ==
    ASSUME IInv, RepliesInv, NEW r \in deciding, AcceptFetch(r)
    PROVE  RepliesInv'
<1> PICK N : N = Name[clientSaid[r].scope]
  OBVIOUS
<1> PICK l : l = Len(serverScopes)
  OBVIOUS
<1>1. /\ RepliesTypeOK /\ r \in DOMAIN clientSaid /\ r \in Nat
      /\ clientSaid[r].scope \in Scopes
  <2>1. RepliesTypeOK
    BY DEF RepliesInv
  <2>2. r \in DOMAIN clientSaid
    BY <2>1 DEF RepliesTypeOK
  <2>3. r \in Nat /\ clientSaid[r] \in Requests
    BY <2>1, <2>2, Said, Indices
  <2>4. QED
    BY <2>1, <2>2, <2>3 DEF Requests
<1>2. /\ serverScopes' = Append(serverScopes, N)
      /\ deciding' = deciding \ {r} /\ stating' = stating \cup {r}
      /\ UNCHANGED <<requestVars, queuedTwice>>
  BY DEF AcceptFetch
<1>3. PICK k \in DOMAIN serverScopes' :
          IndexOfName(serverScopes', N, k) /\ Says(Say("fetchReply", r, k))
  BY DEF AcceptFetch
<1>4. /\ serverScopes' \in Seq(Named) /\ l \in Nat
      /\ DOMAIN serverScopes = 1..l /\ DOMAIN serverScopes' = 1..(l + 1)
      /\ serverScopes'[l + 1] = N
      /\ \A j \in 1..l : serverScopes'[j] = serverScopes[j]
  <2>1. N \in Named /\ serverScopes \in Seq(Named)
    BY <1>1 DEF Named, RepliesTypeOK
  <2>2. QED
    BY <1>2, <2>1, Appended
<1>5. Say("fetchReply", r, k) \in ServerSays
  BY <1>1, <1>4 DEF Say, ServerSays, Answers
<1>6. ASSUME NEW j \in DOMAIN serverScopes', IndexOfName(serverScopes', serverScopes'[j], j)
      PROVE  (\E i \in DOMAIN serverSaid : Accepts(i, j)) \/ k = j
  <2>1. CASE j = l + 1
    <3>1. \A i \in 1..(j - 1) : serverScopes'[i] # N
      BY <1>4, <1>6, <2>1 DEF IndexOfName
    <3>2. serverScopes'[k] = N
      BY <1>3 DEF IndexOfName
    <3>3. QED
      BY <1>4, <2>1, <3>1, <3>2
  <2>2. CASE j # l + 1
    <3>1. j \in 1..l
      BY <1>4, <2>2
    <3>2. IndexOfName(serverScopes, serverScopes[j], j)
      BY <1>4, <1>6, <3>1 DEF IndexOfName
    <3>3. QED
      BY <1>4, <3>1, <3>2, NamedBefore
  <2>3. QED
    BY <2>1, <2>2
<1>7. deciding' \subseteq deciding /\ stating' \subseteq DOMAIN clientSaid
      /\ r \in deciding \ deciding'
  BY <1>1, <1>2 DEF RepliesTypeOK
<1>8. serverScopes'[k] = N
  BY <1>3 DEF IndexOfName
<1>9. \A j \in DOMAIN serverScopes :
          j \in DOMAIN serverScopes' /\ serverScopes'[j] = serverScopes[j]
  BY <1>4
<1>10. QED
  <2> PICK said : said = Say("fetchReply", r, k)
    OBVIOUS
  <2>1. said.type = "fetchReply" /\ said.replyTo = r /\ said.scopeIndex = k
    BY DEF Say
  <2>2. said \in ServerSays /\ Says(said)
    BY <1>3, <1>5
  <2>3. \A j \in DOMAIN serverScopes' :
            IndexOfName(serverScopes', serverScopes'[j], j) =>
                \/ \E i \in DOMAIN serverSaid : Accepts(i, j)
                \/ said.type = "fetchReply" /\ said.scopeIndex = j
    BY <1>6, <2>1
  <2>4. QED
    BY <1>2, <1>3, <1>4, <1>7, <1>8, <1>9, <2>1, <2>2, <2>3, SaysInv

\* Whatever else is said, no scope is added.
LEMMA OtherwiseSaysInv ==
    ASSUME IInv, RepliesInv, NEW said \in ServerSays, Says(said),
           UNCHANGED <<requestVars, serverScopes, queuedTwice>>,
           deciding' \subseteq deciding, stating' \subseteq stating,
           said.type # "fetchReply",
           said.type \in Answers => said.replyTo \in deciding \ deciding',
           said.type \in {"state", "sync"} =>
               \E j \in DOMAIN serverSaid : Accepts(j, said.scopeIndex)
    PROVE  RepliesInv'
<1>1. serverScopes' \in Seq(Named) /\ stating' \subseteq DOMAIN clientSaid
  BY DEF RepliesInv, RepliesTypeOK
<1>2. \A k \in DOMAIN serverScopes' :
          IndexOfName(serverScopes', serverScopes'[k], k) =>
              \E j \in DOMAIN serverSaid : Accepts(j, k)
  BY NamedBefore
<1>3. QED
  BY <1>1, <1>2, SaysInv

LEMMA AnswersInv ==
    ASSUME IInv, RepliesInv, NEW r \in deciding, DenyFetch(r) \/ AnswerChange(r)
    PROVE  RepliesInv'
<1>1. r \in Nat
  BY Said, Indices DEF RepliesInv, RepliesTypeOK
<1>2. PICK said : /\ said \in {Say("fetchDenied", r, 0), Say("changeReply", r, 0)}
                  /\ Says(said)
  BY DEF DenyFetch, AnswerChange
<1>3. said \in ServerSays /\ said.type \in Answers /\ said.type # "fetchReply"
      /\ said.replyTo = r /\ said.type \notin {"state", "sync"}
  BY <1>1, <1>2 DEF Say, ServerSays, Answers
<1>4. /\ UNCHANGED <<requestVars, stating, serverScopes, queuedTwice>>
      /\ deciding' = deciding \ {r}
  BY DEF DenyFetch, AnswerChange
<1>5. QED
  BY <1>2, <1>3, <1>4, OtherwiseSaysInv

LEMMA NewsInv ==
    ASSUME IInv, RepliesInv, NEW k \in DOMAIN serverScopes, NEW x,
           IndexOfName(serverScopes, x, k),
           NEW said, said \in {Say("state", 0, k), Say("sync", 0, k)}, Says(said),
           UNCHANGED <<requestVars, deciding, serverScopes, queuedTwice>>,
           stating' \subseteq stating
    PROVE  RepliesInv'
<1>1. k \in Nat
  BY DEF RepliesInv, RepliesTypeOK
<1>2. said \in ServerSays /\ said.type \notin Answers /\ said.type # "fetchReply"
      /\ said.scopeIndex = k
  BY <1>1 DEF Say, ServerSays, Answers
<1>3. \E j \in DOMAIN serverSaid : Accepts(j, k)
  BY NamedBefore
<1>4. QED
  BY <1>2, <1>3, OtherwiseSaysInv

LEMMA NextReplies ==
    ASSUME IInv, RepliesInv, [RepliesNext]_repliesVars
    PROVE  RepliesInv'
<1>1. ASSUME NEW s \in Scopes, Fetch(s) \/ Change(s) PROVE RepliesInv'
  BY <1>1, FetchInv, ChangeInv
<1>2. CASE Receive
  BY <1>2, CallbackInv, NoCallbackInv DEF Receive
<1>3. ASSUME NEW s \in Sockets, TakeRequest(s) PROVE RepliesInv'
  BY <1>3, TakeRequestInv
<1>4. ASSUME NEW r \in deciding, AcceptFetch(r) \/ DenyFetch(r) \/ AnswerChange(r)
      PROVE  RepliesInv'
  BY <1>4, AcceptFetchInv, AnswersInv
<1>5. ASSUME NEW r \in stating, SendState(r) PROVE RepliesInv'
  <2>1. PICK k \in DOMAIN serverScopes :
            /\ IndexOfName(serverScopes, Name[clientSaid[r].scope], k)
            /\ Says(Say("state", 0, k))
    BY <1>5 DEF SendState
  <2>2. /\ UNCHANGED <<requestVars, deciding, serverScopes, queuedTwice>>
        /\ stating' \subseteq stating
    BY <1>5 DEF SendState
  <2>3. QED
    BY <2>1, <2>2, NewsInv
<1>6. ASSUME NEW k \in DOMAIN serverScopes, SendSync(k) PROVE RepliesInv'
  BY <1>6, NewsInv DEF SendSync
<1>7. CASE Transports
  BY <1>7, TransportsUnmoved, RepliesUnmoved
<1>8. CASE ReceiveDenial \/ UNCHANGED repliesVars
  <2>1. UNCHANGED <<nextMessageIndex, clientNextIndex, serverIndex, clientIndex,
                    explicitlyClosed>>
    BY <1>8 DEF ReceiveDenial, repliesVars, vars, serverVars, clientVars
  <2>2. UNCHANGED <<requestVars, answerVars, queuedTwice>>
    BY <1>8 DEF ReceiveDenial, repliesVars
  <2>3. QED
    BY <2>1, <2>2, RepliesUnmoved
<1>9. QED
  BY <1>1, <1>2, <1>3, <1>4, <1>5, <1>6, <1>7, <1>8 DEF RepliesNext

----------------------------------------------------------------------------
(* The theorems of Replies *)

\* As long as no denial of a fetch comes in, the transports below behave as
\* Channel has them, whatever the sessions say to each other: its theorems,
\* those of gaps and of the reliable link included, hold of Replies too.
THEOREM RepliesOnChannel == RepliesSpec /\ [][~ReceiveDenial]_repliesVars => Spec
<1>1. RepliesInit => Init
  BY DEF RepliesInit
<1>2. [RepliesNext]_repliesVars /\ [~ReceiveDenial]_repliesVars => [Next]_vars
  BY RepliesStep DEF repliesVars
<1>3. QED
  BY <1>1, <1>2, PTL DEF RepliesSpec, Spec

\* The inductive invariant of Channel holds in either case.
LEMMA RepliesIInv == RepliesSpec => []IInv
<1>1. RepliesInit => IInv
  BY InitIInv DEF RepliesInit
<1>2. IInv /\ [RepliesNext]_repliesVars => IInv'
  BY RepliesStep, DenialStep, NextIInv
<1>3. QED
  BY <1>1, <1>2, PTL DEF RepliesSpec

LEMMA RepliesInvariant == RepliesSpec => []RepliesInv
<1>1. RepliesSpec => []IInv
  BY RepliesIInv
<1>2. IInv /\ RepliesInv /\ [RepliesNext]_repliesVars => RepliesInv'
  BY NextReplies
<1>3. QED
  BY <1>1, <1>2, InitReplies, PTL DEF RepliesSpec

\* RepliesTypeOK holds of every run: session.fetch and the change sets of a
\* scope only ever send requests, both sessions only ever file scopes under
\* an index, and the server's session has yet to answer only what was sent.
THEOREM RepliesTypes == RepliesSpec => []RepliesTypeOK
<1>1. RepliesInv => RepliesTypeOK
  BY DEF RepliesInv
<1>2. QED
  BY <1>1, RepliesInvariant, PTL

\* transport._onReplyMessage runs the callback of a reply before the session
\* looks at its index, and still no reply the session has taken has its
\* callback left, and none it has not taken, while the session lives, has lost
\* it: however often messages are doubled and resent, each callback runs once.
THEOREM CallbacksInStep == RepliesSpec => []CallbacksFollowSession
<1>1. RepliesInv => CallbacksFollowSession
  BY DEF RepliesInv
<1>2. QED
  BY <1>1, RepliesInvariant, PTL

\* A state of a scope, or a change of another client, that the client's
\* session takes finds the scope at its index: the reply that named it came
\* before it, so was taken, so its callback has run.
THEOREM ScopesKnown == RepliesSpec => []AttachedWhenTaken
<1>1. ASSUME IInv, RepliesInv PROVE AttachedWhenTaken
  <2>1. RepliesTypeOK /\ CallbacksFollowSession /\ RepliedFirst /\ ScopesAgree
    BY <1>1 DEF RepliesInv
  <2>2. DOMAIN serverSaid = 1..(nextMessageIndex - 1)
        /\ serverIndex \in Nat /\ nextMessageIndex \in Nat /\ serverIndex < nextMessageIndex
    BY <1>1, <2>1, Said, Indices
  <2>3. ASSUME NEW i \in 1..serverIndex, serverSaid[i].type \in {"state", "sync"}
        PROVE  serverSaid[i].scopeIndex \in DOMAIN attached
    <3>1. PICK j \in 1..(i - 1) : Accepts(j, serverSaid[i].scopeIndex)
      BY <2>1, <2>2, <2>3 DEF RepliedFirst
    <3>2. j \in DOMAIN serverSaid /\ j <= serverIndex /\ serverSaid[j].type \in Answers
      BY <2>2, <3>1 DEF Accepts, Answers
    <3>3. serverSaid[j].replyTo \notin callbacks
      BY <2>1, <3>2 DEF CallbacksFollowSession
    <3>4. QED
      BY <2>1, <3>1, <3>2, <3>3 DEF ScopesAgree, Accepts
  <2>4. QED
    BY <2>3 DEF AttachedWhenTaken
<1>2. RepliesSpec => []IInv
  BY RepliesIInv
<1>3. QED
  BY <1>1, <1>2, RepliesInvariant, PTL

\* A change set goes to the server with an index its session has the scope of
\* that name at: the client counts by what the replies say, never by what it
\* has fetched.
THEOREM ChangesAddressed == RepliesSpec => []ChangesFindTheirScope
<1>1. RepliesInv => ChangesFindTheirScope
  BY DEF RepliesInv
<1>2. QED
  BY <1>1, RepliesInvariant, PTL

\* _onScopeAttach adds _onScopeChanges to a scope once for each fetch of it
\* that the server has accepted, at most: a reply that comes again adds nothing.
THEOREM ListenersBounded == RepliesSpec => []OneListenerPerFetch
<1>1. ASSUME IInv, RepliesInv PROVE OneListenerPerFetch
  <2>1. ASSUME NEW s \in Scopes PROVE listeners[s] <= Cardinality(Accepting(s))
    <3>1. /\ listeners[s] \in Nat /\ listeners[s] <= Cardinality(Attaching(s))
      BY <1>1 DEF RepliesInv, RepliesTypeOK
    <3>2. /\ Accepting(s) \subseteq 1..(nextMessageIndex - 1)
          /\ nextMessageIndex \in Nat
      BY <1>1, Said, Indices DEF Accepting, RepliesInv
    <3>3. IsFiniteSet(1..(nextMessageIndex - 1))
      BY <3>2, FS_Interval
    <3>4. IsFiniteSet(Accepting(s))
      BY <3>2, <3>3, FS_Subset
    <3>5. Attaching(s) \subseteq Accepting(s)
      BY DEF Attaching
    <3>6. IsFiniteSet(Attaching(s)) /\ Cardinality(Attaching(s)) <= Cardinality(Accepting(s))
      BY <3>4, <3>5, FS_Subset
    <3>7. Cardinality(Attaching(s)) \in Nat /\ Cardinality(Accepting(s)) \in Nat
      BY <3>4, <3>6, FS_CardinalityType
    <3>8. QED
      BY <3>1, <3>6, <3>7
  <2>2. QED
    BY <2>1 DEF OneListenerPerFetch
<1>2. RepliesSpec => []IInv
  BY RepliesIInv
<1>3. QED
  BY <1>1, <1>2, RepliesInvariant, PTL

=============================================================================
