----------------------- MODULE SyntheticTransport_proofs -----------------------
(***************************************************************************)
(* For any number of messages, requests and copies: the messages of the    *)
(* client are handed to the session in order and once, none that is next   *)
(* waits in the buffer, and no message of the session is forgotten.        *)
(*                                                                         *)
(* What a run hands out of the buffer is an interval of numbers; that it   *)
(* has as many as its cardinality says needs the first number that it      *)
(* lacks.                                                                  *)
(***************************************************************************)
EXTENDS SyntheticTransport, ListFacts, FiniteSetTheorems, TLAPS

\* A message on its way that will be buffered has place there.
RequestInv ==
    \A i \in requests : i > clientIndex + 1 => outOfOrder[i] < MaxCopies

IInv == TypeOK /\ RequestInv /\ InOrderOnce /\ NoneLeftBehind /\ NoneForgotten
-----------------------------------------------------------------------------
\* A run is an interval from its first number on, and ends where the buffer
\* does, or at a message that waits twice.
LEMMA BufferedRun ==
    ASSUME NEW wait \in [Up -> Nat], NEW first \in Nat, first >= 1, first <= MaxSent + 1
    PROVE  /\ Cardinality(Buffered(wait, first)) \in Nat
           /\ first + Cardinality(Buffered(wait, first)) <= MaxSent + 1
           /\ Buffered(wait, first) = first..(first + Cardinality(Buffered(wait, first)) - 1)
  <1> DEFINE run == Buffered(wait, first)
             Lacks == {k \in Nat : k >= first /\ k \notin run}
  <1>1. MaxSent \in Nat /\ Up = 1..MaxSent
    BY SyntheticAssumption DEF Up
  <1>2. MaxSent + 1 \in Lacks
    BY <1>1 DEF Buffered
  <1>3. \A k \in run : k \in Nat /\ k >= first /\ k <= MaxSent
    BY <1>1 DEF Buffered
  <1>4. \A k \in run : \A j \in first..k : j \in run
    BY <1>1 DEF Buffered
  <1> HIDE DEF run
  <1>5. PICK m \in Lacks : \A k \in Lacks : m <= k
    BY <1>2, Least
  <1>6. m \in Nat /\ m >= first /\ m <= MaxSent + 1
    BY <1>1, <1>2, <1>5
  <1>7. run = first..(m - 1)
    <2>1. \A k \in first..(m - 1) : k \in run
      BY <1>5, <1>6
    <2>2. \A k \in run : k < m
      BY <1>3, <1>4, <1>5, <1>6
    <2>3. \A k : k \in run <=> k \in first..(m - 1)
      BY <1>3, <1>6, <2>1, <2>2
    <2> QED  BY <2>3
  <1>8. Cardinality(run) = m - first
    BY <1>6, <1>7, FS_Interval
  <1> QED  BY <1>6, <1>7, <1>8 DEF run

\* The numbers up to m, and the n after them.
LEMMA Counted ==
    ASSUME NEW m \in Nat, NEW n \in Nat
    PROVE  [j \in 1..m |-> j] \o [j \in 1..n |-> (m + 1) + j - 1] = [j \in 1..(m + n) |-> j]
  <1> DEFINE s == [j \in 1..m |-> j]
             t == [j \in 1..n |-> (m + 1) + j - 1]
             u == [j \in 1..(m + n) |-> j]
  <1>1. s \in Seq(Nat) /\ Len(s) = m /\ \A j \in 1..m : s[j] = j
    OBVIOUS
  <1>2. t \in Seq(Nat) /\ Len(t) = n /\ \A j \in 1..n : t[j] = m + j
    OBVIOUS
  <1>3. u \in Seq(Nat) /\ Len(u) = m + n /\ \A j \in 1..(m + n) : u[j] = j
    OBVIOUS
  <1> HIDE DEF s, t, u
  <1>4. s \o t \in Seq(Nat) /\ Len(s \o t) = m + n
    BY <1>1, <1>2
  <1>5. \A j \in 1..(m + n) : (s \o t)[j] = j
    BY <1>1, <1>2
  <1>6. s \o t = u
    <2> DEFINE v == s \o t
    <2>1. v \in Seq(Nat) /\ Len(v) = Len(u) /\ \A j \in 1..Len(v) : v[j] = u[j]
      BY <1>3, <1>4, <1>5
    <2>2. u \in Seq(Nat)
      BY <1>3
    <2> HIDE DEF v
    <2>3. v = u
      BY <2>1, <2>2, SeqEqual
    <2> QED  BY <2>3 DEF v
  <1> QED  BY <1>6 DEF s, t, u
-----------------------------------------------------------------------------
\* The client's messages: what a request does to the buffer.
LEMMA TakeStep ==
    ASSUME IInv, Take(clientIndex + 1), clientIndex + 1 \in Up
    PROVE  /\ clientIndex' \in 0..MaxSent /\ clientIndex' >= clientIndex
           /\ outOfOrder' \in [Up -> 0..MaxCopies]
           /\ \A k \in Up : outOfOrder'[k] <= outOfOrder[k]
           /\ emitted' \in Seq(Up) /\ InOrderOnce' /\ NoneLeftBehind'
  <1> DEFINE run == Buffered(outOfOrder, clientIndex + 2)
             n == Cardinality(run)
  <1>1. /\ MaxSent \in Nat /\ MaxCopies \in Nat /\ Up = 1..MaxSent
        /\ clientIndex \in Nat /\ clientIndex + 1 <= MaxSent
        /\ outOfOrder \in [Up -> 0..MaxCopies] /\ outOfOrder \in [Up -> Nat]
    BY SyntheticAssumption DEF IInv, TypeOK, Up
  <1>2. (clientIndex + 1) + 1 = clientIndex + 2
    BY <1>1
  <1>3. /\ clientIndex' = clientIndex + 1 + n
        /\ emitted' = emitted \o [k \in 1..(n + 1) |-> (clientIndex + 1) + k - 1]
        /\ outOfOrder' = [k \in Up |-> outOfOrder[k] - (IF k \in run THEN 1 ELSE 0)]
    BY <1>2 DEF Take
  <1>4. /\ n \in Nat /\ clientIndex + 2 + n <= MaxSent + 1
        /\ run = (clientIndex + 2)..(clientIndex + 2 + n - 1)
    <2>1. clientIndex + 2 \in Nat /\ clientIndex + 2 >= 1 /\ clientIndex + 2 <= MaxSent + 1
      BY <1>1
    <2> QED  BY <1>1, <2>1, BufferedRun
  <1>5. \A k \in run : /\ outOfOrder[k] > 0
                       /\ \A i \in 1..(clientIndex + 1) : outOfOrder[i] = 0
                       /\ \A i \in (clientIndex + 2)..(k - 1) : outOfOrder[i] = 1
    BY <1>1 DEF Buffered
  <1>6. \A k \in Up : /\ k >= clientIndex + 2
                      /\ \A i \in 1..(clientIndex + 1) : outOfOrder[i] = 0
                      /\ \A i \in (clientIndex + 2)..k : outOfOrder[i] > 0
                      /\ \A i \in (clientIndex + 2)..(k - 1) : outOfOrder[i] = 1
                      => k \in run
    BY <1>1 DEF Buffered
  <1> HIDE DEF run, n
  <1>7. clientIndex' \in 0..MaxSent /\ clientIndex' >= clientIndex
    BY <1>1, <1>3, <1>4
  <1>8. \A k \in Up : /\ outOfOrder'[k] \in 0..MaxCopies
                      /\ outOfOrder'[k] <= outOfOrder[k]
    <2> SUFFICES ASSUME NEW k \in Up
                 PROVE  outOfOrder'[k] \in 0..MaxCopies /\ outOfOrder'[k] <= outOfOrder[k]
      OBVIOUS
    <2>1. outOfOrder[k] \in 0..MaxCopies
      BY <1>1
    <2>2. CASE k \in run
      <3>1. outOfOrder[k] > 0 /\ outOfOrder'[k] = outOfOrder[k] - 1
        BY <1>3, <1>5, <2>2
      <3> QED  BY <1>1, <2>1, <3>1
    <2>3. CASE k \notin run
      <3>1. outOfOrder'[k] = outOfOrder[k] - 0
        BY <1>3, <2>3
      <3> QED  BY <1>1, <2>1, <3>1
    <2> QED  BY <2>2, <2>3
  <1>9. outOfOrder' \in [Up -> 0..MaxCopies]
    BY <1>3, <1>8
  <1>10. InOrderOnce'
    <2>1. emitted = [j \in 1..clientIndex |-> j]
      BY DEF IInv, InOrderOnce
    <2>2. clientIndex + (n + 1) = clientIndex'
      BY <1>1, <1>3, <1>4
    <2>3. n + 1 \in Nat
      BY <1>4
    <2>4. emitted' = [j \in 1..(clientIndex + (n + 1)) |-> j]
      BY <1>1, <1>3, <2>1, <2>3, Counted
    <2> QED  BY <2>2, <2>4 DEF InOrderOnce
  <1>11. emitted' \in Seq(Up)
    BY <1>1, <1>7, <1>10 DEF InOrderOnce
  <1>12. NoneLeftBehind'
    <2> SUFFICES ASSUME clientIndex' < MaxSent,
                        \A i \in 1..clientIndex' : outOfOrder'[i] = 0,
                        outOfOrder'[clientIndex' + 1] # 0
                 PROVE  FALSE
      BY DEF NoneLeftBehind
    <2> DEFINE next == clientIndex' + 1
    <2>1. next = clientIndex + 2 + n /\ next \in Up /\ next \notin run
      BY <1>1, <1>3, <1>4
    <2>2. outOfOrder[next] > 0
      BY <1>1, <1>3, <2>1
    <2>3. \A i \in 1..(clientIndex + 1) : outOfOrder[i] = 0
      <3> SUFFICES ASSUME NEW i \in 1..(clientIndex + 1)
                   PROVE  outOfOrder[i] = 0
        OBVIOUS
      <3>1. i \in Up /\ i \notin run /\ i \in 1..clientIndex'
        BY <1>1, <1>3, <1>4
      <3>2. outOfOrder'[i] = outOfOrder[i] - 0 /\ outOfOrder'[i] = 0
        BY <1>3, <3>1
      <3> QED  BY <1>1, <3>1, <3>2
    <2>4. \A i \in (clientIndex + 2)..(next - 1) : outOfOrder[i] = 1
      <3> SUFFICES ASSUME NEW i \in (clientIndex + 2)..(next - 1)
                   PROVE  outOfOrder[i] = 1
        OBVIOUS
      <3>1. i \in Up /\ i \in run /\ i \in 1..clientIndex'
        BY <1>1, <1>3, <1>4, <2>1
      <3>2. outOfOrder'[i] = outOfOrder[i] - 1 /\ outOfOrder'[i] = 0
        BY <1>3, <3>1
      <3> QED  BY <1>1, <3>1, <3>2
    <2>5. \A i \in (clientIndex + 2)..next : outOfOrder[i] > 0
      <3> SUFFICES ASSUME NEW i \in (clientIndex + 2)..next
                   PROVE  outOfOrder[i] > 0
        OBVIOUS
      <3>1. i = next \/ i \in (clientIndex + 2)..(next - 1)
        BY <1>1, <2>1
      <3> HIDE DEF next
      <3> QED  BY <2>2, <2>4, <3>1
    <2>6. next >= clientIndex + 2
      BY <1>1, <1>4, <2>1
    <2> HIDE DEF next
    <2> QED  BY <1>6, <2>1, <2>3, <2>4, <2>5, <2>6
  <1> QED  BY <1>7, <1>8, <1>9, <1>10, <1>11, <1>12

\* A message that is past a gap.
LEMMA BufferStep ==
    ASSUME IInv, NEW i \in requests, i > clientIndex + 1,
           outOfOrder' = [outOfOrder EXCEPT ![i] = @ + 1],
           UNCHANGED <<clientIndex, emitted>>
    PROVE  /\ outOfOrder' \in [Up -> 0..MaxCopies]
           /\ \A k \in Up \ {i} : outOfOrder'[k] = outOfOrder[k]
           /\ NoneLeftBehind'
  <1>1. /\ MaxSent \in Nat /\ MaxCopies \in Nat /\ Up = 1..MaxSent /\ i \in Up
        /\ clientIndex \in Nat /\ outOfOrder \in [Up -> 0..MaxCopies]
        /\ outOfOrder[i] < MaxCopies
    BY SyntheticAssumption DEF IInv, TypeOK, RequestInv, Up
  <1>2. outOfOrder' \in [Up -> 0..MaxCopies]
    BY <1>1
  <1>3. \A k \in Up \ {i} : outOfOrder'[k] = outOfOrder[k]
    BY <1>1
  <1>4. NoneLeftBehind'
    BY <1>1, <1>3 DEF IInv, NoneLeftBehind
  <1> QED  BY <1>2, <1>3, <1>4

\* A request arrives.
LEMMA ResumeStep ==
    ASSUME IInv, NEW i \in Up, ResumeSession(i)
    PROVE  /\ clientIndex' \in 0..MaxSent
           /\ outOfOrder' \in [Up -> 0..MaxCopies] /\ emitted' \in Seq(Up)
           /\ RequestInv' /\ InOrderOnce' /\ NoneLeftBehind'
  <1>1. /\ MaxSent \in Nat /\ MaxCopies \in Nat /\ Up = 1..MaxSent
        /\ clientIndex \in 0..MaxSent /\ outOfOrder \in [Up -> 0..MaxCopies]
        /\ emitted \in Seq(Up) /\ requests \subseteq Up
    BY SyntheticAssumption DEF IInv, TypeOK, Up
  <1>2. i \in requests /\ requests' = requests \ {i}
    BY DEF ResumeSession
  <1>3. \/ UNCHANGED <<clientIndex, outOfOrder, emitted>>
        \/ /\ i > clientIndex + 1
           /\ outOfOrder' = [outOfOrder EXCEPT ![i] = @ + 1]
           /\ UNCHANGED <<clientIndex, emitted>>
        \/ i = clientIndex + 1 /\ Take(clientIndex + 1)
    <2>1. CASE session = "accepted"
      <3>1. MessageReceived(i)
        BY <2>1 DEF ResumeSession
      <3>2. CASE i <= clientIndex
        BY <3>1, <3>2 DEF MessageReceived
      <3>3. CASE i > clientIndex + 1
        BY <1>1, <3>1, <3>3 DEF MessageReceived
      <3>4. CASE i = clientIndex + 1
        BY <1>1, <3>1, <3>4 DEF MessageReceived
      <3> QED  BY <1>1, <3>2, <3>3, <3>4
    <2>2. CASE session # "accepted"
      BY <2>2 DEF ResumeSession
    <2> QED  BY <2>1, <2>2
  <1>4. CASE UNCHANGED <<clientIndex, outOfOrder, emitted>>
    BY <1>1, <1>2, <1>4 DEF IInv, RequestInv, InOrderOnce, NoneLeftBehind
  <1>5. CASE /\ i > clientIndex + 1
             /\ outOfOrder' = [outOfOrder EXCEPT ![i] = @ + 1]
             /\ UNCHANGED <<clientIndex, emitted>>
    <2>1. /\ outOfOrder' \in [Up -> 0..MaxCopies] /\ NoneLeftBehind'
          /\ \A k \in Up \ {i} : outOfOrder'[k] = outOfOrder[k]
      BY <1>2, <1>5, BufferStep
    <2> QED
      BY <1>1, <1>2, <1>5, <2>1 DEF IInv, RequestInv, InOrderOnce
  <1>6. CASE i = clientIndex + 1 /\ Take(clientIndex + 1)
    <2>1. /\ clientIndex' \in 0..MaxSent /\ clientIndex' >= clientIndex
          /\ outOfOrder' \in [Up -> 0..MaxCopies]
          /\ \A k \in Up : outOfOrder'[k] <= outOfOrder[k]
          /\ emitted' \in Seq(Up) /\ InOrderOnce' /\ NoneLeftBehind'
      BY <1>6, TakeStep
    <2>2. RequestInv'
      <3> SUFFICES ASSUME NEW k \in requests', k > clientIndex' + 1
                   PROVE  outOfOrder'[k] < MaxCopies
        BY DEF RequestInv
      <3>1. k \in Up /\ k \in requests /\ k \in Nat
        BY <1>1, <1>2
      <3>2. clientIndex \in Nat /\ clientIndex' \in Nat /\ clientIndex' >= clientIndex
        BY <1>1, <2>1
      <3>3. k > clientIndex + 1
        <4>1. \A a, b, m \in Nat : a <= b /\ m > b + 1 => m > a + 1
          OBVIOUS
        <4> QED  BY <3>1, <3>2, <4>1
      <3>4. outOfOrder[k] < MaxCopies
        BY <3>1, <3>3 DEF IInv, RequestInv
      <3>5. outOfOrder'[k] <= outOfOrder[k] /\ outOfOrder[k] \in Nat /\ outOfOrder'[k] \in Nat
        BY <1>1, <2>1, <3>1
      <3> QED  BY <1>1, <3>4, <3>5
    <2> QED  BY <2>1, <2>2
  <1> QED  BY <1>3, <1>4, <1>5, <1>6
-----------------------------------------------------------------------------
\* The session's messages: what has been given, is queued or was dropped.
LEMMA Ranges ==
    /\ \A S : \A q \in Seq(S), e \in S :
          Append(q, e) \in Seq(S) /\ Range(Append(q, e)) = Range(q) \cup {e}
    /\ \A S : \A q, t \in Seq(S) : q \o t \in Seq(S) /\ Range(q \o t) = Range(q) \cup Range(t)
    /\ Range(<<>>) = {}
  <1>1. ASSUME NEW S, NEW q \in Seq(S), NEW e \in S
        PROVE  Append(q, e) \in Seq(S) /\ Range(Append(q, e)) = Range(q) \cup {e}
    <2>1. /\ Len(q) \in Nat /\ DOMAIN q = 1..Len(q)
          /\ DOMAIN Append(q, e) = 1..(Len(q) + 1)
          /\ \A i \in 1..Len(q) : Append(q, e)[i] = q[i]
          /\ Append(q, e)[Len(q) + 1] = e
      OBVIOUS
    <2> QED  BY <2>1 DEF Range
  <1>2. ASSUME NEW S, NEW q \in Seq(S), NEW t \in Seq(S)
        PROVE  q \o t \in Seq(S) /\ Range(q \o t) = Range(q) \cup Range(t)
    <2>1. /\ Len(q) \in Nat /\ DOMAIN q = 1..Len(q)
          /\ Len(t) \in Nat /\ DOMAIN t = 1..Len(t)
          /\ q \o t \in Seq(S)
          /\ DOMAIN (q \o t) = 1..(Len(q) + Len(t))
          /\ \A i \in 1..Len(q) : (q \o t)[i] = q[i]
      OBVIOUS
    <2>2. \A i \in 1..Len(t) : (q \o t)[Len(q) + i] = t[i]
      BY <2>1
    <2>3. \A i \in 1..(Len(q) + Len(t)) :
             i \in 1..Len(q) \/ \E j \in 1..Len(t) : i = Len(q) + j
      <3> SUFFICES ASSUME NEW i \in 1..(Len(q) + Len(t)), i \notin 1..Len(q)
                   PROVE  \E j \in 1..Len(t) : i = Len(q) + j
        OBVIOUS
      <3>1. i - Len(q) \in 1..Len(t) /\ i = Len(q) + (i - Len(q))
        BY <2>1
      <3> QED  BY <3>1
    <2>4. \A j \in 1..Len(t) : Len(q) + j \in 1..(Len(q) + Len(t))
      BY <2>1
    <2>5. \A i \in 1..Len(q) : i \in 1..(Len(q) + Len(t))
      BY <2>1
    <2>6. ASSUME NEW x \in Range(q \o t)
          PROVE  x \in Range(q) \cup Range(t)
      <3>1. PICK i \in 1..(Len(q) + Len(t)) : x = (q \o t)[i]
        BY <2>1 DEF Range
      <3>2. CASE i \in 1..Len(q)
        BY <2>1, <3>1, <3>2 DEF Range
      <3>3. ASSUME NEW j \in 1..Len(t), i = Len(q) + j PROVE x \in Range(t)
        BY <2>1, <2>2, <3>1, <3>3 DEF Range
      <3> QED  BY <2>3, <3>2, <3>3
    <2>7. \A i \in 1..Len(q) : q[i] \in Range(q \o t)
      BY <2>1, <2>5 DEF Range
    <2>8. \A j \in 1..Len(t) : t[j] \in Range(q \o t)
      BY <2>1, <2>2, <2>4 DEF Range
    <2>9. Range(q) \cup Range(t) \subseteq Range(q \o t)
      BY <2>1, <2>7, <2>8 DEF Range
    <2> QED  BY <2>1, <2>6, <2>9
  <1>3. Range(<<>>) = {}
    BY DEF Range
  <1> QED  BY <1>1, <1>2, <1>3

LEMMA TransportMessageStep ==
    ASSUME TypeOK, NoneForgotten, TransportMessage, connected' \in BOOLEAN
    PROVE  /\ produced' \in 0..MaxProduced /\ pendingSends' \in Seq(Down)
           /\ immediate' \in BOOLEAN /\ UNCHANGED <<given, reentrant, throws>>
           /\ NoneForgotten'
  <1>1. /\ MaxProduced \in Nat /\ Down = 1..MaxProduced
        /\ produced \in 0..MaxProduced /\ pendingSends \in Seq(Down) /\ immediate \in BOOLEAN
    BY SyntheticAssumption DEF TypeOK, Down
  <1>2. /\ produced < MaxProduced /\ produced' = produced + 1
        /\ pendingSends' = Append(pendingSends, produced + 1)
        /\ immediate' = (immediate \/ connected')
        /\ UNCHANGED <<given, reentrant, throws>>
    BY DEF TransportMessage
  <1>3. produced + 1 \in Down /\ produced' \in 0..MaxProduced
    BY <1>1, <1>2
  <1>4. /\ pendingSends' \in Seq(Down)
        /\ Range(pendingSends') = Range(pendingSends) \cup {produced + 1}
    BY <1>1, <1>2, <1>3, Ranges
  <1>5. 1..produced' = 1..produced \cup {produced + 1}
    BY <1>1, <1>2
  <1>6. NoneForgotten'
    BY <1>2, <1>4, <1>5 DEF NoneForgotten
  <1> QED  BY <1>2, <1>3, <1>4, <1>6

\* What is sent from within a listener has the numbers that follow.
LEMMA Meanwhile ==
    ASSUME NEW m \in Nat, NEW n \in Nat, m + n <= MaxProduced
    PROVE  /\ [i \in 1..n |-> m + i] \in Seq(Down)
           /\ 1..(m + n) = 1..m \cup Range([i \in 1..n |-> m + i])
  <1> DEFINE s == [i \in 1..n |-> m + i]
  <1>1. Down = 1..MaxProduced /\ MaxProduced \in Nat
    BY SyntheticAssumption DEF Down
  <1>2. \A i \in 1..n : m + i \in Down
    BY <1>1
  <1>3. s \in Seq(Down)
    BY <1>2
  <1>4. \A x : x \in 1..(m + n) <=> x \in 1..m \/ \E i \in 1..n : x = m + i
    <2>1. ASSUME NEW x \in 1..(m + n), x \notin 1..m
          PROVE  x - m \in 1..n /\ x = m + (x - m)
      BY <2>1
    <2>2. \A i \in 1..n : m + i \in 1..(m + n)
      OBVIOUS
    <2>3. \A x \in 1..m : x \in 1..(m + n)
      OBVIOUS
    <2> QED  BY <2>1, <2>2, <2>3
  <1>5. Range(s) = {m + i : i \in 1..n}
    BY DEF Range
  <1> HIDE DEF s
  <1>6. 1..(m + n) = 1..m \cup Range(s)
    BY <1>4, <1>5
  <1> QED  BY <1>3, <1>6 DEF s

LEMMA SendStep ==
    ASSUME TypeOK, NoneForgotten, TransportAllPendingMessages
    PROVE  TypeOK' /\ NoneForgotten'
  <1>1. /\ MaxProduced \in Nat /\ MaxReentrant \in Nat /\ MaxThrows \in Nat
        /\ Down = 1..MaxProduced
        /\ produced \in 0..MaxProduced /\ pendingSends \in Seq(Down)
        /\ given \subseteq Down /\ reentrant \subseteq Down /\ throws \in 0..MaxThrows
    BY SyntheticAssumption DEF TypeOK, Down
  <1>2. UNCHANGED <<session, connected, upVars>>
    BY DEF TransportAllPendingMessages
  <1>3. CASE connected /\ pendingSends # <<>>
    <2>1. PICK n \in 0..MaxReentrant :
             /\ produced + n <= MaxProduced /\ produced' = produced + n
             /\ immediate' = (n > 0)
             /\ \/ ResponseGiven([i \in 1..n |-> produced + i])
                \/ ResponseThrows([i \in 1..n |-> produced + i])
      BY <1>3 DEF TransportAllPendingMessages
    <2> DEFINE meanwhile == [i \in 1..n |-> produced + i]
    <2>2. n \in Nat /\ produced \in Nat /\ produced' \in 0..MaxProduced
      BY <1>1, <2>1
    <2>3. meanwhile \in Seq(Down) /\ 1..produced' = 1..produced \cup Range(meanwhile)
      BY <2>1, <2>2, Meanwhile
    <2>4. immediate' \in BOOLEAN
      BY <2>1
    <2>5. ResponseGiven(meanwhile) \/ ResponseThrows(meanwhile)
      BY <2>1
    <2> HIDE DEF meanwhile
    <2>6. Range(pendingSends) \subseteq Down /\ Range(meanwhile) \subseteq Down
      BY <1>1, <2>3 DEF Range
    <2>7. CASE ResponseGiven(meanwhile)
      <3>1. /\ given' = given \cup Range(pendingSends) /\ pendingSends' = <<>>
            /\ reentrant' = reentrant \cup Range(meanwhile) /\ throws' = throws
        BY <2>7 DEF ResponseGiven
      <3>2. /\ given' \subseteq Down /\ reentrant' \subseteq Down
            /\ pendingSends' \in Seq(Down) /\ Range(pendingSends') = {}
        <4>1. <<>> \in Seq(Down)
          OBVIOUS
        <4>2. given' \subseteq Down /\ reentrant' \subseteq Down
          BY <1>1, <2>6, <3>1
        <4> QED  BY <3>1, <4>1, <4>2, Ranges
      <3>3. TypeOK'
        BY <1>2, <2>2, <2>4, <3>1, <3>2 DEF TypeOK, upVars
      <3>4. NoneForgotten'
        BY <2>3, <3>1, <3>2 DEF NoneForgotten
      <3> QED  BY <3>3, <3>4
    <2>8. CASE ResponseThrows(meanwhile)
      <3>1. /\ throws' \in 0..MaxThrows /\ pendingSends' = pendingSends \o meanwhile
            /\ UNCHANGED <<given, reentrant>>
        BY <1>1, <2>8 DEF ResponseThrows
      <3>2. /\ pendingSends' \in Seq(Down)
            /\ Range(pendingSends') = Range(pendingSends) \cup Range(meanwhile)
        BY <1>1, <2>3, <3>1, Ranges
      <3>3. TypeOK'
        BY <1>2, <2>2, <2>4, <3>1, <3>2 DEF TypeOK, upVars
      <3>4. NoneForgotten'
        BY <2>3, <3>1, <3>2 DEF NoneForgotten
      <3> QED  BY <3>3, <3>4
    <2> QED  BY <2>5, <2>7, <2>8
  <1>4. CASE ~(connected /\ pendingSends # <<>>)
    <2>1. immediate' = FALSE /\ UNCHANGED <<produced, pendingSends, given, reentrant, throws>>
      BY <1>4 DEF TransportAllPendingMessages
    <2>2. TypeOK'
      BY <1>2, <2>1 DEF TypeOK, upVars
    <2> QED  BY <2>1, <2>2 DEF NoneForgotten
  <1> QED  BY <1>3, <1>4
-----------------------------------------------------------------------------
LEMMA InitIInv == Init => IInv
  <1> SUFFICES ASSUME Init PROVE IInv
    OBVIOUS
  <1>1. /\ MaxSent \in Nat /\ MaxProduced \in Nat /\ MaxCopies \in Nat /\ MaxThrows \in Nat
    BY SyntheticAssumption
  <1>2. session = "none" /\ connected = FALSE /\ immediate = FALSE
    BY DEF Init
  <1>3. emitted = <<>> /\ pendingSends = <<>> /\ clientIndex = 0 /\ produced = 0
    BY DEF Init
  <1>4. outOfOrder \in [Up -> 0..MaxCopies] /\ \A k \in Up : outOfOrder[k] = 0
    BY <1>1 DEF Init
  <1>5. TypeOK
    <2>1. /\ sent \in 0..MaxSent /\ clientIndex \in 0..MaxSent
          /\ produced \in 0..MaxProduced /\ throws \in 0..MaxThrows
      BY <1>1 DEF Init
    <2>2. emitted \in Seq(Up) /\ pendingSends \in Seq(Down)
      BY <1>3
    <2>3. requests \subseteq Up /\ given \subseteq Down /\ reentrant \subseteq Down
      BY DEF Init
    <2> QED  BY <1>2, <1>4, <2>1, <2>2, <2>3 DEF TypeOK
  <1>6. RequestInv
    BY DEF Init, RequestInv
  <1>7. InOrderOnce
    BY <1>3 DEF InOrderOnce
  <1>8. NoneLeftBehind
    BY <1>1, <1>3, <1>4 DEF NoneLeftBehind, Up
  <1>9. NoneForgotten
    BY <1>3, Ranges DEF Init, NoneForgotten
  <1> QED  BY <1>5, <1>6, <1>7, <1>8, <1>9 DEF IInv

LEMMA NextIInv == IInv /\ [Next]_vars => IInv'
  <1> SUFFICES ASSUME IInv, [Next]_vars PROVE IInv'
    OBVIOUS
  <1>1. TypeOK /\ RequestInv /\ InOrderOnce /\ NoneLeftBehind /\ NoneForgotten
    BY DEF IInv
  <1>2. /\ MaxSent \in Nat /\ MaxProduced \in Nat /\ MaxCopies \in Nat
        /\ sent \in 0..MaxSent /\ Up = 1..MaxSent /\ clientIndex \in 0..MaxSent
    BY <1>1, SyntheticAssumption DEF TypeOK, Up
  <1>3. ASSUME UNCHANGED upVars
        PROVE  RequestInv' /\ InOrderOnce' /\ NoneLeftBehind'
    BY <1>1, <1>3 DEF upVars, RequestInv, InOrderOnce, NoneLeftBehind
  <1>4. ASSUME UNCHANGED downVars
        PROVE  NoneForgotten'
    BY <1>1, <1>4 DEF downVars, NoneForgotten
  <1>5. CASE UNCHANGED vars
    BY <1>1, <1>3, <1>4, <1>5 DEF vars, upVars, downVars, TypeOK, IInv
  <1>6. CASE NewSession \/ SessionExpires
    <2>1. session' \in {"deciding", "expired"} /\ connected' \in BOOLEAN
          /\ (connected' => session' = "deciding" /\ connected)
          /\ (session' = "deciding" => session = "none")
          /\ UNCHANGED upVars /\ UNCHANGED downVars
      <3>1. CASE NewSession
        <4>1. connected = FALSE
          BY <1>1, <3>1 DEF NewSession, TypeOK
        <4> QED  BY <3>1, <4>1 DEF NewSession, upVars, downVars
      <3>2. CASE SessionExpires
        BY <3>2 DEF SessionExpires, upVars, downVars
      <3> QED  BY <1>6, <3>1, <3>2
    <2>2. TypeOK'
      BY <1>1, <2>1 DEF TypeOK, upVars, downVars
    <2> QED  BY <1>3, <1>4, <2>1, <2>2 DEF IInv
  <1>7. CASE DecideSession \/ SessionSends
    <2>1. /\ session' \in {"accepted", "denied"} /\ connected' \in BOOLEAN
          /\ UNCHANGED upVars /\ TransportMessage
      BY <1>1, <1>7 DEF DecideSession, SessionSends, TypeOK
    <2>2. /\ produced' \in 0..MaxProduced /\ pendingSends' \in Seq(Down)
          /\ immediate' \in BOOLEAN /\ UNCHANGED <<given, reentrant, throws>>
          /\ NoneForgotten'
      BY <1>1, <2>1, TransportMessageStep
    <2>3. TypeOK'
      BY <1>1, <2>1, <2>2 DEF TypeOK, upVars
    <2> QED  BY <1>3, <2>1, <2>2, <2>3 DEF IInv
  <1>8. CASE ClientProduces
    <2>1. /\ sent' \in 0..MaxSent /\ UNCHANGED <<session, connected, downVars>>
          /\ UNCHANGED <<requests, clientIndex, outOfOrder, emitted>>
      BY <1>2, <1>8 DEF ClientProduces
    <2>2. TypeOK' /\ RequestInv' /\ InOrderOnce' /\ NoneLeftBehind'
      BY <1>1, <2>1 DEF TypeOK, downVars, RequestInv, InOrderOnce, NoneLeftBehind
    <2> QED  BY <1>4, <2>1, <2>2 DEF IInv
  <1>9. CASE Repeat \/ RequestAny
    <2>1. PICK i \in Up : Request(i) /\ (i = clientIndex + 1 \/ outOfOrder[i] < MaxCopies)
      BY <1>2, <1>9 DEF Repeat, RequestAny
    <2>2. /\ requests' = requests \cup {i}
          /\ UNCHANGED <<session, connected, sent, clientIndex, outOfOrder, emitted, downVars>>
      BY <2>1 DEF Request
    <2>3. TypeOK' /\ InOrderOnce' /\ NoneLeftBehind'
      BY <1>1, <2>2 DEF TypeOK, downVars, InOrderOnce, NoneLeftBehind
    <2>4. RequestInv'
      BY <1>1, <1>2, <2>1, <2>2 DEF RequestInv
    <2> QED  BY <1>4, <2>2, <2>3, <2>4 DEF IInv
  <1>10. ASSUME NEW i \in Up, ResumeSession(i) PROVE IInv'
    <2>1. /\ clientIndex' \in 0..MaxSent
          /\ outOfOrder' \in [Up -> 0..MaxCopies] /\ emitted' \in Seq(Up)
          /\ RequestInv' /\ InOrderOnce' /\ NoneLeftBehind'
      BY <1>10, ResumeStep
    <2>2. /\ requests' = requests \ {i}
          /\ UNCHANGED <<session, connected, sent, downVars>>
      BY <1>10 DEF ResumeSession
    <2>3. TypeOK'
      BY <1>1, <2>1, <2>2 DEF TypeOK, downVars
    <2> QED  BY <1>4, <2>1, <2>2, <2>3 DEF IInv
  <1>11. CASE TransportAllPendingMessages
    <2>1. UNCHANGED upVars
      BY <1>11 DEF TransportAllPendingMessages
    <2> QED  BY <1>1, <1>3, <1>11, <2>1, SendStep DEF IInv
  <1> QED
    BY <1>5, <1>6, <1>7, <1>8, <1>9, <1>10, <1>11 DEF Next

LEMMA Inductive == Spec => []IInv
  <1> QED  BY InitIInv, NextIInv, PTL DEF Spec

\* Every variable keeps its type: the buffer takes no more copies than are
\* sent.
THEOREM TypeCorrect == Spec => []TypeOK
  <1>1. IInv => TypeOK  BY DEF IInv
  <1> QED  BY <1>1, Inductive, PTL

\* The session sees the client's messages in order, each once.
THEOREM Ordered == Spec => []InOrderOnce
  <1>1. IInv => InOrderOnce  BY DEF IInv
  <1> QED  BY <1>1, Inductive, PTL

\* A message whose turn has come waits in the buffer only behind a second
\* copy of one that was taken.
THEOREM BufferEmptied == Spec => []NoneLeftBehind
  <1>1. IInv => NoneLeftBehind  BY DEF IInv
  <1> QED  BY <1>1, Inductive, PTL

\* What the session sends is queued or was given to a connection, but for
\* what is sent from within a listener.
THEOREM AllAccountedFor == Spec => []NoneForgotten
  <1>1. IInv => NoneForgotten  BY DEF IInv
  <1> QED  BY <1>1, Inductive, PTL
=============================================================================
