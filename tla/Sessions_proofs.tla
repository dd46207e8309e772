---------------------------- MODULE Sessions_proofs ----------------------------
(***************************************************************************)
(* For any number of connections, change sets and fetches: the state of    *)
(* Sessions is well typed, its registry agrees with its sessions, and no   *)
(* client that has the state misses a change set.                          *)
(*                                                                         *)
(* The queue of immediates is what connects the reading of the state with  *)
(* the changes: at most one of them writes, what was read before it wrote  *)
(* is behind by one change set, and is sent before that one is announced.  *)
(***************************************************************************)
EXTENDS Sessions, FiniteSetTheorems, TLAPS

Accepted == {c \in Connections : handshake[c] = "accepted"}

\* The registry and its count, after a crash as well.
RegistryInv ==
    /\ expired \subseteq Accepted
    /\ count = Cardinality(registry)
    /\ ~crashed => registry = Accepted \ expired

\* A fetch is decided once.
FetchInv == \A c \in Connections : deciding[c] + listening[c] <= fetches[c]

\* The places in the queue of the tasks of a kind.
Waits(do) == {i \in 1..Len(immediates) : immediates[i].do = do}

\* One change set is applied at a time, under the lock.
WriteInv ==
    /\ \A i \in Waits("commit") \cup Waits("announce") :
          /\ lock
          /\ \A j \in Waits("commit") \cup Waits("announce") : i = j
    /\ \A i \in Waits("commit") : version < MaxVersion
    /\ \A i \in Waits("announce") : immediates[i].held = {version}

Follows(c) == c \in expired \/ (c \in scopes /\ listening[c] > 0)

\* Who has the state, or is about to, listens to the scope.
FollowInv ==
    /\ \A c \in stated : Follows(c)
    /\ \A i \in Waits("list") \cup Waits("fragments") : Follows(immediates[i].for)

\* What was read of the scope is what it is, or lacks the one change set
\* that is announced after it is sent.
SnapshotInv ==
    \A i \in Waits("fragments") :
        \/ immediates[i].held = 1..version
        \/ /\ immediates[i].held = 1..(version - 1)
           /\ \E j \in Waits("announce") : i < j

\* So is the copy of a client that was sent it.
CopyInv ==
    /\ \A c \in Connections : held[c] \subseteq 1..version
    /\ \A c \in stated \ expired :
          \/ held[c] = 1..version
          \/ 1..(version - 1) \subseteq held[c] /\ Waits("announce") # {}

IInv == TypeOK /\ RegistryInv /\ FetchInv /\ WriteInv /\ FollowInv /\ SnapshotInv /\ CopyInv
-----------------------------------------------------------------------------
\* A turn takes the head of the queue, and may put a task at its end.
LEMMA Popped ==
    ASSUME NEW S, NEW s \in Seq(S), s # <<>>
    PROVE  /\ Len(s) \in Nat /\ Len(s) > 0
           /\ Head(s) = s[1] /\ Head(s) \in S
           /\ Tail(s) \in Seq(S)
           /\ Len(Tail(s)) = Len(s) - 1
           /\ \A i \in 1..(Len(s) - 1) : Tail(s)[i] = s[i + 1]
  OBVIOUS

LEMMA Added ==
    ASSUME NEW S, NEW s \in Seq(S), NEW t \in S
    PROVE  /\ Len(s) \in Nat
           /\ Append(s, t) \in Seq(S)
           /\ Len(Append(s, t)) = Len(s) + 1
           /\ \A i \in 1..Len(s) : Append(s, t)[i] = s[i]
           /\ Append(s, t)[Len(s) + 1] = t
  OBVIOUS

\* Where the tasks are once the head of the queue is taken,
LEMMA WaitsPopped ==
    ASSUME TypeOK, immediates # <<>>, immediates' = Tail(immediates), NEW do
    PROVE  /\ immediates' \in Seq(Tasks)
           /\ \A i \in Waits(do)' : /\ i \in Nat /\ i >= 1 /\ i + 1 \in Waits(do)
                                    /\ immediates'[i] = immediates[i + 1]
           /\ \A i \in Waits(do) \ {1} : i - 1 \in Waits(do)'
  <1>1. immediates \in Seq(Tasks)  BY DEF TypeOK
  <1>2. /\ Len(immediates) \in Nat /\ Len(immediates) > 0
        /\ immediates' \in Seq(Tasks) /\ Len(immediates') = Len(immediates) - 1
        /\ \A i \in 1..(Len(immediates) - 1) : immediates'[i] = immediates[i + 1]
    BY <1>1, Popped
  <1> QED  BY <1>2 DEF Waits

\* a task is added,
LEMMA WaitsAdded ==
    ASSUME TypeOK, NEW t \in Tasks, immediates' = Append(immediates, t), NEW do
    PROVE  /\ immediates' \in Seq(Tasks)
           /\ Len(immediates) \in Nat
           /\ \A i \in Waits(do)' :
                 \/ i \in Waits(do) /\ immediates'[i] = immediates[i]
                 \/ i = Len(immediates) + 1 /\ t.do = do /\ immediates'[i] = t
           /\ \A i \in Waits(do) : i \in Waits(do)'
           /\ t.do = do => Len(immediates) + 1 \in Waits(do)'
  <1>1. immediates \in Seq(Tasks)  BY DEF TypeOK
  <1>2. /\ Len(immediates) \in Nat
        /\ immediates' \in Seq(Tasks) /\ Len(immediates') = Len(immediates) + 1
        /\ \A i \in 1..Len(immediates) : immediates'[i] = immediates[i]
        /\ immediates'[Len(immediates) + 1] = t
    BY <1>1, Added
  <1> QED  BY <1>2 DEF Waits

\* or both.
LEMMA WaitsMoved ==
    ASSUME TypeOK, immediates # <<>>, NEW t \in Tasks, Then(t), NEW do
    PROVE  /\ immediates' \in Seq(Tasks)
           /\ Len(immediates) \in Nat
           /\ \A i \in Waits(do)' :
                 \/ /\ i \in Nat /\ i >= 1 /\ i + 1 \in Waits(do)
                    /\ immediates'[i] = immediates[i + 1]
                 \/ i = Len(immediates) /\ t.do = do /\ immediates'[i] = t
           /\ \A i \in Waits(do) \ {1} : i - 1 \in Waits(do)'
           /\ t.do = do => Len(immediates) \in Waits(do)'
  <1>1. immediates \in Seq(Tasks)  BY DEF TypeOK
  <1> DEFINE rest == Tail(immediates)
  <1>2. /\ Len(immediates) \in Nat /\ Len(immediates) > 0
        /\ rest \in Seq(Tasks) /\ Len(rest) = Len(immediates) - 1
        /\ \A i \in 1..(Len(immediates) - 1) : rest[i] = immediates[i + 1]
    BY <1>1, Popped
  <1>3. immediates' = Append(rest, t)  BY DEF Then
  <1> HIDE DEF rest
  <1>4. /\ immediates' \in Seq(Tasks) /\ Len(immediates') = Len(rest) + 1
        /\ \A i \in 1..Len(rest) : immediates'[i] = rest[i]
        /\ immediates'[Len(rest) + 1] = t
    BY <1>2, <1>3, Added
  <1>5. /\ Len(immediates') = Len(immediates)
        /\ \A i \in 1..(Len(immediates) - 1) : immediates'[i] = immediates[i + 1]
        /\ immediates'[Len(immediates)] = t
    BY <1>2, <1>4
  <1> QED  BY <1>2, <1>4, <1>5 DEF Waits
-----------------------------------------------------------------------------
\* A task in the queue, and what it is for.
LEMMA TaskTypes ==
    /\ \A c \in Connections : [do |-> "list", for |-> c] \in Tasks
    /\ \A c \in Connections, v \in SUBSET Versions :
          [do |-> "fragments", for |-> c, held |-> v] \in Tasks
    /\ \A c \in Connections \cup {Server} : [do |-> "commit", for |-> c] \in Tasks
    /\ \A c \in Connections \cup {Server}, v \in SUBSET Versions :
          [do |-> "announce", for |-> c, held |-> v] \in Tasks
    /\ \A t \in Tasks : /\ t.do \in {"list", "fragments"} => t.for \in Connections
                        /\ t.do \in {"commit", "announce"} => t.for \in Connections \cup {Server}
                        /\ t.do \in {"fragments", "announce"} => t.held \in SUBSET Versions
  BY DEF Tasks

\* The head of the queue.
LEMMA HeadWaits ==
    ASSUME TypeOK, NEW do, Task(do)
    PROVE  /\ immediates # <<>> /\ 1 \in Waits(do)
           /\ immediates[1] = Head(immediates) /\ Head(immediates) \in Tasks
           /\ Head(immediates).do = do
  <1>1. immediates \in Seq(Tasks) /\ immediates # <<>>  BY DEF TypeOK, Task
  <1> QED  BY <1>1, Popped DEF Task, Waits

\* In Init nothing waits and nobody is registered.
LEMMA InitIInv == Init => IInv
  <1> SUFFICES ASSUME Init PROVE IInv
    OBVIOUS
  <1> USE SessionsAssumption DEF Init
  <1>1. /\ Cardinality({}) = 0 /\ Cardinality(Connections) \in Nat
    BY FS_EmptySet, FS_CardinalityType
  <1>2. TypeOK
    <2>1. immediates \in Seq(Tasks)
      OBVIOUS
    <2>2. /\ websocket \in [Connections -> {"none", "open", "closed"}]
          /\ handshake \in [Connections -> Handshakes]
          /\ fetches \in [Connections -> 0..MaxFetches]
          /\ deciding \in [Connections -> 0..MaxFetches]
          /\ listening \in [Connections -> 0..MaxFetches]
      BY DEF Handshakes
    <2>3. held \in [Connections -> SUBSET Versions] /\ version \in 0..MaxVersion
      OBVIOUS
    <2>5. lock \in BOOLEAN /\ crashed \in BOOLEAN
      OBVIOUS
    <2>4. /\ registry \subseteq Connections /\ count \in 0..Cardinality(Connections)
          /\ expired \subseteq Connections
          /\ scopes \subseteq Connections /\ stated \subseteq Connections
      BY <1>1
    <2> QED
      BY <2>1, <2>2, <2>3, <2>4, <2>5 DEF TypeOK
  <1>3. RegistryInv
    BY <1>1 DEF RegistryInv, Accepted
  <1>4. \A do : Waits(do) = {}
    BY DEF Waits
  <1> QED
    BY <1>2, <1>3, <1>4 DEF IInv, FetchInv, WriteInv, FollowInv, SnapshotInv, CopyInv, Follows
-----------------------------------------------------------------------------
\* The registry.

LEMMA Registered ==
    ASSUME TypeOK, NEW c \in Connections
    PROVE  /\ IsFiniteSet(registry) /\ Cardinality(registry) \in Nat
           /\ Cardinality(registry \cup {c}) =
                 Cardinality(registry) + (IF c \in registry THEN 0 ELSE 1)
           /\ Cardinality(registry \ {c}) =
                 Cardinality(registry) - (IF c \in registry THEN 1 ELSE 0)
           /\ Cardinality(registry \cup {c}) <= Cardinality(Connections)
           /\ Cardinality(Connections) \in Nat
  <1>1. IsFiniteSet(registry) /\ registry \subseteq Connections
    BY SessionsAssumption, FS_Subset DEF TypeOK
  <1>2. registry \cup {c} \subseteq Connections
    BY <1>1
  <1> QED
    BY <1>1, <1>2, SessionsAssumption, FS_CardinalityType, FS_AddElement,
       FS_RemoveElement, FS_Subset

\* The registry agrees with the sessions after each step.
LEMMA RegistryStep ==
    ASSUME TypeOK, RegistryInv, [Next]_vars
    PROVE  RegistryInv' /\ registry' \subseteq Connections
           /\ count' \in 0..Cardinality(Connections)
  <1> USE DEF RegistryInv, Accepted
  <1>0. /\ registry \subseteq Connections /\ count \in 0..Cardinality(Connections)
        /\ handshake \in [Connections -> Handshakes]
        /\ crashed \in BOOLEAN
    BY DEF TypeOK
  <1>1. CASE UNCHANGED connectionVars /\ (~crashed \/ UNCHANGED crashed)
    BY <1>0, <1>1 DEF connectionVars
  <1>2. ASSUME NEW c \in Connections, UNCHANGED <<registry, count, expired>>,
               \E from, to \in Handshakes : Handshake(c, from, to)
                                            /\ from # "accepted" /\ to # "accepted"
        PROVE  RegistryInv' /\ registry' = registry /\ count' = count
    BY <1>0, <1>2 DEF Handshake
  <1>3. ASSUME NEW c \in Connections, AcceptNewSession(c)
        PROVE  RegistryInv' /\ registry' \subseteq Connections
               /\ count' \in 0..Cardinality(Connections)
    <2>1. ~crashed /\ handshake[c] = "accepting" /\ c \notin registry
      BY <1>3 DEF AcceptNewSession, Handshake
    <2>2. /\ handshake' = [handshake EXCEPT ![c] = "accepted"]
          /\ registry' = registry \cup {c} /\ count' = count + 1 /\ expired' = expired
      BY <1>3 DEF AcceptNewSession, Handshake
    <2>3. count' = Cardinality(registry')
      BY <2>1, <2>2, Registered
    <2>4. Accepted' = Accepted \cup {c} /\ c \notin expired
      BY <1>0, <2>1, <2>2
    <2> QED
      BY <1>0, <2>1, <2>2, <2>3, <2>4, Registered
  <1>4. ASSUME NEW c \in Connections, Expire(c)
        PROVE  RegistryInv' /\ registry' \subseteq Connections
               /\ count' \in 0..Cardinality(Connections)
    <2>1. /\ ~crashed /\ c \in Accepted /\ c \in registry
          /\ expired' = expired \cup {c} /\ handshake' = handshake
      BY <1>4 DEF Expire, SessionLetsGo
    <2>2. CASE crashed'
      BY <1>0, <1>4, <2>1, <2>2 DEF Expire
    <2>3. CASE ~crashed'
      <3>1. registry' = registry \ {c} /\ count' = count - 1
        BY <1>4, <2>3 DEF Expire, ForgetToken
      <3>2. count' = Cardinality(registry') /\ count' \in 0..Cardinality(Connections)
        <4>1. /\ Cardinality(registry \ {c}) = Cardinality(registry) - 1
              /\ Cardinality(registry \ {c}) \in Nat
              /\ Cardinality(Connections) \in Nat
          BY <2>1, Registered, FS_CardinalityType, FS_RemoveElement
        <4> QED
          BY <1>0, <3>1, <4>1
      <3>3. registry' = Accepted' \ expired' /\ expired' \subseteq Accepted'
        BY <2>1, <3>1
      <3> QED
        BY <1>0, <3>1, <3>2, <3>3
    <2> QED  BY <2>2, <2>3
  <1>5. ASSUME NEW c \in Connections,
               Connect(c) \/ Refuse(c) \/ SessionCreate(c) \/ Accept(c) \/ DenyNewSession(c)
        PROVE  RegistryInv' /\ registry' = registry /\ count' = count
    <2>1. UNCHANGED <<registry, count, expired>>
      BY <1>5 DEF Connect, Refuse, SessionCreate, Accept, DenyNewSession
    <2>2. \E from, to \in Handshakes : Handshake(c, from, to)
                                       /\ from # "accepted" /\ to # "accepted"
      BY <1>5 DEF Connect, Refuse, SessionCreate, Accept, DenyNewSession, Handshakes
    <2> QED  BY <1>2, <2>1, <2>2
  <1>6. ASSUME NEW c \in Connections, WebsocketCloses(c) \/ ResumeSession(c)
        PROVE  RegistryInv' /\ registry' = registry /\ count' = count
    BY <1>0, <1>6 DEF WebsocketCloses, ResumeSession
  <1>7. ASSUME NEW c \in Connections, ScopeFetch(c) \/ DenyFetch(c) \/ AcceptFetch(c)
        PROVE  UNCHANGED connectionVars /\ ~crashed
    BY <1>0, <1>7 DEF ScopeFetch, DenyFetch, AcceptFetch
  <1>8. ASSUME NEW author \in Connections \cup {Server}, BeginApply(author)
        PROVE  UNCHANGED connectionVars /\ ~crashed
    BY <1>0, <1>8 DEF BeginApply
  <1>9. ASSUME Immediate
        PROVE  UNCHANGED connectionVars /\ ~crashed
    BY <1>0, <1>9 DEF Immediate, ListModelObjects, SendScopeState, Commit, Announce, Task
  <1>10. CASE UNCHANGED vars
    BY <1>1, <1>10, <1>0 DEF vars
  <1> QED
    BY <1>0, <1>1, <1>3, <1>4, <1>5, <1>6, <1>7, <1>8, <1>9, <1>10 DEF Next
-----------------------------------------------------------------------------
\* The scope and what waits for it.

ScopeInv == FetchInv /\ WriteInv /\ FollowInv /\ SnapshotInv /\ CopyInv

\* Connections come and go, and with them nothing of the scope changes.
LEMMA ConnectionStep ==
    ASSUME TypeOK, ScopeInv, RegistryInv', registry' \subseteq Connections,
           count' \in 0..Cardinality(Connections), NEW c \in Connections,
           \/ Connect(c) \/ Refuse(c) \/ SessionCreate(c) \/ Accept(c)
           \/ AcceptNewSession(c) \/ DenyNewSession(c)
           \/ WebsocketCloses(c) \/ ResumeSession(c)
    PROVE  TypeOK' /\ ScopeInv'
  <1>1. UNCHANGED <<scopeVars, expired>>
    BY DEF Connect, Refuse, SessionCreate, Accept, AcceptNewSession, DenyNewSession,
           WebsocketCloses, ResumeSession
  <1>2. /\ websocket' \in [Connections -> {"none", "open", "closed"}]
        /\ handshake' \in [Connections -> Handshakes]
    BY DEF TypeOK, Handshakes, Connect, Refuse, SessionCreate, Accept, AcceptNewSession,
           DenyNewSession, WebsocketCloses, ResumeSession, Handshake
  <1>3. crashed' \in BOOLEAN
    BY DEF TypeOK, Connect, Refuse, SessionCreate, Accept, AcceptNewSession,
           DenyNewSession, WebsocketCloses, ResumeSession
  <1>4. TypeOK'
    BY <1>1, <1>2, <1>3 DEF TypeOK, scopeVars
  <1>5. ScopeInv'
    BY <1>1 DEF scopeVars, ScopeInv, FetchInv, WriteInv, FollowInv, Follows,
                SnapshotInv, CopyInv, Waits
  <1> QED  BY <1>4, <1>5

\* What has expired is excepted.
LEMMA ExpireStep ==
    ASSUME TypeOK, ScopeInv, RegistryInv', registry' \subseteq Connections,
           count' \in 0..Cardinality(Connections), NEW c \in Connections, Expire(c)
    PROVE  TypeOK' /\ ScopeInv'
  <1>1. /\ expired' = expired \cup {c} /\ scopes' = scopes \ {c}
        /\ websocket' = [websocket EXCEPT ![c] = "closed"]
        /\ UNCHANGED <<handshake, fetches, deciding, listening, stated, held, version,
                       lock, immediates>>
    BY DEF Expire, SessionLetsGo, CloseTransport
  <1>2. crashed' \in BOOLEAN
    BY DEF Expire, CloseTransport
  <1>3. TypeOK'
    BY <1>1, <1>2 DEF TypeOK
  <1>4. \A do : Waits(do)' = Waits(do)
    BY <1>1 DEF Waits
  <1>5. FetchInv' /\ WriteInv' /\ SnapshotInv' /\ CopyInv'
    BY <1>1, <1>4 DEF ScopeInv, FetchInv, WriteInv, SnapshotInv, CopyInv
  <1>6. \A d \in Connections : Follows(d) => Follows(d)'
    BY <1>1 DEF Follows
  <1>7. FollowInv'
    <2>1. \A i \in Waits("list") \cup Waits("fragments") : immediates[i].for \in Connections
      BY TaskTypes DEF TypeOK, Waits
    <2> QED
      BY <1>1, <1>4, <1>6, <2>1 DEF ScopeInv, FollowInv, TypeOK
  <1> QED  BY <1>3, <1>5, <1>7 DEF ScopeInv

\* A fetch arrives, or is denied.
LEMMA FetchStep ==
    ASSUME TypeOK, ScopeInv, NEW c \in Connections, ScopeFetch(c) \/ DenyFetch(c)
    PROVE  TypeOK' /\ ScopeInv'
  <1>1. UNCHANGED <<connectionVars, listening, scopes, stated, held, version, lock, immediates>>
    BY DEF ScopeFetch, DenyFetch
  <1>2. crashed' \in BOOLEAN
    <2>1. CASE ScopeFetch(c)
      BY <2>1 DEF ScopeFetch, TypeOK
    <2>2. CASE DenyFetch(c)
      BY <2>2 DEF DenyFetch
    <2> QED  BY <2>1, <2>2
  <1>3. /\ fetches' \in [Connections -> 0..MaxFetches]
        /\ deciding' \in [Connections -> 0..MaxFetches]
        /\ FetchInv'
    <2> USE SessionsAssumption DEF TypeOK, ScopeInv, FetchInv
    <2>1. CASE ScopeFetch(c)
      <3>1. /\ fetches' = [fetches EXCEPT ![c] = @ + 1] /\ fetches[c] < MaxFetches
            /\ deciding' = [deciding EXCEPT ![c] = @ + 1] /\ listening' = listening
        BY <2>1 DEF ScopeFetch
      <3> QED  BY <3>1
    <2>2. CASE DenyFetch(c)
      <3>1. /\ fetches' = fetches /\ deciding[c] > 0
            /\ deciding' = [deciding EXCEPT ![c] = @ - 1] /\ listening' = listening
        BY <2>2 DEF DenyFetch
      <3> QED  BY <3>1
    <2> QED  BY <2>1, <2>2
  <1>4. TypeOK'
    BY <1>1, <1>2, <1>3 DEF TypeOK, connectionVars
  <1>5. WriteInv' /\ FollowInv' /\ SnapshotInv' /\ CopyInv'
    BY <1>1 DEF connectionVars, ScopeInv, WriteInv, FollowInv, Follows, SnapshotInv,
                CopyInv, Waits
  <1> QED  BY <1>3, <1>4, <1>5 DEF ScopeInv

\* A session that is given the scope listens from then on.
LEMMA AcceptFetchStep ==
    ASSUME TypeOK, ScopeInv, NEW c \in Connections, AcceptFetch(c)
    PROVE  TypeOK' /\ ScopeInv'
  <1>1. /\ deciding[c] > 0
        /\ deciding' = [deciding EXCEPT ![c] = @ - 1]
        /\ listening' = [listening EXCEPT ![c] = @ + 1]
        /\ scopes' = scopes \cup {c}
        /\ UNCHANGED <<connectionVars, fetches, stated, held, version, lock>>
    BY DEF AcceptFetch
  <1>2. crashed' \in BOOLEAN
    BY DEF AcceptFetch
  <1> DEFINE t == [do |-> "list", for |-> c]
  <1>3. t \in Tasks
    BY TaskTypes
  <1>4. immediates' = immediates \/ immediates' = Append(immediates, t)
    BY DEF AcceptFetch
  <1>5. /\ deciding' \in [Connections -> 0..MaxFetches]
        /\ listening' \in [Connections -> 0..MaxFetches]
        /\ FetchInv'
    <2>1. /\ deciding \in [Connections -> 0..MaxFetches]
          /\ listening \in [Connections -> 0..MaxFetches]
          /\ fetches \in [Connections -> 0..MaxFetches] /\ fetches' = fetches
          /\ MaxFetches \in Nat
      BY <1>1, SessionsAssumption DEF TypeOK
    <2>2. deciding[c] + listening[c] <= fetches[c]
      BY DEF ScopeInv, FetchInv
    <2>3. \A d \in Connections : deciding[d] + listening[d] <= fetches[d]
      BY DEF ScopeInv, FetchInv
    <2>4. deciding' \in [Connections -> 0..MaxFetches]
      BY <1>1, <2>1
    <2>5. listening' \in [Connections -> 0..MaxFetches]
      BY <1>1, <2>1, <2>2
    <2>6. FetchInv'
      BY <1>1, <2>1, <2>3 DEF FetchInv
    <2> QED  BY <2>4, <2>5, <2>6
  <1>6. /\ immediates' \in Seq(Tasks)
        /\ \A do : do # "list" => /\ Waits(do)' = Waits(do)
                                  /\ \A i \in Waits(do) : immediates'[i] = immediates[i]
        /\ \A i \in Waits("list")' : \/ i \in Waits("list") /\ immediates'[i] = immediates[i]
                                     \/ immediates'[i] = t
    <2>1. CASE immediates' = immediates
      BY <2>1 DEF Waits, TypeOK
    <2>2. CASE immediates' = Append(immediates, t)
      <3>1. t.do = "list"
        OBVIOUS
      <3> HIDE DEF t
      <3>2. ASSUME NEW do
            PROVE  /\ immediates' \in Seq(Tasks)
                   /\ Len(immediates) \in Nat
                   /\ \A i \in Waits(do)' :
                         \/ i \in Waits(do) /\ immediates'[i] = immediates[i]
                         \/ i = Len(immediates) + 1 /\ t.do = do /\ immediates'[i] = t
                   /\ \A i \in Waits(do) : i \in Waits(do)'
        BY <1>3, <2>2, WaitsAdded
      <3> QED  BY <3>1, <3>2
    <2> QED  BY <1>4, <2>1, <2>2
  <1>7. TypeOK'
    BY <1>1, <1>2, <1>5, <1>6 DEF TypeOK, connectionVars
  <1>8. WriteInv' /\ SnapshotInv' /\ CopyInv'
    BY <1>1, <1>6 DEF ScopeInv, WriteInv, SnapshotInv, CopyInv, connectionVars
  <1>9. FollowInv'
    <2>1. \A d \in Connections : Follows(d) => Follows(d)'
      BY <1>1 DEF Follows, connectionVars, TypeOK
    <2>2. Follows(c)'
      BY <1>1 DEF Follows, TypeOK
    <2>3. \A i \in Waits("list") \cup Waits("fragments") : immediates[i].for \in Connections
      BY TaskTypes DEF TypeOK, Waits
    <2>4. stated' = stated /\ stated \subseteq Connections
      BY <1>1 DEF TypeOK
    <2> QED
      BY <1>6, <2>1, <2>2, <2>3, <2>4 DEF ScopeInv, FollowInv
  <1> QED  BY <1>5, <1>7, <1>8, <1>9 DEF ScopeInv

\* A change set is applied once the lock is free.
LEMMA BeginApplyStep ==
    ASSUME TypeOK, ScopeInv, NEW author \in Connections \cup {Server}, BeginApply(author)
    PROVE  TypeOK' /\ ScopeInv'
  <1>1. /\ ~lock /\ lock' = TRUE /\ version < MaxVersion
        /\ UNCHANGED <<connectionVars, fetches, deciding, listening, scopes, stated, held,
                       version, crashed>>
    BY DEF BeginApply
  <1> DEFINE t == [do |-> "commit", for |-> author]
  <1>2. t \in Tasks /\ t.do = "commit"
    BY TaskTypes
  <1>3. immediates' = Append(immediates, t)
    BY DEF BeginApply
  <1> HIDE DEF t
  <1>4. ASSUME NEW do
        PROVE  /\ immediates' \in Seq(Tasks)
               /\ Len(immediates) \in Nat
               /\ \A i \in Waits(do)' :
                     \/ i \in Waits(do) /\ immediates'[i] = immediates[i]
                     \/ i = Len(immediates) + 1 /\ t.do = do /\ immediates'[i] = t
               /\ \A i \in Waits(do) : i \in Waits(do)'
    BY <1>2, <1>3, WaitsAdded
  <1>5. /\ \A do : do # "commit" => /\ Waits(do)' = Waits(do)
                                    /\ \A i \in Waits(do) : immediates'[i] = immediates[i]
        /\ \A i \in Waits("commit")' : i \in Waits("commit") \/ i = Len(immediates) + 1
    BY <1>2, <1>4
  <1>6. TypeOK'
    BY <1>1, <1>4 DEF TypeOK, connectionVars
  <1>7. Waits("commit") = {} /\ Waits("announce") = {}
    BY <1>1 DEF ScopeInv, WriteInv
  <1>8. WriteInv'
    BY <1>1, <1>5, <1>7 DEF WriteInv
  <1>9. FetchInv' /\ SnapshotInv' /\ CopyInv'
    BY <1>1, <1>5 DEF ScopeInv, FetchInv, SnapshotInv, CopyInv, connectionVars
  <1>10. FollowInv'
    BY <1>1, <1>5 DEF ScopeInv, FollowInv, Follows, connectionVars
  <1> QED  BY <1>6, <1>8, <1>9, <1>10 DEF ScopeInv

\* The scope is read as it is between two turns.
LEMMA ListStep ==
    ASSUME TypeOK, ScopeInv, ListModelObjects
    PROVE  TypeOK' /\ ScopeInv'
  <1>1. /\ immediates # <<>> /\ 1 \in Waits("list")
        /\ immediates[1] = Head(immediates)
        /\ Head(immediates) \in Tasks /\ Head(immediates).do = "list"
    BY HeadWaits DEF ListModelObjects
  <1>2. UNCHANGED <<connectionVars, fetches, deciding, listening, scopes, stated, held,
                    version, lock, crashed>>
    BY DEF ListModelObjects
  <1> DEFINE c == Head(immediates).for
             t == [do |-> "fragments", for |-> c, held |-> 1..version]
  <1>3. c \in Connections /\ Follows(c)
    BY <1>1, TaskTypes DEF ScopeInv, FollowInv
  <1>4. 1..version \in SUBSET Versions
    BY SessionsAssumption DEF TypeOK, Versions
  <1>5. t \in Tasks /\ t.do = "fragments" /\ t.for = c /\ t.held = 1..version /\ Then(t)
    BY <1>3, <1>4, TaskTypes DEF ListModelObjects
  <1> HIDE DEF c, t
  <1>6. ASSUME NEW do
        PROVE  /\ immediates' \in Seq(Tasks)
               /\ Len(immediates) \in Nat
               /\ \A i \in Waits(do)' :
                     \/ i \in Nat /\ i + 1 \in Waits(do) /\ immediates'[i] = immediates[i + 1]
                     \/ i = Len(immediates) /\ t.do = do /\ immediates'[i] = t
               /\ \A i \in Waits(do) \ {1} : i - 1 \in Waits(do)'
    BY <1>1, <1>5, WaitsMoved
  <1>7. TypeOK'
    BY <1>2, <1>6 DEF TypeOK, connectionVars
  <1>8. 1 \notin Waits("commit") /\ 1 \notin Waits("announce") /\ 1 \notin Waits("fragments")
    BY <1>1 DEF Waits
  <1>9. \A do : \A i \in Waits(do) : i \in Nat
    BY DEF Waits
  <1>10. WriteInv'
    BY <1>2, <1>5, <1>6, <1>9 DEF ScopeInv, WriteInv
  <1>11. FetchInv' /\ CopyInv'
    <2>1. \A i \in Waits("announce") : i - 1 \in Waits("announce")'
      BY <1>6, <1>8
    <2> QED
      BY <1>2, <2>1 DEF ScopeInv, FetchInv, CopyInv, connectionVars
  <1>12. SnapshotInv'
    <2> SUFFICES ASSUME NEW i \in Waits("fragments")'
                 PROVE  \/ immediates'[i].held = 1..version'
                        \/ /\ immediates'[i].held = 1..(version' - 1)
                           /\ \E j \in Waits("announce")' : i < j
      BY DEF SnapshotInv
    <2>1. CASE immediates'[i] = t
      BY <1>2, <1>5, <2>1
    <2>2. CASE i \in Nat /\ i + 1 \in Waits("fragments") /\ immediates'[i] = immediates[i + 1]
      <3>1. \/ immediates[i + 1].held = 1..version
            \/ /\ immediates[i + 1].held = 1..(version - 1)
               /\ \E j \in Waits("announce") : i + 1 < j
        BY <2>2 DEF ScopeInv, SnapshotInv
      <3>2. ASSUME NEW j \in Waits("announce"), i + 1 < j
            PROVE  j - 1 \in Waits("announce")' /\ i < j - 1
        BY <1>6, <1>8, <1>9, <2>2, <3>2
      <3> QED  BY <1>2, <2>2, <3>1, <3>2
    <2> QED  BY <1>6, <2>1, <2>2
  <1>13. FollowInv'
    <2>1. \A d : Follows(d)' = Follows(d)
      BY <1>2 DEF Follows, connectionVars
    <2> QED
      BY <1>2, <1>3, <1>5, <1>6, <2>1 DEF ScopeInv, FollowInv
  <1> QED  BY <1>7, <1>10, <1>11, <1>12, <1>13 DEF ScopeInv

\* The state is sent: nothing older is left in the queue than what is there.
LEMMA SendStep ==
    ASSUME TypeOK, ScopeInv, SendScopeState
    PROVE  TypeOK' /\ ScopeInv'
  <1>1. /\ immediates # <<>> /\ 1 \in Waits("fragments")
        /\ immediates[1] = Head(immediates)
        /\ Head(immediates) \in Tasks /\ Head(immediates).do = "fragments"
    BY HeadWaits DEF SendScopeState
  <1> DEFINE c == Head(immediates).for
             read == Head(immediates).held
  <1>2. /\ c \in Connections /\ read \in SUBSET Versions
    BY <1>1, TaskTypes
  <1>3. /\ stated' = stated \cup {c}
        /\ held' = [held EXCEPT ![c] = @ \cup read]
        /\ crashed' = (c \in expired)
        /\ immediates' = Tail(immediates)
        /\ UNCHANGED <<connectionVars, fetches, deciding, listening, scopes, version, lock>>
    BY DEF SendScopeState
  <1>4. Follows(c)
    BY <1>1 DEF ScopeInv, FollowInv
  <1>5. \/ read = 1..version
        \/ read = 1..(version - 1) /\ \E j \in Waits("announce") : 1 < j
    BY <1>1 DEF ScopeInv, SnapshotInv
  <1> HIDE DEF c, read
  <1>6. ASSUME NEW do
        PROVE  /\ immediates' \in Seq(Tasks)
               /\ \A i \in Waits(do)' : /\ i \in Nat /\ i + 1 \in Waits(do)
                                        /\ immediates'[i] = immediates[i + 1]
               /\ \A i \in Waits(do) \ {1} : i - 1 \in Waits(do)'
    BY <1>1, <1>3, WaitsPopped
  <1>7. crashed' \in BOOLEAN
    BY <1>3
  <1>8. TypeOK'
    BY <1>2, <1>3, <1>6, <1>7 DEF TypeOK, connectionVars
  <1>9. 1 \notin Waits("commit") /\ 1 \notin Waits("announce")
    BY <1>1 DEF Waits
  <1>10. \A do : \A i \in Waits(do) : i \in Nat
    BY DEF Waits
  <1>11. WriteInv' /\ FetchInv'
    <2>1. FetchInv'
      BY <1>3 DEF ScopeInv, FetchInv
    <2>2. \A i \in Waits("commit")' \cup Waits("announce")' :
             i \in Nat /\ i + 1 \in Waits("commit") \cup Waits("announce")
      BY <1>6
    <2>3. \A i \in Waits("commit")' : i + 1 \in Waits("commit")
      BY <1>6
    <2>4. \A i \in Waits("announce")' : immediates'[i].held = {version}
      BY <1>6 DEF ScopeInv, WriteInv
    <2>5. ASSUME NEW i \in Waits("commit")' \cup Waits("announce")',
                 NEW j \in Waits("commit")' \cup Waits("announce")'
          PROVE  lock /\ i = j
      <3>1. i + 1 = j + 1 /\ lock
        BY <2>2 DEF ScopeInv, WriteInv
      <3> QED  BY <2>2, <3>1
    <2>6. version < MaxVersion \/ Waits("commit")' = {}
      BY <2>3 DEF ScopeInv, WriteInv
    <2> QED  BY <1>3, <2>1, <2>4, <2>5, <2>6 DEF WriteInv
  <1>12. \A j \in Waits("announce") : j - 1 \in Waits("announce")'
    BY <1>6, <1>9
  <1>13. SnapshotInv'
    <2> SUFFICES ASSUME NEW i \in Waits("fragments")'
                 PROVE  \/ immediates'[i].held = 1..version'
                        \/ /\ immediates'[i].held = 1..(version' - 1)
                           /\ \E j \in Waits("announce")' : i < j
      BY DEF SnapshotInv
    <2>1. i \in Nat /\ i + 1 \in Waits("fragments") /\ immediates'[i] = immediates[i + 1]
      BY <1>6
    <2>2. \/ immediates[i + 1].held = 1..version
          \/ /\ immediates[i + 1].held = 1..(version - 1)
             /\ \E j \in Waits("announce") : i + 1 < j
      BY <2>1 DEF ScopeInv, SnapshotInv
    <2>3. ASSUME NEW j \in Waits("announce"), i + 1 < j
          PROVE  j - 1 \in Waits("announce")' /\ i < j - 1
      BY <1>10, <1>12, <2>1, <2>3
    <2> QED  BY <1>3, <2>1, <2>2, <2>3
  <1>14. FollowInv'
    <2>1. \A d : Follows(d)' = Follows(d)
      BY <1>3 DEF Follows, connectionVars
    <2> QED
      BY <1>3, <1>4, <1>6, <2>1 DEF ScopeInv, FollowInv
  <1>15. CopyInv'
    <2>1. /\ held \in [Connections -> SUBSET Versions] /\ version \in Nat
          /\ version' = version /\ expired' = expired
      BY <1>3, SessionsAssumption DEF TypeOK, connectionVars
    <2>2. read \subseteq 1..version
      BY <1>5, <2>1
    <2>3. ASSUME NEW d \in Connections
          PROVE  held'[d] \subseteq 1..version
      BY <1>2, <1>3, <2>1, <2>2 DEF ScopeInv, CopyInv
    <2>4. ASSUME NEW d \in stated' \ expired
          PROVE  \/ held'[d] = 1..version
                 \/ 1..(version - 1) \subseteq held'[d] /\ Waits("announce")' # {}
      <3>1. CASE d = c
        <4>1. held'[c] = held[c] \cup read /\ held'[c] \subseteq 1..version
          BY <1>2, <1>3, <2>1, <2>3
        <4> QED  BY <1>5, <1>12, <3>1, <4>1
      <3>2. CASE d # c
        <4>1. d \in stated \ expired /\ d \in Connections /\ held'[d] = held[d]
          BY <1>3, <2>1, <3>2 DEF TypeOK
        <4> QED  BY <1>12, <4>1 DEF ScopeInv, CopyInv
      <3> QED  BY <3>1, <3>2
    <2> QED  BY <2>1, <2>3, <2>4 DEF CopyInv
  <1> QED  BY <1>8, <1>11, <1>13, <1>14, <1>15 DEF ScopeInv

\* The scope changes: what was read and sent lacks the change set now, and
\* it is announced after all that waits to be sent.
LEMMA CommitStep ==
    ASSUME TypeOK, ScopeInv, Commit
    PROVE  TypeOK' /\ ScopeInv'
  <1>1. /\ immediates # <<>> /\ 1 \in Waits("commit")
        /\ immediates[1] = Head(immediates)
        /\ Head(immediates) \in Tasks /\ Head(immediates).do = "commit"
    BY HeadWaits DEF Commit
  <1>2. /\ version' = version + 1
        /\ UNCHANGED <<connectionVars, fetches, deciding, listening, scopes, stated, held,
                       lock, crashed>>
    BY DEF Commit
  <1>3. version \in Nat /\ version < MaxVersion
    BY <1>1, SessionsAssumption DEF TypeOK, ScopeInv, WriteInv
  <1> DEFINE t == [do |-> "announce", for |-> Head(immediates).for, held |-> {version + 1}]
  <1>4. {version + 1} \in SUBSET Versions
    BY <1>3, SessionsAssumption DEF Versions
  <1>5. t \in Tasks /\ t.do = "announce" /\ t.held = {version + 1} /\ Then(t)
    BY <1>1, <1>4, TaskTypes DEF Commit
  <1> HIDE DEF t
  <1>6. ASSUME NEW do
        PROVE  /\ immediates' \in Seq(Tasks)
               /\ Len(immediates) \in Nat
               /\ \A i \in Waits(do)' :
                     \/ /\ i \in Nat /\ i >= 1 /\ i + 1 \in Waits(do)
                        /\ immediates'[i] = immediates[i + 1]
                     \/ i = Len(immediates) /\ t.do = do /\ immediates'[i] = t
               /\ \A i \in Waits(do) \ {1} : i - 1 \in Waits(do)'
               /\ t.do = do => Len(immediates) \in Waits(do)'
    BY <1>1, <1>5, WaitsMoved
  <1>7. TypeOK'
    <2>1. immediates' \in Seq(Tasks)
      BY <1>6
    <2>2. version' \in 0..MaxVersion
      BY <1>2, <1>3, SessionsAssumption
    <2> QED  BY <1>2, <2>1, <2>2 DEF TypeOK, connectionVars
  <1>8. /\ lock /\ \A i \in Waits("commit") : i = 1
        /\ Waits("announce") = {}
    <2>1. 1 \notin Waits("announce")
      BY <1>1 DEF Waits
    <2> QED  BY <1>1, <2>1 DEF ScopeInv, WriteInv
  <1>9. /\ Waits("commit")' = {}
        /\ \A i \in Waits("announce")' : i = Len(immediates) /\ immediates'[i] = t
        /\ Len(immediates) \in Waits("announce")'
    <2>1. t.do # "commit" /\ \A i \in Waits("commit") : i = 1
      BY <1>5, <1>8
    <2>2. ASSUME NEW i \in Waits("commit")' PROVE FALSE
      <3>1. i \in Nat /\ i >= 1 /\ i + 1 \in Waits("commit")
        BY <1>6, <2>1
      <3> QED  BY <2>1, <3>1
    <2>3. \A i \in Waits("announce")' : i = Len(immediates) /\ immediates'[i] = t
      BY <1>6, <1>8
    <2>4. Len(immediates) \in Waits("announce")'
      BY <1>5, <1>6
    <2> QED  BY <2>2, <2>3, <2>4
  <1>10. WriteInv'
    BY <1>2, <1>5, <1>8, <1>9 DEF WriteInv
  <1>11. FetchInv'
    BY <1>2 DEF ScopeInv, FetchInv
  <1>12. SnapshotInv'
    <2> SUFFICES ASSUME NEW i \in Waits("fragments")'
                 PROVE  /\ immediates'[i].held = 1..(version' - 1)
                        /\ \E j \in Waits("announce")' : i < j
      BY DEF SnapshotInv
    <2>1. i \in Nat /\ i + 1 \in Waits("fragments") /\ immediates'[i] = immediates[i + 1]
      BY <1>5, <1>6
    <2>2. i + 1 \in 1..Len(immediates)
      BY <2>1 DEF Waits
    <2>3. immediates[i + 1].held = 1..version
      BY <1>8, <2>1 DEF ScopeInv, SnapshotInv
    <2> QED  BY <1>2, <1>3, <1>6, <1>9, <2>1, <2>2, <2>3
  <1>13. FollowInv'
    <2>1. \A d : Follows(d) => Follows(d)'
      BY <1>2 DEF Follows, connectionVars
    <2>2. \A i \in Waits("list")' : i + 1 \in Waits("list") /\ immediates'[i] = immediates[i + 1]
      BY <1>5, <1>6
    <2>3. \A i \in Waits("fragments")' :
             i + 1 \in Waits("fragments") /\ immediates'[i] = immediates[i + 1]
      BY <1>5, <1>6
    <2> QED
      BY <1>2, <2>1, <2>2, <2>3 DEF ScopeInv, FollowInv
  <1>14. CopyInv'
    <2>1. /\ \A d \in Connections : held[d] \subseteq 1..version
          /\ \A d \in stated \ expired : held[d] = 1..version
      BY <1>8 DEF ScopeInv, CopyInv
    <2>2. 1..version \subseteq 1..version' /\ version' - 1 = version
      BY <1>2, <1>3
    <2> QED
      BY <1>2, <1>9, <2>1, <2>2 DEF CopyInv, connectionVars
  <1> QED  BY <1>7, <1>10, <1>11, <1>12, <1>13, <1>14 DEF ScopeInv

\* All that have the state are told.
LEMMA AnnounceStep ==
    ASSUME TypeOK, ScopeInv, Announce
    PROVE  TypeOK' /\ ScopeInv'
  <1>1. /\ immediates # <<>> /\ 1 \in Waits("announce")
        /\ immediates[1] = Head(immediates)
        /\ Head(immediates) \in Tasks /\ Head(immediates).do = "announce"
    BY HeadWaits DEF Announce
  <1> DEFINE author == Head(immediates).for
             news == Head(immediates).held
  <1>2. news \in SUBSET Versions /\ news = {version} /\ version \in Nat
    BY <1>1, TaskTypes, SessionsAssumption DEF ScopeInv, WriteInv, TypeOK
  <1>3. /\ held' = [c \in Connections |->
                       IF c \in Told \cup {author} THEN held[c] \cup news ELSE held[c]]
        /\ crashed' = (author \in expired)
        /\ immediates' = Tail(immediates) /\ lock' = FALSE
        /\ UNCHANGED <<connectionVars, fetches, deciding, listening, scopes, stated, version>>
    BY DEF Announce
  <1> HIDE DEF author, news
  <1>4. ASSUME NEW do
        PROVE  /\ immediates' \in Seq(Tasks)
               /\ \A i \in Waits(do)' : /\ i \in Nat /\ i >= 1 /\ i + 1 \in Waits(do)
                                        /\ immediates'[i] = immediates[i + 1]
    BY <1>1, <1>3, WaitsPopped
  <1>5. crashed' \in BOOLEAN
    BY <1>3
  <1>6. held' \in [Connections -> SUBSET Versions]
    BY <1>2, <1>3 DEF TypeOK
  <1>7. TypeOK'
    BY <1>3, <1>4, <1>5, <1>6 DEF TypeOK, connectionVars
  <1>8. \A i \in Waits("commit") \cup Waits("announce") : i = 1
    BY <1>1 DEF ScopeInv, WriteInv
  <1>9. Waits("commit")' = {} /\ Waits("announce")' = {}
    <2>1. \A i \in Waits("commit")' : i \in Nat /\ i >= 1 /\ i + 1 \in Waits("commit")
      BY <1>4
    <2>2. \A i \in Waits("announce")' : i \in Nat /\ i >= 1 /\ i + 1 \in Waits("announce")
      BY <1>4
    <2> QED  BY <1>8, <2>1, <2>2
  <1>10. WriteInv' /\ FetchInv'
    BY <1>3, <1>9 DEF ScopeInv, WriteInv, FetchInv
  <1>11. SnapshotInv'
    <2>1. ASSUME NEW i \in Waits("fragments"), NEW j \in Waits("announce"), i < j
          PROVE  FALSE
      <3>1. i \in Nat /\ i >= 1
        BY DEF Waits
      <3> QED  BY <1>8, <2>1, <3>1
    <2>2. \A i \in Waits("fragments") : immediates[i].held = 1..version
      BY <2>1 DEF ScopeInv, SnapshotInv
    <2> QED  BY <1>3, <1>4, <2>2 DEF SnapshotInv
  <1>12. FollowInv'
    <2>1. \A d : Follows(d) => Follows(d)'
      BY <1>3 DEF Follows, connectionVars
    <2> QED
      BY <1>3, <1>4, <2>1 DEF ScopeInv, FollowInv
  <1>13. CopyInv'
    <2>1. version \in 1..version /\ version' = version /\ expired' = expired
          /\ stated' = stated /\ stated \subseteq Connections
      BY <1>2, <1>3 DEF Versions, TypeOK, connectionVars
    <2>2. \A d \in Connections : held'[d] \subseteq 1..version
      BY <1>2, <1>3, <2>1 DEF ScopeInv, CopyInv
    <2>3. ASSUME NEW d \in stated \ expired
          PROVE  held'[d] = 1..version
      <3>1. d \in Told /\ d \in Connections
        BY <2>1 DEF ScopeInv, FollowInv, Follows, Told
      <3>2. held'[d] = held[d] \cup {version}
        BY <1>2, <1>3, <3>1
      <3>3. held[d] = 1..version \/ 1..(version - 1) \subseteq held[d]
        BY DEF ScopeInv, CopyInv
      <3>4. 1..version = 1..(version - 1) \cup {version}
        BY <1>2, <2>1
      <3> QED  BY <2>1, <2>2, <3>1, <3>2, <3>3, <3>4
    <2> QED  BY <2>1, <2>2, <2>3 DEF CopyInv
  <1> QED  BY <1>7, <1>10, <1>11, <1>12, <1>13 DEF ScopeInv
-----------------------------------------------------------------------------
\* The invariant holds in every state.
LEMMA NextIInv == IInv /\ [Next]_vars => IInv'
  <1> SUFFICES ASSUME IInv, [Next]_vars PROVE IInv'
    OBVIOUS
  <1>1. TypeOK /\ ScopeInv /\ RegistryInv
    BY DEF IInv, ScopeInv
  <1>2. RegistryInv' /\ registry' \subseteq Connections /\ count' \in 0..Cardinality(Connections)
    BY <1>1, RegistryStep
  <1>3. CASE UNCHANGED vars
    <2>1. TypeOK'
      BY <1>1, <1>3 DEF TypeOK, vars, connectionVars, scopeVars
    <2>2. ScopeInv'
      BY <1>1, <1>3 DEF vars, connectionVars, scopeVars, ScopeInv, FetchInv, WriteInv,
                        FollowInv, Follows, SnapshotInv, CopyInv, Waits
    <2> QED  BY <1>2, <2>1, <2>2 DEF IInv, ScopeInv
  <1>4. ASSUME Next PROVE TypeOK' /\ ScopeInv'
    BY <1>1, <1>2, <1>4, ConnectionStep, ExpireStep, FetchStep, AcceptFetchStep,
       BeginApplyStep, ListStep, SendStep, CommitStep, AnnounceStep DEF Next, Immediate
  <1> QED  BY <1>2, <1>3, <1>4 DEF IInv, ScopeInv

LEMMA Inductive == Spec => []IInv
  <1> QED  BY InitIInv, NextIInv, PTL DEF Spec

\* Every variable keeps its type.
THEOREM TypeCorrect == Spec => []TypeOK
  <1>1. IInv => TypeOK  BY DEF IInv
  <1> QED  BY <1>1, Inductive, PTL

\* The registry has the sessions that were accepted and have not expired,
\* each counted once, as long as the process lives.
THEOREM Registry == Spec => []RegistryAgrees
  <1>1. IInv => RegistryAgrees
    BY DEF IInv, RegistryInv, RegistryAgrees, Accepted
  <1> QED  BY <1>1, Inductive, PTL

\* Once the event loop is through with its immediates, each client that has
\* the state has every change set.
THEOREM NothingMissed == Spec => []MissesNothing
  <1>1. ASSUME immediates = <<>> PROVE Waits("announce") = {}
    BY <1>1 DEF Waits
  <1>2. IInv => MissesNothing
    BY <1>1 DEF IInv, CopyInv, MissesNothing
  <1> QED  BY <1>2, Inductive, PTL
=============================================================================
