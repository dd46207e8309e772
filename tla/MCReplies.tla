----------------------------- MODULE MCReplies ------------------------------
\* Replies for TLC: each scope has a name of its own.
EXTENDS Replies, TLC
CONSTANTS s1, s2

Names == [s \in Scopes |-> s]
Alike == Permutations(Scopes)

\* Bound: the client's last message is of a session that has lost no websocket.
LastBeforeLoss == latestSocket > 1 => Len(clientSaid) < MaxClientMessages
=============================================================================
