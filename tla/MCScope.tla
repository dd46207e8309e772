------------------------------ MODULE MCScope -------------------------------
\* ScopeApply for TLC.
EXTENDS ScopeApply
CONSTANTS ur, ua, ub

MCUuids == {ur, ua, ub}
MCCollections == {<<>>, <<ua>>, <<ub, ub>>}

\* A fragment that sets both properties comes to two that set one each.
MCFragments == [child : Uuids \cup {Null, Unset}, items : {Unset}]
               \cup [child : {Unset}, items : Collections]

\* Bound: the root is removed between two applies, after which there is no
\* other, or from the change stage of one on.
Rooted == root \in scoped \cup {Null} \/ stage \in {"change", "orphan", "free"}
=============================================================================
