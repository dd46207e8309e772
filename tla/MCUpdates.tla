----------------------------- MODULE MCUpdates -----------------------------
\* Updates for TLC.
EXTENDS Updates
CONSTANTS q1, q2, a, b

MCArrays == {<<a>>, <<b, a>>}
InsertIntoRoot ==
    {[cls |-> "root", items |-> "insert", additional |-> FALSE],
     [cls |-> "group", items |-> "newValue", additional |-> TRUE]}
=============================================================================
