------------------------- MODULE TransportMessages -------------------------
(***************************************************************************)
(* What the two ends of a session exchange, reduced to what the transports *)
(* look at: the index, and for a Ping the acknowledgement and the request  *)
(* to resend.  Every message but a Ping carries an index above 0 once the  *)
(* session is established; a Ping always carries 0 and is never            *)
(* acknowledged.                                                           *)
(***************************************************************************)
EXTENDS Naturals, Sequences, FiniteSets

Message == [index : Nat, ack : Nat, resendMissing : BOOLEAN]

Data(i) == [index |-> i, ack |-> 0, resendMissing |-> FALSE]

Ping(ack, resend) == [index |-> 0, ack |-> ack, resendMissing |-> resend]

IsPing(m) == m.index = 0

(***************************************************************************)
(* Both ends keep the messages the peer has not acknowledged in an array   *)
(* that is only ever appended to, in the order the indices are given out,  *)
(* and filtered: the set of its indices determines it.  Unacked is the     *)
(* filter of a Ping's handler.  InOrder is the array itself: the one       *)
(* enumeration of the set that ascends.                                    *)
(***************************************************************************)
Unacked(indices, ack) == {i \in indices : i > ack}

InOrder(indices) ==
    {q \in [1..Cardinality(indices) -> indices] :
        \A j, k \in 1..Cardinality(indices) : j < k => q[j] < q[k]}

DataSeq(q) == [k \in DOMAIN q |-> Data(q[k])]
============================================================================
