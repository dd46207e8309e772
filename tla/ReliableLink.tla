---------------------------- MODULE ReliableLink ----------------------------
(***************************************************************************)
(* What "message acknowledgement and resend" promises for one direction of *)
(* a session: messages are numbered as they are produced, the receiver     *)
(* consumes them one by one in that order, and the sender forgets only     *)
(* what has been consumed.  There is no connection here, hence none to     *)
(* lose.                                                                   *)
(***************************************************************************)
EXTENDS Naturals

VARIABLES
    produced,   \* the number of the last message produced
    consumed,   \* the number of the last message consumed
    retained    \* the messages the sender can still send again

linkVars == <<produced, consumed, retained>>

LinkInit ==
    /\ produced = 0
    /\ consumed = 0
    /\ retained = {}

Produce ==
    /\ produced' = produced + 1
    /\ retained' = retained \cup {produced + 1}
    /\ UNCHANGED consumed

Consume ==
    /\ consumed < produced
    /\ consumed' = consumed + 1
    /\ UNCHANGED <<produced, retained>>

Forget ==
    /\ \E upTo \in 0..consumed : retained' = {i \in retained : i > upTo}
    /\ UNCHANGED <<produced, consumed>>

LinkNext == Produce \/ Consume \/ Forget

LinkSpec == LinkInit /\ [][LinkNext]_linkVars
=============================================================================
