-------------------------------- MODULE Lists --------------------------------
(***************************************************************************)
(* What the code takes from lodash to work on arrays.                      *)
(***************************************************************************)
EXTENDS Naturals, Sequences

\* _.without: the array but for the values removed, in the same order.
Without(s, removed) ==
    LET kept[i \in 0..Len(s)] ==
            CASE i = 0 -> <<>>
              [] i > 0 /\ s[i] \in removed -> kept[i - 1]
              [] OTHER -> Append(kept[i - 1], s[i])
    IN  kept[Len(s)]
=============================================================================
