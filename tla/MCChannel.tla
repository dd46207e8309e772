----------------------------- MODULE MCChannel ------------------------------
(* Channel for TLC; the constants get their values in the cfg files. *)
EXTENDS Channel
=============================================================================
