----------------------------- MODULE MCListener -----------------------------
(***************************************************************************)
(* Values for TLC are in the configuration; senders and receivers are      *)
(* model values.                                                           *)
(***************************************************************************)
EXTENDS Listener

=============================================================================
