------------------------------- MODULE MCJeko -------------------------------
(***************************************************************************)
(* Jeko for TLC: one payment of any type.                                  *)
(***************************************************************************)
EXTENDS Jeko
=============================================================================
