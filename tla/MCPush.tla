------------------------------- MODULE MCPush -------------------------------
(***************************************************************************)
(* Push for TLC: three requests of any kind, two users and their devices.  *)
(***************************************************************************)
EXTENDS Push
=============================================================================
