-------------------------- MODULE MCLedgerSessions --------------------------
(***************************************************************************)
(* Instances of LedgerSessions for TLC.  Users are the numbers 1 and 2:    *)
(* their order is the one in which wallets are locked, so they are not     *)
(* symmetric; the two server processes are.                                *)
(***************************************************************************)
EXTENDS LedgerSessions, TLC

Symmetry == Permutations(Workers)
=============================================================================
