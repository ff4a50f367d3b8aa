----------------------------- MODULE MCAccounts -----------------------------
(***************************************************************************)
(* Instances of Accounts for TLC: one phone number that all sign up with,  *)
(* or two, and two administrators.                                         *)
(***************************************************************************)
EXTENDS Accounts, TLC

Symmetry ==
    Permutations(RegisterCalls) \cup Permutations(BootstrapCalls) \cup Permutations(StatusCalls)
=============================================================================
