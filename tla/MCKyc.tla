-------------------------------- MODULE MCKyc -------------------------------
(***************************************************************************)
(* Instances of Kyc for TLC: two clients, two submissions in progress (one *)
(* client twice, or both), and one or two administrators deciding.         *)
(***************************************************************************)
EXTENDS Kyc, TLC

Symmetry == Permutations(Users) \cup Permutations(SubmitCalls) \cup Permutations(DecideCalls)
=============================================================================
