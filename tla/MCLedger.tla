------------------------------ MODULE MCLedger ------------------------------
(***************************************************************************)
(* Instances of Ledger for TLC: two users, two mobile-money operators, the *)
(* amount of 10 hundredths, whose fee is rounded down to nothing at 4 %    *)
(* and up to one hundredth at 8 %.                                         *)
(***************************************************************************)
EXTENDS Ledger, TLC

Symmetry == Permutations(Users) \cup Permutations(Operators)
=============================================================================
