---------------------------- MODULE MCMigrations ----------------------------
(* Migrations with the files of sql/ and what those that share objects define: files 1 to *)
(* 10 are migration_001 to migration_010, 11 and 12 both are numbered 011, 13 is 012.      *)
EXTENDS Migrations, TLC

CONSTANTS credit, deduct, decide, proofs   \* three functions and the index of the proofs

MCObjects == {credit, deduct, decide, proofs}

MCDefines ==
    [f \in 1 .. LastFile |->
        CASE f = 1  -> MCObjects
          [] f = 3  -> {deduct}
          [] f = 4  -> MCObjects
          [] f = 9  -> {credit}
          [] f = 10 -> {proofs}
          [] OTHER  -> {}]

Symmetry == Permutations(Processes)
=============================================================================
