--------------------------- MODULE LedgerEvidence ---------------------------
(***************************************************************************)
(* Ledger with a history variable: the operator payment that each deposit  *)
(* was confirmed with.  The table itself keeps only the proof declared by  *)
(* the client when there is one (COALESCE(proof_ref, p_proof_ref)).        *)
(***************************************************************************)
EXTENDS Ledger

VARIABLE shown   \* <<operator, proof, row>> for every deposit credited

evars == <<balance, ledger, audit, shown>>

EvidenceInit == Init /\ shown = {}

Confirm(r, proof) ==
    /\ ApprovePayin(r, proof)
    /\ shown' = shown \cup {<<ledger[r].provider, proof, r>>}

EvidenceNext ==
    \/ (ClientOperation \/ AdminOperation) /\ UNCHANGED shown
    \/ \E r \in Rows, proof \in Proofs : Confirm(r, proof)

EvidenceSpec == EvidenceInit /\ [][EvidenceNext]_evars

\* migration_001_schema.sql:73 says the same (provider, proof_ref) is never credited twice:
\* two deposits are never credited on the strength of one operator payment.  The default
\* proof, sent when the admin names no payment, is not one.
OneProofOneCredit ==
    \A c, d \in shown :
        c[1] = d[1] /\ c[2] = d[2] /\ c[2] # ManualProof => c = d
=============================================================================
