------------------------------- MODULE Ledger -------------------------------
(***************************************************************************)
(* The wallets and the ledger of the Ayak'bine backend, at the level of    *)
(* its SQL functions: every operation below is one database transaction    *)
(* that holds the row locks it needs, so here it is one atomic step.       *)
(*                                                                         *)
(* Money is counted in hundredths of XOF, the unit of NUMERIC(15,2).       *)
(* A call that the code refuses ({success: false}, a 4xx, or an exception  *)
(* rolled back) changes nothing and is not a step.                         *)
(***************************************************************************)
EXTENDS Integers, Sequences, FiniteSetsExt

CONSTANTS
    Users,         \* the registered users, each with a wallet
    Operators,     \* mobile-money operators: WAVE, ORANGE, MTN, MOOV
    Proofs,        \* references of operator payments, and the default one:
    ManualProof,   \* what the admin who names no payment sends, MANUEL-ADMIN-<phone>
    DeclaredProofs,  \* the references clients give with their deposits
    NoProof,       \* proof_ref IS NULL
    Amounts,       \* the amounts clients and admins send
    FeePercents,   \* the values fee_percent may have
    DecidedTypes,  \* types of the rows whose id is sent to /process-payout
    MaxRows        \* bound: rows of the ledger

RowTypes    == {"PAY_IN", "PAY_OUT", "INTERNAL_TRANSFER"}
RowStatuses == {"PENDING", "SUCCESS", "FAILED", "CANCELLED"}
RowRoles    == {"owner", "sender", "recipient"}
Decisions   == {"APPROVE_PAYOUT", "REJECT_PAYOUT"}

ASSUME UsersAssumption   == IsFiniteSet(Users)
ASSUME AmountsAssumption == Amounts \subseteq Nat \ {0}
ASSUME FeesAssumption    == FeePercents \subseteq 0 .. 100
ASSUME ProofsAssumption  == ManualProof \in Proofs /\ DeclaredProofs \subseteq Proofs
                                /\ NoProof \notin Proofs
ASSUME TypesAssumption   == "PAY_OUT" \in DecidedTypes /\ DecidedTypes \subseteq RowTypes
ASSUME BoundAssumption   == MaxRows \in Nat

VARIABLES
    balance,   \* wallets.balance, per user
    ledger,    \* ledger_transactions, in the order of insertion
    audit      \* admin_audit_log, in the order of insertion

vars == <<balance, ledger, audit>>

Row == [user: Users, type: RowTypes, provider: Operators \cup {"ADMIN_MANUAL", "INTERNAL"},
        amount: Nat \ {0}, fee: Nat, status: RowStatuses,
        proof: Proofs \cup {NoProof}, role: RowRoles]

AuditEntry == [action: Decisions, target: Nat \ {0}]

Rows == DOMAIN ledger

Init ==
    /\ balance = [u \in Users |-> 0]
    /\ ledger = <<>>
    /\ audit = <<>>

-----------------------------------------------------------------------------
(* The rows the code inserts. *)

PayinRow(u, prov, a, status, proof) ==
    [user |-> u, type |-> "PAY_IN", provider |-> prov, amount |-> a, fee |-> 0,
     status |-> status, proof |-> proof, role |-> "owner"]

PayoutRow(u, prov, a) ==
    [user |-> u, type |-> "PAY_OUT", provider |-> prov, amount |-> a, fee |-> 0,
     status |-> "PENDING", proof |-> NoProof, role |-> "owner"]

TransferRow(u, a, fee, role) ==
    [user |-> u, type |-> "INTERNAL_TRANSFER", provider |-> "INTERNAL", amount |-> a,
     fee |-> fee, status |-> "SUCCESS", proof |-> NoProof, role |-> role]

Room(n) == Len(ledger) + n <= MaxRows

\* COALESCE(first, second) on proof references.
CoalesceSwapped(first, second) == IF second = NoProof THEN first ELSE second
Coalesce(first, second) == IF first = NoProof THEN second ELSE first

ProofTakenByCredit(prov, proof, r) ==
    \E q \in Rows \ {r} :
        ledger[q].provider = prov /\ ledger[q].proof = proof /\ ledger[q].status = "SUCCESS"

\* Some row other than r carries this proof for this operator.
ProofTaken(prov, proof, r) ==
    /\ proof # NoProof
    /\ \E q \in Rows \ {r} : ledger[q].provider = prov /\ ledger[q].proof = proof

\* ROUND(amount * percent / 100, 2), half away from zero.
FeeOf(a, p) == (a * p + 50) \div 100

\* v_total: what a transfer takes from the sender's wallet.
ChargedWithoutFee(a, fee) == a
Charged(a, fee) == a + fee

\* The balance test made under the wallet's row lock, before every debit.
HasFundsForAmount(u, amount, total) == balance[u] >= amount
HasFunds(u, amount, total) == balance[u] >= total

-----------------------------------------------------------------------------
(* Client operations *)

\* POST /payin/declare and /payin/declare-async: a PENDING row, or a 409 when
\* the operator's proof is already on a row.
DeclarePayin(u, prov, a, proof) ==
    /\ Room(1)
    /\ ~ProofTaken(prov, proof, 0)
    /\ ledger' = Append(ledger, PayinRow(u, prov, a, "PENDING", proof))
    /\ UNCHANGED <<balance, audit>>

\* process_payout_deduction: the amount leaves the balance when the client asks.
RequestPayout(u, prov, a) ==
    /\ Room(1)
    /\ HasFunds(u, a, a)
    /\ balance' = [balance EXCEPT ![u] = @ - a]
    /\ ledger' = Append(ledger, PayoutRow(u, prov, a))
    /\ UNCHANGED audit

\* process_internal_transfer: the sender pays amount + fee, the recipient gets amount.
TransferInternal(u, v, a, p) ==
    LET fee == FeeOf(a, p) IN
    /\ Room(2)
    /\ u # v
    /\ HasFunds(u, a, Charged(a, fee))
    /\ balance' = [balance EXCEPT ![u] = @ - Charged(a, fee), ![v] = @ + a]
    /\ ledger' = Append(Append(ledger, TransferRow(u, a, fee, "sender")),
                        TransferRow(v, a, 0, "recipient"))
    /\ UNCHANGED audit

-----------------------------------------------------------------------------
(* Admin operations *)

CreditableTwice(r) == ledger[r].status # "CANCELLED"
Creditable(r) == ledger[r].status \in {"PENDING", "FAILED"}

\* The two columns the UPDATEs of a row write.
Settled(row, status, proof) == [row EXCEPT !.status = status, !.proof = proof]

\* POST /process-payin/{id} with APPROVE: the route takes any PAY_IN row and passes the
\* row's own amount as the confirmed amount; then process_payin_credit.
ApprovePayin(r, proof) ==
    /\ ledger[r].type = "PAY_IN"
    /\ Creditable(r)
    /\ ~ProofTaken(ledger[r].provider, proof, r)
    /\ balance' = [balance EXCEPT ![ledger[r].user] = @ + ledger[r].amount]
    /\ ledger' = [ledger EXCEPT ![r] = Settled(@, "SUCCESS", Coalesce(@.proof, proof))]
    /\ UNCHANGED audit

\* POST /process-payin/{id} with REJECT: one guarded UPDATE.
RejectPayin(r) ==
    /\ ledger[r].type = "PAY_IN"
    /\ ledger[r].status = "PENDING"
    /\ ledger' = [ledger EXCEPT ![r] = Settled(@, "FAILED", @.proof)]
    /\ UNCHANGED <<balance, audit>>

DecidableAgain(r) == ledger[r].type \in DecidedTypes /\ ledger[r].status # "CANCELLED"

\* admin_process_payout looks at the status and never at the type; DecidedTypes says
\* which ids the admin sends (the dashboard lists PAY_OUT rows).
Decidable(r) == ledger[r].type \in DecidedTypes /\ ledger[r].status = "PENDING"

\* APPROVE: the unique index on (provider, proof_ref) rolls back a reused proof.
ApprovePayout(r, proof) ==
    /\ Decidable(r)
    /\ ~ProofTaken(ledger[r].provider, proof, r)
    /\ ledger' = [ledger EXCEPT ![r] = Settled(@, "SUCCESS", Coalesce(proof, @.proof))]
    /\ audit' = Append(audit, [action |-> "APPROVE_PAYOUT", target |-> r])
    /\ UNCHANGED balance

\* REJECT: the reserved amount goes back to the wallet.
RejectPayout(r) ==
    /\ Decidable(r)
    /\ balance' = [balance EXCEPT ![ledger[r].user] = @ + ledger[r].amount]
    /\ ledger' = [ledger EXCEPT ![r] = Settled(@, "CANCELLED", @.proof)]
    /\ audit' = Append(audit, [action |-> "REJECT_PAYOUT", target |-> r])

\* admin_manual_credit: money and its ledger row in one transaction.
ManualCredit(u, a) ==
    /\ Room(1)
    /\ balance' = [balance EXCEPT ![u] = @ + a]
    /\ ledger' = Append(ledger, PayinRow(u, "ADMIN_MANUAL", a, "SUCCESS", NoProof))
    /\ UNCHANGED audit

ClientOperation ==
    \/ \E u \in Users, prov \in Operators, a \in Amounts, proof \in DeclaredProofs \cup {NoProof} :
          DeclarePayin(u, prov, a, proof)
    \/ \E u \in Users, prov \in Operators, a \in Amounts : RequestPayout(u, prov, a)
    \/ \E u, v \in Users, a \in Amounts, p \in FeePercents : TransferInternal(u, v, a, p)

AdminOperation ==
    \/ \E r \in Rows : RejectPayin(r)
    \/ \E r \in Rows, proof \in Proofs \cup {NoProof} : ApprovePayout(r, proof)
    \/ \E r \in Rows : RejectPayout(r)
    \/ \E u \in Users, a \in Amounts : ManualCredit(u, a)

Next ==
    \/ ClientOperation
    \/ \E r \in Rows, proof \in Proofs : ApprovePayin(r, proof)
    \/ AdminOperation

Spec == Init /\ [][Next]_vars

-----------------------------------------------------------------------------
(* Properties *)

\* Every wallet is a whole number of cents and never negative (the CHECK of
\* migration_001), every ledger row and audit entry is well formed.
TypeOK ==
    /\ balance \in [Users -> Nat]
    /\ ledger \in Seq(Row)
    /\ Len(ledger) <= MaxRows
    /\ audit \in Seq(AuditEntry)

\* What a row has done to its user's wallet, read from the row alone: a deposit counts
\* once SUCCESS, a withdrawal from its request until it is CANCELLED, a transfer always.
Effect(row) ==
    CASE row.type = "PAY_IN"  -> IF row.status = "SUCCESS" THEN row.amount ELSE 0
      [] row.type = "PAY_OUT" -> IF row.status \in {"PENDING", "SUCCESS"} THEN -row.amount ELSE 0
      [] OTHER -> IF row.role = "sender" THEN -(row.amount + row.fee) ELSE row.amount

EffectOn(log, u, n) == IF log[n].user = u THEN Effect(log[n]) ELSE 0

\* The account statement of u: the sum of the effects of the rows.
Statement(log, u) ==
    LET total[n \in 0 .. Len(log)] == IF n = 0 THEN 0 ELSE total[n - 1] + EffectOn(log, u, n)
    IN  total[Len(log)]

\* The stored balance of every wallet is the one its ledger rows add up to: no operation
\* moves money without its row, twice for one row, or for a row in the wrong status.
Reconciled == \A u \in Users : balance[u] = Statement(ledger, u)

\* The sum of f over a finite set, and of a column over chosen rows of the ledger.
SumOn(f, S) == MapThenSumSet(LAMBDA x : f[x], S)

SoldeGlobal == SumOn(balance, Users)
FraisTotal  == SumOn([r \in Rows |-> ledger[r].fee], Rows)

AmountOf(rows) == SumOn([r \in Rows |-> ledger[r].amount], rows)
Confirmed == AmountOf({r \in Rows : ledger[r].type = "PAY_IN" /\ ledger[r].status = "SUCCESS"})
Withdrawn == AmountOf({r \in Rows : ledger[r].type = "PAY_OUT"
                                     /\ ledger[r].status \in {"PENDING", "SUCCESS"}})

\* The dashboard's figures balance: the wallets, the collected fees and the withdrawals
\* (reserved or sent) are together exactly the deposits confirmed so far.
Conserved == SoldeGlobal + FraisTotal + Withdrawn = Confirmed

\* One proof of an operator is on one row at most.  The unique index sees to it for
\* declarations and withdrawals; process_payin_credit, which tests the proof the admin sends
\* and may store another one, never runs into the index.
ProofsUnique ==
    \A q, r \in Rows :
        /\ ledger[q].proof # NoProof
        /\ ledger[q].provider = ledger[r].provider
        /\ ledger[q].proof = ledger[r].proof
        => q = r

EntriesFor(r) == {i \in DOMAIN audit : audit[i].target = r}

\* The audit log tells what happened to every withdrawal: nothing while it is PENDING,
\* then one entry for one decision, the one its status shows.
AuditMatchesDecisions ==
    \A r \in Rows : ledger[r].type = "PAY_OUT" =>
        CASE ledger[r].status = "PENDING"   -> EntriesFor(r) = {}
          [] ledger[r].status = "SUCCESS"   ->
                \E i \in DOMAIN audit : EntriesFor(r) = {i} /\ audit[i].action = "APPROVE_PAYOUT"
          [] ledger[r].status = "CANCELLED" ->
                \E i \in DOMAIN audit : EntriesFor(r) = {i} /\ audit[i].action = "REJECT_PAYOUT"
          [] OTHER -> FALSE

SameRequest(old, new) ==
    /\ [new EXCEPT !.status = old.status, !.proof = old.proof] = old
    /\ old.proof # NoProof => new.proof = old.proof

HistoryKept ==
    \A r \in Rows :
        /\ r \in Rows'
        /\ SameRequest(ledger[r], ledger'[r])
        /\ ledger[r].status \in {"SUCCESS", "CANCELLED"} => ledger'[r] = ledger[r]

\* A row is never removed, what the client asked never changes, a stored proof is never
\* replaced, and SUCCESS and CANCELLED are final whatever calls arrive late.
RowsKeepTheirHistory == [][HistoryKept]_vars

\* migration_001_schema.sql:48 says of wallets.balance that it is credited only on a
\* confirmed Pay-In; a refund and a received transfer are the code's two other credits.
CreditOnlyOnConfirmedPayin ==
    [][\A u \in Users : balance'[u] > balance[u] =>
          \E r \in Rows' :
             /\ ledger'[r].user = u
             /\ r \in Rows => ledger'[r] # ledger[r]
             /\ \/ ledger'[r].type = "PAY_IN" /\ ledger'[r].status = "SUCCESS"
                \/ ledger'[r].type = "PAY_OUT" /\ ledger'[r].status = "CANCELLED"
                \/ ledger'[r].type = "INTERNAL_TRANSFER"]_vars

=============================================================================
