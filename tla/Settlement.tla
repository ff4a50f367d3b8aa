----------------------------- MODULE Settlement -----------------------------
(***************************************************************************)
(* What a payment through JEKO promises, whatever handles it: money moves  *)
(* only after it was collected, what the row answers is backed by a move,  *)
(* and as long as nothing is in doubt each move happens once, before the   *)
(* only answer.  A payment is in doubt once a call to JEKO that had an     *)
(* effect got no answer, or once a reconciliation has acted beside the     *)
(* webhooks; from then on only the first two promises are left.            *)
(***************************************************************************)
EXTENDS Naturals

CONSTANTS
    Refs,     \* internal references
    Moves     \* identities of the collections and payouts at JEKO

VARIABLES
    kind,       \* the type of each payment, or "NONE" before it is asked for
    collected,  \* the collections of each payment that succeeded
    paid,       \* the payouts of each payment that succeeded
    credited,   \* credits of the internal wallet for the payment
    answer,     \* the status its row shows; PENDING also without a row
    clean       \* the payment is not in doubt

vars == <<kind, collected, paid, credited, answer, clean>>

Kinds == {"TRANSFER", "WITHDRAWAL", "DEPOSIT", "CASH_IN", "CASH_OUT"}
Collecting == {"TRANSFER", "DEPOSIT", "CASH_OUT"}
Paying == {"TRANSFER", "WITHDRAWAL", "CASH_IN"}

Init ==
    /\ kind = [r \in Refs |-> "NONE"]
    /\ collected = [r \in Refs |-> {}]
    /\ paid = [r \in Refs |-> {}]
    /\ credited = [r \in Refs |-> 0]
    /\ answer = [r \in Refs |-> "PENDING"]
    /\ clean = [r \in Refs |-> TRUE]

Ask(r, k) ==
    /\ kind[r] = "NONE"
    /\ kind' = [kind EXCEPT ![r] = k]
    /\ UNCHANGED <<collected, paid, credited, answer, clean>>

Collect(r, m) ==
    /\ kind[r] \in Collecting
    /\ clean[r] => collected[r] = {} /\ answer[r] = "PENDING"
    /\ collected' = [collected EXCEPT ![r] = @ \cup {m}]
    /\ UNCHANGED <<kind, paid, credited, answer, clean>>

\* The recipient of a transfer is paid with collected money, and not after a credit.
Pay(r, m) ==
    /\ kind[r] \in Paying
    /\ kind[r] = "TRANSFER" => collected[r] # {}
    /\ clean[r] => paid[r] = {} /\ credited[r] = 0 /\ answer[r] = "PENDING"
    /\ paid' = [paid EXCEPT ![r] = @ \cup {m}]
    /\ UNCHANGED <<kind, collected, credited, answer, clean>>

Doubt(r) ==
    /\ clean' = [clean EXCEPT ![r] = FALSE]
    /\ UNCHANGED <<kind, collected, paid, credited, answer>>

Answer(r, a) ==
    /\ clean[r] => answer[r] = "PENDING"
    /\ answer' = [answer EXCEPT ![r] = a]
    /\ UNCHANGED <<kind, collected, paid, clean>>

\* The payment did what it was asked to.
Succeed(r) ==
    /\ IF kind[r] \in Paying THEN paid[r] # {} ELSE collected[r] # {}
    /\ Answer(r, "SUCCESS")
    /\ credited' = IF kind[r] = "DEPOSIT" THEN [credited EXCEPT ![r] = @ + 1] ELSE credited

\* Nothing was collected, or nothing left the account.
Fail(r) ==
    /\ clean[r] => collected[r] = {} /\ paid[r] = {}
    /\ Answer(r, "FAILED")
    /\ UNCHANGED credited

\* The money that could not be paid out comes back as a credit.  In doubt, the row may
\* have been answered by another handler already.
Return(r) ==
    /\ kind[r] = "TRANSFER" => collected[r] # {}
    /\ clean[r] => paid[r] = {} /\ credited[r] = 0
    /\ \/ Answer(r, IF kind[r] = "TRANSFER" THEN "FAILED_PAYOUT" ELSE "FAILED")
       \/ ~clean[r] /\ Answer(r, answer[r])
    /\ credited' = [credited EXCEPT ![r] = @ + 1]

Next ==
    \E r \in Refs :
        \/ \E k \in Kinds : Ask(r, k)
        \/ \E m \in Moves : Collect(r, m) \/ Pay(r, m)
        \/ Doubt(r)
        \/ Succeed(r) \/ Fail(r) \/ Return(r)

Spec == Init /\ [][Next]_vars
=============================================================================
