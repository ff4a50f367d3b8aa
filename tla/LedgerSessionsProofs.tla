------------------------ MODULE LedgerSessionsProofs ------------------------
(***************************************************************************)
(* Proofs about LedgerSessions: the transactions of concurrent calls       *)
(* implement the atomic operations of Ledger, keep the types and never     *)
(* wait for one another in a circle, for every number of users, workers,   *)
(* calls and rows.                                                         *)
(***************************************************************************)
EXTENDS LedgerSessions, LedgerProofs

-----------------------------------------------------------------------------
(* The inductive invariant *)

Statements == {"first", "lock", "lock2", "wallet", "write", "commit"}
Declares == {"declare", "declare-async"}
Decisive == {"approve-payin", "reject-payin", "approve-payout", "reject-payout"}

\* A deposit that may still be credited and a withdrawal that may still be decided are of
\* a real operator: manual credits and transfers are born SUCCESS.
OpenHasOperator ==
    \A r \in Rows : ledger[r].status \in {"PENDING", "FAILED"} => ledger[r].provider \in Operators

\* The row is in the state the decision j has found it in.
Open(j) ==
    /\ j.row \in Rows
    /\ CASE j.op = "approve-payin" -> ledger[j.row].type = "PAY_IN" /\ Creditable(j.row)
         [] j.op = "reject-payin"  -> ledger[j.row].type = "PAY_IN" /\ ledger[j.row].status = "PENDING"
         [] OTHER -> Decidable(j.row)

OwnersWallet(j) == Wallet(ledger[j.row].user)
ProofsKey(j) == Key(ledger[j.row].provider, NewProof(j))
ProofIsFree(j) == ~ProofTaken(ledger[j.row].provider, NewProof(j), j.row)

\* The locks of the transaction of j at each statement before the last, and what it knows
\* of the rows and wallets it has locked.
Underway(j, at, locks) ==
    \/ at = "first" /\ locks = {}
    \/ /\ at = "lock" /\ j.op = "transfer"
       /\ j.percent \in FeePercents /\ locks = {}
    \/ /\ at = "lock2" /\ j.op = "transfer"
       /\ j.percent \in FeePercents /\ j.user # j.to
       /\ locks = Wallet(FirstLocked(j.user, j.to))
    \/ /\ at = "wallet" /\ j.op \in {"approve-payin", "reject-payout"}
       /\ Open(j) /\ locks = LedgerRow(j.row)
    \/ /\ at = "write" /\ j.op = "approve-payin"
       /\ Open(j) /\ locks = LedgerRow(j.row) \cup OwnersWallet(j)
    \/ /\ at = "write" /\ j.op = "approve-payout"
       /\ Open(j) /\ locks = LedgerRow(j.row)

\* Before it commits, what its effect relies on is protected by its locks.
Ready(j, locks) ==
    \/ /\ j.op \in Declares
       /\ ~ProofTaken(j.provider, j.proof, 0) /\ locks = Key(j.provider, j.proof)
    \/ /\ j.op = "payout"
       /\ HasFunds(j.user, j.amount, j.amount) /\ locks = Wallet(j.user)
    \/ /\ j.op = "transfer"
       /\ j.percent \in FeePercents /\ j.user # j.to
       /\ HasFunds(j.user, j.amount, Charged(j.amount, FeeOf(j.amount, j.percent)))
       /\ locks = Wallet(j.user) \cup Wallet(j.to)
    \/ j.op = "credit" /\ locks = Wallet(j.user)
    \/ /\ j.op = "approve-payin"
       /\ Open(j) /\ ProofIsFree(j)
       /\ locks = LedgerRow(j.row) \cup OwnersWallet(j) \cup ProofsKey(j)
    \/ j.op = "reject-payin" /\ Open(j) /\ locks = LedgerRow(j.row)
    \/ /\ j.op = "approve-payout"
       /\ Open(j) /\ ProofIsFree(j) /\ locks = LedgerRow(j.row) \cup ProofsKey(j)
    \/ /\ j.op = "reject-payout"
       /\ Open(j) /\ locks = LedgerRow(j.row) \cup OwnersWallet(j)

Sound(j, at, locks) == IF at = "commit" THEN Ready(j, locks) ELSE Underway(j, at, locks)

\* The request of a call that is busy: a row it names exists.
Asks(j) == j \in Jobs /\ (j.op \in Decisive => j.row \in Rows)

CallsSound == \A c \in Calls : Busy(c) => Asks(job[c]) /\ Sound(job[c], pc[c], held[c])

SInv == TypeOK /\ STypeOK /\ OpenHasOperator /\ CallsSound

-----------------------------------------------------------------------------
(* Requests and locks *)

\* What each kind of request names.
LEMMA JobForms ==
    ASSUME NEW j \in Jobs
    PROVE  /\ j.op \in Declares \cup {"payout", "transfer", "credit"} \cup Decisive
           /\ j.op \in Declares \cup {"payout", "transfer", "credit"} =>
                 "row" \notin DOMAIN j /\ j.user \in Users /\ j.amount \in Amounts
           /\ j.op \in Declares =>
                 j.provider \in Operators /\ j.proof \in DeclaredProofs \cup {NoProof}
           /\ j.op = "payout" => j.provider \in Operators
           /\ j.op = "transfer" => j.to \in Users
           /\ j.op \in Decisive => "row" \in DOMAIN j /\ j.row \in 1 .. MaxRows
           /\ j.op = "approve-payin" => j.proof \in Proofs
           /\ j.op = "approve-payout" => j.proof \in Proofs \cup {NoProof}
PROOF
<1>1. CASE j \in [op: Routes, user: Users, provider: Operators, amount: Amounts,
                  proof: DeclaredProofs \cup {NoProof}]
    BY <1>1, RoutesAssumption DEF Declares, Decisive
<1>2. CASE j \in [op: {"payout"}, user: Users, provider: Operators, amount: Amounts]
    BY <1>2 DEF Declares, Decisive
<1>3. CASE j \in [op: {"transfer"}, user: Users, to: Users, amount: Amounts,
                  percent: {0} \cup FeePercents]
    BY <1>3 DEF Declares, Decisive
<1>4. CASE j \in [op: {"credit"}, user: Users, amount: Amounts]
    BY <1>4 DEF Declares, Decisive
<1>5. CASE j \in [op: {"approve-payin"}, row: 1 .. MaxRows, proof: Proofs]
    BY <1>5 DEF Declares, Decisive
<1>6. CASE j \in [op: {"approve-payout"}, row: 1 .. MaxRows, proof: Proofs \cup {NoProof}]
    BY <1>6 DEF Declares, Decisive
<1>7. CASE j \in [op: {"reject-payin", "reject-payout"}, row: 1 .. MaxRows]
    BY <1>7 DEF Declares, Decisive
<1> QED
    BY <1>1, <1>2, <1>3, <1>4, <1>5, <1>6, <1>7 DEF Jobs, Requests

\* What the next statement of each kind of call locks.
LEMMA WantedLocks ==
    ASSUME NEW c \in Calls, job[c] \in Jobs
    PROVE  LET j == job[c] IN
           /\ pc[c] = "first" /\ j.op \in Declares => Wanted(c) = Key(j.provider, j.proof)
           /\ pc[c] = "first" /\ j.op \in {"payout", "credit"} => Wanted(c) = Wallet(j.user)
           /\ pc[c] = "first" /\ j.op = "transfer" => Wanted(c) = {}
           /\ pc[c] = "first" /\ j.op \in Decisive => Wanted(c) = LedgerRow(j.row)
           /\ pc[c] = "lock" => Wanted(c) = Wallet(FirstLocked(j.user, j.to))
           /\ pc[c] = "lock2" => Wanted(c) = Wallet(SecondLocked(j.user, j.to))
           /\ pc[c] = "wallet" => Wanted(c) = OwnersWallet(j)
           /\ pc[c] = "write" => Wanted(c) = ProofsKey(j)
           /\ pc[c] = "commit" => Wanted(c) = {}
PROOF
<1> DEFINE j == job[c]
<1>1. CASE pc[c] # "first"
    BY <1>1 DEF Wanted, OwnersWallet, ProofsKey
<1>2. CASE pc[c] = "first" /\ j.op \in Declares
    BY <1>2, JobForms DEF Wanted, Declares, Decisive
<1>3. CASE pc[c] = "first" /\ j.op \in {"payout", "credit", "transfer"}
    BY <1>3, JobForms DEF Wanted, Declares, Decisive
<1>4. CASE pc[c] = "first" /\ j.op \in Decisive
    BY <1>4, JobForms DEF Wanted, Declares, Decisive, RowLock
<1> QED
    BY <1>1, <1>2, <1>3, <1>4, JobForms DEF Declares, Decisive

\* The three kinds of locks are those of the program.
LEMMA LockTypes ==
    /\ \A u \in Users : Wallet(u) \subseteq Locks
    /\ \A r \in 1 .. MaxRows : LedgerRow(r) \subseteq Locks
    /\ \A prov \in Operators, proof \in Proofs \cup {NoProof} : Key(prov, proof) \subseteq Locks
PROOF
<1>1. ASSUME NEW u \in Users PROVE Wallet(u) \subseteq Locks
  <2>1. Wallet(u) \subseteq UNION {Wallet(v) : v \in Users}
    OBVIOUS
  <2> QED
    BY <2>1 DEF Locks
<1>2. ASSUME NEW r \in 1 .. MaxRows PROVE LedgerRow(r) \subseteq Locks
  <2>1. LedgerRow(r) \subseteq UNION {LedgerRow(q) : q \in 1 .. MaxRows}
    OBVIOUS
  <2> QED
    BY <2>1 DEF Locks
<1>3. ASSUME NEW prov \in Operators, NEW proof \in Proofs PROVE Key(prov, proof) \subseteq Locks
  <2>1. Key(prov, proof) \subseteq UNION {Key(q, p) : q \in Operators, p \in Proofs}
    OBVIOUS
  <2> QED
    BY <2>1 DEF Locks
<1>4. \A prov \in Operators : Key(prov, NoProof) = {}
    BY DEF Key
<1> QED
    BY <1>1, <1>2, <1>3, <1>4

\* Rows have numbers up to the bound, and are rows of the table.
LEMMA RowTypesOK ==
    ASSUME TypeOK
    PROVE  /\ Len(ledger) \in Nat /\ Len(ledger) <= MaxRows /\ ledger \in Seq(Row)
           /\ Rows = 1 .. Len(ledger)
           /\ \A r \in Rows : ledger[r] \in Row /\ r \in 1 .. MaxRows
PROOF
<1>1. ledger \in Seq(Row) /\ Len(ledger) \in Nat /\ Rows = 1 .. Len(ledger)
    BY LenProperties DEF TypeOK, Rows
<1> QED
    BY <1>1, ElementOfSeq, BoundAssumption DEF TypeOK

\* A decision about an open row: its owner, operator and proof are known.
LEMMA OpenRow ==
    ASSUME TypeOK, OpenHasOperator, NEW j \in Jobs, j.op \in Decisive, Open(j)
    PROVE  /\ j.row \in Rows /\ ledger[j.row] \in Row /\ ledger[j.row].user \in Users
           /\ ledger[j.row].provider \in Operators
           /\ j.op \in {"approve-payin", "approve-payout"} => NewProof(j) \in Proofs \cup {NoProof}
PROOF
<1>1. j.row \in Rows /\ ledger[j.row] \in Row
    BY RowTypesOK DEF Open
<1>2. ledger[j.row].status \in {"PENDING", "FAILED"}
    BY DEF Open, Creditable, Decidable, Decisive
<1>3. ledger[j.row].user \in Users /\ ledger[j.row].proof \in Proofs \cup {NoProof}
    BY <1>1 DEF Row
<1>4. j.op \in {"approve-payin", "approve-payout"} => NewProof(j) \in Proofs \cup {NoProof}
    BY <1>3, JobForms, CoalesceType DEF NewProof
<1> QED
    BY <1>1, <1>2, <1>3, <1>4 DEF OpenHasOperator

\* A sound transaction holds locks of the program.
LEMMA SoundLocks ==
    ASSUME TypeOK, OpenHasOperator, NEW j \in Jobs, NEW at, NEW locks, Sound(j, at, locks)
    PROVE  locks \subseteq Locks
PROOF
<1> USE DEF Declares, Decisive
<1>1. CASE at # "commit"
  <2>1. Underway(j, at, locks)
    BY <1>1 DEF Sound
  <2>2. CASE j.op = "transfer"
    BY <2>1, <2>2, JobForms, LockTypes DEF Underway, FirstLocked
  <2>3. CASE j.op \in Decisive
    BY <2>1, <2>3, OpenRow, LockTypes, RowTypesOK DEF Underway, OwnersWallet
  <2> QED
    BY <2>1, <2>2, <2>3, JobForms DEF Underway
<1>2. CASE at = "commit"
  <2>1. Ready(j, locks)
    BY <1>2 DEF Sound
  <2>2. CASE j.op \notin Decisive
    BY <2>1, <2>2, JobForms, LockTypes, ProofsAssumption DEF Ready
  <2>3. CASE j.op \in Decisive
    <3>1. Open(j)
      BY <2>1, <2>3 DEF Ready
    <3>2. LedgerRow(j.row) \subseteq Locks /\ OwnersWallet(j) \subseteq Locks
      BY <2>3, <3>1, OpenRow, LockTypes, RowTypesOK DEF OwnersWallet
    <3>3. j.op \in {"approve-payin", "approve-payout"} => ProofsKey(j) \subseteq Locks
      BY <2>3, <3>1, OpenRow, LockTypes DEF ProofsKey
    <3> QED
      BY <2>1, <2>3, <3>2, <3>3 DEF Ready
  <2> QED
    BY <2>2, <2>3
<1> QED
    BY <1>1, <1>2

-----------------------------------------------------------------------------
(* Commits *)

\* What a transaction that is ready writes when it commits is one operation of Ledger.  The
\* administrator's proof may have been taken since it was tested: the operation that is
\* executed confirms the deposit with the proof its row keeps.
LEMMA CommitIsOperation ==
    ASSUME TypeOK, NEW j \in Jobs, Asks(j), NEW locks, Ready(j, locks), Effects(j), Room(RowsOf(j.op))
    PROVE  Next
PROOF
<1> USE DEF Declares, Decisive
<1>1. CASE j.op \in Declares
  <2>1. j.user \in Users /\ j.provider \in Operators /\ j.amount \in Amounts
        /\ j.proof \in DeclaredProofs \cup {NoProof}
    BY <1>1, JobForms
  <2>2. DeclarePayin(j.user, j.provider, j.amount, j.proof)
    BY <1>1 DEF Ready, Effects, RowsOf, DeclarePayin
  <2> QED
    BY <2>1, <2>2 DEF Next, ClientOperation
<1>2. CASE j.op = "payout"
  <2>1. j.user \in Users /\ j.provider \in Operators /\ j.amount \in Amounts
    BY <1>2, JobForms
  <2>2. RequestPayout(j.user, j.provider, j.amount)
    BY <1>2 DEF Ready, Effects, RowsOf, RequestPayout
  <2> QED
    BY <2>1, <2>2 DEF Next, ClientOperation
<1>3. CASE j.op = "transfer"
  <2>1. j.user \in Users /\ j.to \in Users /\ j.amount \in Amounts /\ j.percent \in FeePercents
    BY <1>3, JobForms DEF Ready
  <2>2. TransferInternal(j.user, j.to, j.amount, j.percent)
    BY <1>3 DEF Ready, Effects, RowsOf, TransferInternal
  <2> QED
    BY <2>1, <2>2 DEF Next, ClientOperation
<1>4. CASE j.op = "credit"
  <2>1. j.user \in Users /\ j.amount \in Amounts
    BY <1>4, JobForms
  <2>2. ManualCredit(j.user, j.amount)
    BY <1>4 DEF Ready, Effects, RowsOf, ManualCredit
  <2> QED
    BY <2>1, <2>2 DEF Next, AdminOperation
<1>5. CASE j.op = "approve-payin"
  <2> DEFINE r == j.row
             proof == NewProof(j)
  <2>1. r \in Rows /\ Open(j) /\ ProofIsFree(j)
    BY <1>5 DEF Asks, Ready
  <2>2. proof = Coalesce(ledger[r].proof, j.proof)
    BY <1>5 DEF NewProof
  <2>3. proof \in Proofs /\ Coalesce(ledger[r].proof, proof) = proof
    <3>1. ledger[r].proof \in Proofs \cup {NoProof} /\ j.proof \in Proofs
      BY <1>5, <2>1, RowTypesOK, JobForms DEF Row
    <3> QED
      BY <2>2, <3>1, ProofsAssumption DEF Coalesce
  <2>4. /\ balance' = [balance EXCEPT ![ledger[r].user] = @ + ledger[r].amount]
        /\ ledger' = [ledger EXCEPT ![r] = Settled(@, "SUCCESS", proof)]
        /\ audit' = audit
    BY <1>5 DEF Effects
  <2> HIDE DEF proof
  <2>5. ledger' = [ledger EXCEPT ![r] = Settled(@, "SUCCESS", Coalesce(@.proof, proof))]
    BY <2>3, <2>4
  <2>6. ApprovePayin(r, proof)
    BY <1>5, <2>1, <2>4, <2>5 DEF ApprovePayin, Open, ProofIsFree, proof
  <2> QED
    BY <2>1, <2>3, <2>6 DEF Next
<1>6. CASE j.op = "reject-payin"
  <2>1. j.row \in Rows /\ RejectPayin(j.row)
    BY <1>6 DEF Asks, Ready, Open, Effects, RejectPayin
  <2> QED
    BY <2>1 DEF Next, AdminOperation
<1>7. CASE j.op = "approve-payout"
  <2> DEFINE r == j.row
  <2>1. r \in Rows /\ Open(j) /\ ProofIsFree(j) /\ j.proof \in Proofs \cup {NoProof}
    BY <1>7, JobForms DEF Asks, Ready
  <2>2. NewProof(j) = Coalesce(j.proof, ledger[r].proof)
    BY <1>7 DEF NewProof
  <2>3. ~ProofTaken(ledger[r].provider, j.proof, r)
    BY <2>1, <2>2 DEF ProofIsFree, ProofTaken, Coalesce
  <2>4. Decidable(r)
    BY <1>7, <2>1 DEF Open
  <2>5. ApprovePayout(r, j.proof)
    BY <1>7, <2>2, <2>3, <2>4 DEF Effects, ApprovePayout
  <2> QED
    BY <2>1, <2>5 DEF Next, AdminOperation
<1>8. CASE j.op = "reject-payout"
  <2>1. j.row \in Rows /\ Open(j)
    BY <1>8 DEF Asks, Ready
  <2>2. RejectPayout(j.row)
    BY <1>8, <2>1 DEF Open, Effects, RejectPayout
  <2> QED
    BY <2>1, <2>2 DEF Next, AdminOperation
<1> QED
    BY <1>1, <1>2, <1>3, <1>4, <1>5, <1>6, <1>7, <1>8, JobForms

\* What a commit changes is what its transaction has locked: wallets, rows, and the keys of
\* the proofs it writes.
BalancesIn(locks) == \A u \in Users : balance'[u] = balance[u] \/ Wallet(u) \subseteq locks

RowsIn(locks) ==
    /\ Rows \subseteq Rows'
    /\ \A r \in Rows : ledger'[r] = ledger[r] \/ LedgerRow(r) \subseteq locks
    /\ \A q \in Rows' :
          \/ /\ q \in Rows
             /\ ledger'[q].provider = ledger[q].provider /\ ledger'[q].proof = ledger[q].proof
          \/ ledger'[q].proof = NoProof
          \/ Key(ledger'[q].provider, ledger'[q].proof) \subseteq locks

\* Appending rows leaves the others alone.
LEMMA AppendRowsIn ==
    ASSUME NEW locks, NEW old \in Seq(Row), NEW row \in Row,
           NEW new, new = Append(old, row)
    PROVE  /\ new \in Seq(Row) /\ DOMAIN new = 1 .. Len(old) + 1 /\ DOMAIN old = 1 .. Len(old)
           /\ Len(old) \in Nat /\ new[Len(old) + 1] = row
           /\ \A r \in DOMAIN old : new[r] = old[r]
BY AppendProperties, LenProperties

\* An inserted row whose proof is locked, or that has none.
LEMMA InsertRowsIn ==
    ASSUME TypeOK, OpenHasOperator, NEW locks, NEW row \in Row,
           ledger' = Append(ledger, row),
           row.proof = NoProof \/ Key(row.provider, row.proof) \subseteq locks,
           row.status \in {"PENDING", "FAILED"} => row.provider \in Operators
    PROVE  RowsIn(locks) /\ OpenHasOperator'
PROOF
<1>1. /\ Rows = 1 .. Len(ledger) /\ Rows' = 1 .. Len(ledger) + 1 /\ Len(ledger) \in Nat
      /\ ledger'[Len(ledger) + 1] = row
      /\ \A r \in Rows : ledger'[r] = ledger[r]
    BY AppendRowsIn DEF TypeOK, Rows
<1>2. \A q \in Rows' : q \in Rows \/ q = Len(ledger) + 1
    BY <1>1
<1>3. RowsIn(locks)
    BY <1>1, <1>2 DEF RowsIn
<1> QED
    BY <1>1, <1>2, <1>3 DEF OpenHasOperator

\* A locked row that is settled, with its own proof or one that is locked.
LEMMA RewriteRowsIn ==
    ASSUME TypeOK, OpenHasOperator, NEW locks, NEW r, NEW status, NEW proof,
           Rewrites(r, status, proof), LedgerRow(r) \subseteq locks,
           \/ proof = NoProof
           \/ proof = ledger[r].proof
           \/ Key(ledger[r].provider, proof) \subseteq locks,
           ledger[r].provider \in Operators
    PROVE  RowsIn(locks) /\ OpenHasOperator'
PROOF
<1> DEFINE new == Settled(ledger[r], status, proof)
<1>1. /\ r \in Rows /\ Rows' = Rows /\ ledger[r] \in Row
      /\ \A q \in Rows : ledger'[q] = IF q = r THEN new ELSE ledger[q]
    <2>1. Rows = 1 .. Len(ledger)
      BY RowTypesOK
    <2>2. /\ r \in 1 .. Len(ledger) /\ ledger[r] \in Row /\ Len(ledger') = Len(ledger)
          /\ \A q \in 1 .. Len(ledger) : ledger'[q] = IF q = r THEN new ELSE ledger[q]
          /\ ledger' = [ledger EXCEPT ![r] = new]
      BY RewriteType
    <2> QED
      BY <2>1, <2>2 DEF Rows
<1>2. new.provider = ledger[r].provider /\ new.proof = proof
    BY <1>1 DEF Settled, Row
<1> HIDE DEF new
<1>3. RowsIn(locks)
    BY <1>1, <1>2 DEF RowsIn
<1> QED
    BY <1>1, <1>2, <1>3 DEF OpenHasOperator

\* The writes of a transaction that is ready stay within its locks.
LEMMA CommitWithinLocks ==
    ASSUME TypeOK, OpenHasOperator, NEW j \in Jobs, Asks(j), NEW locks, Ready(j, locks),
           Effects(j)
    PROVE  BalancesIn(locks) /\ RowsIn(locks) /\ OpenHasOperator'
PROOF
<1> USE DEF Declares, Decisive
<1>0. balance \in [Users -> Nat]
    BY DEF TypeOK
<1>1. CASE j.op \in Declares
  <2> DEFINE row == PayinRow(j.user, j.provider, j.amount, "PENDING", j.proof)
  <2>1. row \in Row /\ j.provider \in Operators
    BY <1>1, JobForms, InsertedRows, ProofsAssumption
  <2>2. ledger' = Append(ledger, row) /\ balance' = balance
    BY <1>1 DEF Effects
  <2>3. locks = Key(row.provider, row.proof) /\ row.provider = j.provider
    BY <1>1 DEF Ready, PayinRow
  <2> QED
    BY <2>1, <2>2, <2>3, InsertRowsIn DEF BalancesIn
<1>2. CASE j.op = "payout"
  <2> DEFINE row == PayoutRow(j.user, j.provider, j.amount)
  <2>1. row \in Row /\ j.provider \in Operators
    BY <1>2, JobForms, InsertedRows
  <2>2. ledger' = Append(ledger, row) /\ balance' = [balance EXCEPT ![j.user] = @ - j.amount]
    BY <1>2 DEF Effects
  <2>3. row.proof = NoProof /\ row.provider = j.provider
    BY DEF PayoutRow
  <2>4. BalancesIn(locks)
    BY <1>0, <1>2, <2>2 DEF BalancesIn, Ready
  <2> QED
    BY <2>1, <2>2, <2>3, <2>4, InsertRowsIn
<1>3. CASE j.op = "transfer"
  <2> DEFINE fee == FeeOf(j.amount, j.percent)
             out == TransferRow(j.user, j.amount, fee, "sender")
             in == TransferRow(j.to, j.amount, 0, "recipient")
             mid == Append(ledger, out)
  <2>1. j.user \in Users /\ j.to \in Users /\ j.amount \in Amounts /\ j.percent \in FeePercents
    BY <1>3, JobForms DEF Ready
  <2>2. out \in Row /\ in \in Row
    BY <2>1, FeeIsNat, InsertedRows
  <2>3. /\ ledger' = Append(mid, in)
        /\ balance' = [balance EXCEPT ![j.user] = @ - Charged(j.amount, fee), ![j.to] = @ + j.amount]
    BY <1>3 DEF Effects
  <2>4. out.proof = NoProof /\ in.proof = NoProof /\ out.status = "SUCCESS" /\ in.status = "SUCCESS"
    BY DEF TransferRow
  <2>5. BalancesIn(locks)
    BY <1>0, <1>3, <2>3 DEF BalancesIn, Ready
  <2> HIDE DEF out, in
  <2>6. /\ mid \in Seq(Row) /\ DOMAIN mid = 1 .. Len(ledger) + 1 /\ Rows = 1 .. Len(ledger)
        /\ Len(ledger) \in Nat /\ mid[Len(ledger) + 1] = out /\ \A r \in Rows : mid[r] = ledger[r]
    BY <2>2, AppendRowsIn DEF TypeOK, Rows
  <2> HIDE DEF mid
  <2>7. /\ Rows' = 1 .. Len(mid) + 1 /\ DOMAIN mid = 1 .. Len(mid) /\ ledger'[Len(mid) + 1] = in
        /\ \A r \in DOMAIN mid : ledger'[r] = mid[r]
    BY <2>2, <2>3, <2>6, AppendRowsIn DEF Rows
  <2>8. /\ Rows \subseteq Rows' /\ \A r \in Rows : ledger'[r] = ledger[r]
        /\ \A q \in Rows' : q \in Rows \/ ledger'[q] = out \/ ledger'[q] = in
    BY <2>6, <2>7
  <2> QED
    BY <2>4, <2>5, <2>8 DEF RowsIn, OpenHasOperator
<1>4. CASE j.op = "credit"
  <2> DEFINE row == PayinRow(j.user, "ADMIN_MANUAL", j.amount, "SUCCESS", NoProof)
  <2>1. row \in Row
    BY <1>4, JobForms, InsertedRows
  <2>2. ledger' = Append(ledger, row) /\ balance' = [balance EXCEPT ![j.user] = @ + j.amount]
    BY <1>4 DEF Effects
  <2>3. row.proof = NoProof /\ row.status = "SUCCESS"
    BY DEF PayinRow
  <2>4. BalancesIn(locks)
    BY <1>0, <1>4, <2>2 DEF BalancesIn, Ready
  <2> QED
    BY <2>1, <2>2, <2>3, <2>4, InsertRowsIn
<1>5. CASE j.op \in Decisive
  <2> DEFINE r == j.row
  <2>1. Open(j) /\ LedgerRow(r) \subseteq locks
    BY <1>5 DEF Ready
  <2>2. /\ r \in Rows /\ ledger[r] \in Row /\ ledger[r].provider \in Operators
        /\ ledger[r].proof \in Proofs \cup {NoProof}
        /\ j.op \in {"approve-payin", "approve-payout"} => NewProof(j) \in Proofs \cup {NoProof}
    BY <1>5, <2>1, OpenRow DEF Row
  <2>3. /\ j.op \in {"approve-payin", "approve-payout"} =>
              Rewrites(r, "SUCCESS", NewProof(j)) /\ ProofsKey(j) \subseteq locks
        /\ j.op = "reject-payin" => Rewrites(r, "FAILED", ledger[r].proof)
        /\ j.op = "reject-payout" => Rewrites(r, "CANCELLED", ledger[r].proof)
    BY <1>5, <2>2 DEF Effects, Ready, Rewrites, RowStatuses
  <2>4. RowsIn(locks) /\ OpenHasOperator'
    BY <1>5, <2>1, <2>2, <2>3, RewriteRowsIn DEF ProofsKey
  <2>5. BalancesIn(locks)
    BY <1>0, <1>5 DEF BalancesIn, Ready, Effects, OwnersWallet
  <2> QED
    BY <2>4, <2>5
<1> QED
    BY <1>1, <1>2, <1>3, <1>4, <1>5, JobForms

-----------------------------------------------------------------------------
(* What a transaction has found stays so as long as it holds its locks *)

\* A proof that was free stays free while its key is locked.
LEMMA FreeProofStays ==
    ASSUME NEW prov, NEW proof, NEW r, NEW mine, RowsIn(mine),
           ~ProofTaken(prov, proof, r), Key(prov, proof) \cap mine = {}
    PROVE  ~ProofTaken(prov, proof, r)'
PROOF
<1> SUFFICES ASSUME proof # NoProof, NEW q \in Rows', q # r,
                    ledger'[q].provider = prov, ledger'[q].proof = proof
             PROVE  FALSE
    BY DEF ProofTaken
<1>1. Key(prov, proof) # {} /\ ~(Key(prov, proof) \subseteq mine)
    BY DEF Key
<1>2. /\ q \in Rows
      /\ ledger'[q].provider = ledger[q].provider /\ ledger'[q].proof = ledger[q].proof
    BY <1>1 DEF RowsIn
<1> QED
    BY <1>2 DEF ProofTaken

\* A decision's row is untouched while it is locked, and a wallet too.
LEMMA LockedStays ==
    ASSUME NEW mine, BalancesIn(mine), RowsIn(mine)
    PROVE  /\ \A r \in Rows : LedgerRow(r) \cap mine = {} => r \in Rows' /\ ledger'[r] = ledger[r]
           /\ \A u \in Users : Wallet(u) \cap mine = {} => balance'[u] = balance[u]
BY DEF BalancesIn, RowsIn, LedgerRow, Wallet

LEMMA OpenStays ==
    ASSUME NEW j, Open(j), NEW mine, BalancesIn(mine), RowsIn(mine),
           LedgerRow(j.row) \cap mine = {}
    PROVE  /\ Open(j)' /\ OwnersWallet(j)' = OwnersWallet(j) /\ ProofsKey(j)' = ProofsKey(j)
           /\ (ProofIsFree(j) /\ ProofsKey(j) \cap mine = {}) => ProofIsFree(j)'
PROOF
<1>1. j.row \in Rows /\ j.row \in Rows' /\ ledger'[j.row] = ledger[j.row]
    BY LockedStays DEF Open
<1>2. Open(j)'
    BY <1>1 DEF Open, Creditable, Decidable
<1>3. NewProof(j)' = NewProof(j)
    BY <1>1 DEF NewProof
<1>4. OwnersWallet(j)' = OwnersWallet(j) /\ ProofsKey(j)' = ProofsKey(j)
    BY <1>1, <1>3 DEF OwnersWallet, ProofsKey
<1>5. ASSUME ProofIsFree(j), ProofsKey(j) \cap mine = {}
      PROVE  ProofIsFree(j)'
    BY <1>1, <1>3, <1>5, FreeProofStays DEF ProofIsFree, ProofsKey
<1> QED
    BY <1>2, <1>4, <1>5

LEMMA SoundStays ==
    ASSUME NEW j \in Jobs, NEW at, NEW locks, Sound(j, at, locks),
           NEW mine, BalancesIn(mine), RowsIn(mine), locks \cap mine = {}
    PROVE  Sound(j, at, locks)'
PROOF
<1> USE DEF Declares, Decisive
<1>1. CASE at # "commit"
  <2>1. Underway(j, at, locks)
    BY <1>1 DEF Sound
  <2>2. CASE at \in {"first", "lock", "lock2"}
    BY <1>1, <2>1, <2>2 DEF Underway, Sound
  <2>3. CASE at \in {"wallet", "write"}
    <3>1. Open(j) /\ LedgerRow(j.row) \cap mine = {}
      BY <2>1, <2>3 DEF Underway
    <3>2. Open(j)' /\ OwnersWallet(j)' = OwnersWallet(j)
      BY <3>1, OpenStays
    <3> QED
      BY <1>1, <2>1, <2>3, <3>2 DEF Underway, Sound
  <2> QED
    BY <2>1, <2>2, <2>3 DEF Underway
<1>2. CASE at = "commit"
  <2>1. Ready(j, locks)
    BY <1>2 DEF Sound
  <2>2. CASE j.op \in Declares
    BY <1>2, <2>1, <2>2, FreeProofStays DEF Ready, Sound
  <2>3. CASE j.op \in {"payout", "transfer", "credit"}
    <3>1. j.user \in Users
      BY <2>3, JobForms
    <3>2. Wallet(j.user) \cap mine = {}
      BY <2>1, <2>3 DEF Ready
    <3>3. balance'[j.user] = balance[j.user]
      BY <3>1, <3>2, LockedStays
    <3> QED
      BY <1>2, <2>1, <2>3, <3>3 DEF Ready, Sound, HasFunds
  <2>4. CASE j.op \in Decisive
    <3>1. Open(j) /\ LedgerRow(j.row) \cap mine = {}
      BY <2>1, <2>4 DEF Ready
    <3>2. /\ Open(j)' /\ OwnersWallet(j)' = OwnersWallet(j) /\ ProofsKey(j)' = ProofsKey(j)
          /\ (ProofIsFree(j) /\ ProofsKey(j) \cap mine = {}) => ProofIsFree(j)'
      BY <3>1, OpenStays
    <3>3. Ready(j, locks)'
      BY <2>1, <2>4, <3>2 DEF Ready
    <3> QED
      BY <1>2, <3>3 DEF Sound
  <2> QED
    BY <2>2, <2>3, <2>4, JobForms
<1> QED
    BY <1>1, <1>2

-----------------------------------------------------------------------------
(* Steps *)

\* The calls that do not move.
LEMMA OthersStay ==
    ASSUME SInv, NEW c \in Calls, BalancesIn(held[c]), RowsIn(held[c]),
           NEW d \in Calls, d # c, Busy(d)
    PROVE  Asks(job[d]) /\ Sound(job[d], pc[d], held[d]) /\ held[d] \cap held[c] = {}
           /\ \A j, at, locks : j = job[d] /\ at = pc[d] /\ locks = held[d] =>
                 Asks(j)' /\ Sound(j, at, locks)'
PROOF
<1>1. Asks(job[d]) /\ Sound(job[d], pc[d], held[d])
    BY DEF SInv, CallsSound
<1>2. held[d] \cap held[c] = {}
    BY DEF SInv, STypeOK
<1>3. ASSUME NEW j, NEW at, NEW locks, j = job[d], at = pc[d], locks = held[d]
      PROVE  Asks(j)' /\ Sound(j, at, locks)'
  <2>1. j \in Jobs /\ Sound(j, at, locks) /\ locks \cap held[c] = {}
    BY <1>1, <1>2, <1>3 DEF Asks
  <2>2. Sound(j, at, locks)'
    BY <2>1, SoundStays
  <2>3. Asks(j)'
    BY <1>1, <1>3 DEF Asks, RowsIn
  <2> QED
    BY <2>2, <2>3
<1> QED
    BY <1>1, <1>2, <1>3

\* A call that goes on, with the locks it has taken.
LEMMA CallMoves ==
    ASSUME SInv, NEW c \in Calls, UNCHANGED <<balance, ledger, audit>>,
           NEW j, NEW at \in Statements, NEW locks, Asks(j), Sound(j, at, locks),
           \A d \in Calls \ {c} : held[d] \cap locks = {},
           job' = [job EXCEPT ![c] = j], pc' = [pc EXCEPT ![c] = at],
           held' = [held EXCEPT ![c] = locks]
    PROVE  SInv'
PROOF
<1>1. /\ job \in [Calls -> Jobs \cup {NoJob}] /\ held \in [Calls -> SUBSET Locks]
      /\ pc \in [Calls -> Statements \cup {"idle"}]
    BY DEF SInv, STypeOK, Statements
<1>2. job'[c] = j /\ pc'[c] = at /\ held'[c] = locks
    BY <1>1
<1>3. \A d \in Calls \ {c} : job'[d] = job[d] /\ pc'[d] = pc[d] /\ held'[d] = held[d]
    BY <1>1
<1>4. j \in Jobs /\ locks \subseteq Locks
    BY SoundLocks DEF SInv, Asks
<1>0. /\ TypeOK' /\ OpenHasOperator' /\ \A mine : BalancesIn(mine) /\ RowsIn(mine)
      /\ Asks(j)' /\ Sound(j, at, locks)'
  <2>1. TypeOK' /\ OpenHasOperator' /\ \A mine : BalancesIn(mine) /\ RowsIn(mine)
    BY DEF SInv, TypeOK, OpenHasOperator, BalancesIn, RowsIn, Rows
  <2>2. Asks(j)'
    BY DEF Asks, Rows
  <2> QED
    BY <1>4, <2>1, <2>2, SoundStays
<1>5. /\ job' \in [Calls -> Jobs \cup {NoJob}] /\ held' \in [Calls -> SUBSET Locks]
      /\ pc' \in [Calls -> Statements \cup {"idle"}]
    BY <1>1, <1>4
<1>6. \A d \in Calls : pc'[d] = "idle" => job'[d] = NoJob /\ held'[d] = {}
    BY <1>2, <1>3 DEF SInv, STypeOK, Busy, Statements
<1>7. \A d, e \in Calls : d # e => held'[d] \cap held'[e] = {}
    BY <1>2, <1>3 DEF SInv, STypeOK
<1>8. STypeOK'
    BY <1>5, <1>6, <1>7 DEF STypeOK, Busy, Statements
<1>9. CallsSound'
  <2> SUFFICES ASSUME NEW d \in Calls, Busy(d)'
               PROVE  Asks(job[d])' /\ Sound(job[d], pc[d], held[d])'
    BY DEF CallsSound
  <2>1. CASE d = c
    BY <1>0, <1>2, <2>1
  <2>2. CASE d # c
    <3>1. Busy(d)
      BY <1>3, <2>2 DEF Busy
    <3> QED
      BY <1>0, <1>3, <2>2, <3>1, OthersStay
  <2> QED
    BY <2>1, <2>2
<1> QED
    BY <1>0, <1>8, <1>9 DEF SInv

\* A call that is over.
LEMMA CallEnds ==
    ASSUME SInv, NEW c \in Calls, BalancesIn(held[c]), RowsIn(held[c]),
           TypeOK', OpenHasOperator', Finish(c)
    PROVE  SInv'
PROOF
<1>1. /\ job \in [Calls -> Jobs \cup {NoJob}] /\ held \in [Calls -> SUBSET Locks]
      /\ pc \in [Calls -> Statements \cup {"idle"}]
    BY DEF SInv, STypeOK, Statements
<1>2. job'[c] = NoJob /\ pc'[c] = "idle" /\ held'[c] = {}
    BY <1>1 DEF Finish
<1>3. \A d \in Calls \ {c} : job'[d] = job[d] /\ pc'[d] = pc[d] /\ held'[d] = held[d]
    BY <1>1 DEF Finish
<1>4. /\ job' \in [Calls -> Jobs \cup {NoJob}] /\ held' \in [Calls -> SUBSET Locks]
      /\ pc' \in [Calls -> Statements \cup {"idle"}]
    BY <1>1 DEF Finish
<1>5. \A d \in Calls : pc'[d] = "idle" => job'[d] = NoJob /\ held'[d] = {}
    BY <1>2, <1>3 DEF SInv, STypeOK, Busy
<1>6. \A d, e \in Calls : d # e => held'[d] \cap held'[e] = {}
    BY <1>2, <1>3 DEF SInv, STypeOK
<1>7. STypeOK'
    BY <1>4, <1>5, <1>6 DEF STypeOK, Busy, Statements
<1>8. CallsSound'
  <2> SUFFICES ASSUME NEW d \in Calls, Busy(d)'
               PROVE  Asks(job[d])' /\ Sound(job[d], pc[d], held[d])'
    BY DEF CallsSound
  <2>1. d # c
    BY <1>2 DEF Busy
  <2>2. Busy(d)
    BY <1>3, <2>1 DEF Busy
  <2> QED
    BY <1>3, <2>1, <2>2, OthersStay
<1> QED
    BY <1>7, <1>8 DEF SInv

\* A statement that finds its locks free and what it looks for: the call goes on.
LEMMA ProceedStep ==
    ASSUME SInv, NEW c \in Calls, Busy(c), NEW next \in Statements,
           Free(c, Wanted(c)), Proceed(c, next),
           Sound(job[c], next, held[c] \cup Wanted(c))
    PROVE  SInv'
PROOF
<1> DEFINE locks == held[c] \cup Wanted(c)
<1>1. Asks(job[c])
    BY DEF SInv, CallsSound
<1>2. \A d \in Calls \ {c} : held[d] \cap locks = {}
    BY DEF SInv, STypeOK, Free
<1>3. job' = [job EXCEPT ![c] = job[c]]
    BY DEF Proceed, SInv, STypeOK
<1>4. /\ pc' = [pc EXCEPT ![c] = next] /\ held' = [held EXCEPT ![c] = locks]
      /\ UNCHANGED <<balance, ledger, audit>>
    BY DEF Proceed
<1> QED
    BY <1>1, <1>2, <1>3, <1>4, CallMoves

\* Otherwise it is refused, and a call that is aborted ends in the same way.
LEMMA RefuseStep ==
    ASSUME SInv, NEW c \in Calls, Refuse(c)
    PROVE  SInv'
PROOF
<1>1. TypeOK' /\ OpenHasOperator' /\ BalancesIn(held[c]) /\ RowsIn(held[c])
    BY DEF Refuse, SInv, TypeOK, OpenHasOperator, BalancesIn, RowsIn, Rows
<1> QED
    BY <1>1, CallEnds DEF Refuse

LEMMA BeginStep ==
    ASSUME SInv, NEW c \in Calls, NEW request \in Requests, Begin(c, request)
    PROVE  SInv'
PROOF
<1>1. request \in Jobs
    BY DEF Jobs
<1>2. Asks(request) /\ Sound(request, "first", {})
    BY <1>1, JobForms DEF Begin, Asks, Sound, Underway
<1>3. held[c] = {} /\ held' = [held EXCEPT ![c] = {}]
    BY DEF Begin, SInv, STypeOK
<1> QED
    BY <1>2, <1>3, CallMoves DEF Begin, Statements

\* What is known of a call at its present statement.
LEMMA AtStatement ==
    ASSUME SInv, NEW c \in Calls, pc[c] \in Statements
    PROVE  /\ Busy(c) /\ job[c] \in Jobs /\ Asks(job[c]) /\ Sound(job[c], pc[c], held[c])
           /\ pc[c] # "commit" => Underway(job[c], pc[c], held[c])
           /\ TypeOK /\ OpenHasOperator
BY DEF SInv, CallsSound, Asks, Statements, Busy, Sound

\* The first statement of a client's or of a direct credit's transaction.
LEMMA FirstOfClient ==
    ASSUME SInv, NEW c \in Calls, InsertDeposit(c) \/ LockPayer(c) \/ LockCredited(c)
    PROVE  SInv'
PROOF
<1> USE DEF Doing, Declares, Decisive
<1>1. pc[c] = "first" /\ held[c] = {}
    BY AtStatement DEF InsertDeposit, LockPayer, LockCredited, Statements, Underway
<1>2. job[c] \in Jobs /\ Busy(c)
    BY <1>1, AtStatement DEF Statements
<1>3. CASE InsertDeposit(c)
  <2>1. ~ProofTaken(job[c].provider, job[c].proof, 0) => Sound(job[c], "commit", held[c] \cup Wanted(c))
    BY <1>1, <1>2, <1>3, WantedLocks DEF InsertDeposit, Sound, Ready
  <2> QED
    BY <1>2, <1>3, <2>1, ProceedStep, RefuseStep DEF InsertDeposit, Checked, Statements
<1>4. CASE LockPayer(c)
  <2>1. HasFunds(job[c].user, job[c].amount, job[c].amount) =>
            Sound(job[c], "commit", held[c] \cup Wanted(c))
    BY <1>1, <1>2, <1>4, WantedLocks DEF LockPayer, Sound, Ready
  <2> QED
    BY <1>2, <1>4, <2>1, ProceedStep, RefuseStep DEF LockPayer, Checked, Statements
<1>5. CASE LockCredited(c)
  <2>1. Sound(job[c], "commit", held[c] \cup Wanted(c))
    BY <1>1, <1>2, <1>5, WantedLocks DEF LockCredited, Sound, Ready
  <2> QED
    BY <1>2, <1>5, <2>1, ProceedStep, RefuseStep DEF LockCredited, Checked, Statements
<1> QED
    BY <1>3, <1>4, <1>5

\* A transfer reads its percent, then locks its two wallets.
LEMMA TransferStep ==
    ASSUME SInv, NEW c \in Calls, ReadFee(c) \/ LockFirst(c) \/ LockSecond(c)
    PROVE  SInv'
PROOF
<1> USE DEF Doing
<1> DEFINE j == job[c]
<1>1. /\ pc[c] \in Statements /\ j.op = "transfer" /\ j \in Jobs /\ Asks(j) /\ Busy(c)
      /\ Underway(j, pc[c], held[c])
    BY AtStatement DEF ReadFee, LockFirst, LockSecond, Statements
<1>2. CASE ReadFee(c)
  <2>1. PICK p \in FeePercents : job' = [job EXCEPT ![c].percent = p]
    BY <1>2 DEF ReadFee
  <2> DEFINE k == [j EXCEPT !.percent = p]
  <2>2. k \in Jobs /\ k.op = "transfer" /\ k.percent = p
    BY <1>1, RoutesAssumption DEF Jobs, Requests
  <2>3. job' = [job EXCEPT ![c] = k]
    BY <2>1 DEF SInv, STypeOK
  <2>4. held[c] = {} /\ held' = [held EXCEPT ![c] = {}]
    BY <1>1, <1>2 DEF ReadFee, Underway, SInv, STypeOK
  <2> HIDE DEF k
  <2>5. Asks(k) /\ Sound(k, "lock", {})
    BY <2>2 DEF Asks, Sound, Underway, Decisive
  <2>6. UNCHANGED <<balance, ledger, audit>> /\ pc' = [pc EXCEPT ![c] = "lock"]
    BY <1>2 DEF ReadFee
  <2>7. \A d \in Calls \ {c} : held[d] \cap {} = {}
    OBVIOUS
  <2>8. "lock" \in Statements
    BY DEF Statements
  <2> QED
    BY <2>3, <2>4, <2>5, <2>6, <2>7, <2>8, CallMoves
<1>3. CASE LockFirst(c)
  <2>1. j.user # j.to => Sound(j, "lock2", held[c] \cup Wanted(c))
    BY <1>1, <1>3, WantedLocks DEF LockFirst, Sound, Underway
  <2> QED
    BY <1>1, <1>3, <2>1, ProceedStep, RefuseStep DEF LockFirst, Checked, Statements
<1>4. CASE LockSecond(c)
  <2>1. held[c] \cup Wanted(c) = Wallet(j.user) \cup Wallet(j.to)
    BY <1>1, <1>4, WantedLocks DEF LockSecond, Underway, FirstLocked, SecondLocked
  <2>2. HasFunds(j.user, j.amount, Charged(j.amount, FeeOf(j.amount, j.percent))) =>
            Sound(j, "commit", held[c] \cup Wanted(c))
    BY <1>1, <1>4, <2>1 DEF LockSecond, Sound, Ready, Underway
  <2> QED
    BY <1>1, <1>4, <2>2, ProceedStep, RefuseStep DEF LockSecond, Checked, Statements
<1> QED
    BY <1>2, <1>3, <1>4

\* A decision locks its row and looks at it.
LEMMA FirstOfDecision ==
    ASSUME SInv, NEW c \in Calls, LockDeposit(c) \/ LockRejected(c) \/ LockWithdrawal(c)
    PROVE  SInv'
PROOF
<1> USE DEF Doing, Decisive
<1> DEFINE j == job[c]
<1>1. pc[c] = "first" /\ j.op \in Decisive
    BY DEF LockDeposit, LockRejected, LockWithdrawal
<1>2. held[c] = {} /\ j \in Jobs /\ j.row \in Rows /\ Busy(c) /\ Wanted(c) = LedgerRow(j.row)
    BY <1>1, AtStatement, WantedLocks DEF Asks, Underway, Statements
<1>3. CASE LockDeposit(c)
  <2>1. ledger[j.row].type = "PAY_IN" /\ Creditable(j.row) => Sound(j, "wallet", held[c] \cup Wanted(c))
    BY <1>2, <1>3 DEF LockDeposit, Sound, Underway, Open
  <2> QED
    BY <1>2, <1>3, <2>1, ProceedStep, RefuseStep DEF LockDeposit, Checked, Statements
<1>4. CASE LockRejected(c)
  <2>1. ledger[j.row].type = "PAY_IN" /\ ledger[j.row].status = "PENDING" =>
            Sound(j, "commit", held[c] \cup Wanted(c))
    BY <1>2, <1>4 DEF LockRejected, Sound, Ready, Open
  <2> QED
    BY <1>2, <1>4, <2>1, ProceedStep, RefuseStep DEF LockRejected, Checked, Statements
<1>5. CASE LockWithdrawal(c)
  <2> DEFINE next == IF j.op = "approve-payout" THEN "write" ELSE "wallet"
  <2>1. Decidable(j.row) => Sound(j, next, held[c] \cup Wanted(c))
    BY <1>2, <1>5 DEF LockWithdrawal, Sound, Underway, Open
  <2>2. next \in Statements
    BY DEF Statements
  <2>3. Free(c, Wanted(c)) /\ ((Decidable(j.row) /\ Proceed(c, next)) \/ Refuse(c))
    BY <1>5 DEF LockWithdrawal, Checked
  <2> HIDE DEF next
  <2> QED
    BY <1>2, <2>1, <2>2, <2>3, ProceedStep, RefuseStep
<1> QED
    BY <1>3, <1>4, <1>5

\* Then the wallet, and for an approval the key of the proof.
LEMMA RestOfDecision ==
    ASSUME SInv, NEW c \in Calls, LockOwner(c) \/ WriteProof(c)
    PROVE  SInv'
PROOF
<1> USE DEF Doing
<1> DEFINE j == job[c]
<1>1. /\ pc[c] \in {"wallet", "write"} /\ j \in Jobs /\ Busy(c) /\ Underway(j, pc[c], held[c])
    BY AtStatement DEF LockOwner, WriteProof, Statements
<1>2. CASE LockOwner(c)
  <2> DEFINE next == IF j.op = "approve-payin" THEN "write" ELSE "commit"
  <2>1. Wanted(c) = OwnersWallet(j) /\ j.op \in {"approve-payin", "reject-payout"}
    BY <1>1, <1>2, WantedLocks DEF LockOwner
  <2>2. Sound(j, next, held[c] \cup Wanted(c))
    BY <1>1, <1>2, <2>1 DEF LockOwner, Sound, Ready, Underway
  <2>3. next \in Statements
    BY DEF Statements
  <2>4. Free(c, Wanted(c)) /\ Proceed(c, next)
    BY <1>2 DEF LockOwner, Checked
  <2> HIDE DEF next
  <2> QED
    BY <1>1, <2>2, <2>3, <2>4, ProceedStep
<1>3. CASE WriteProof(c)
  <2>1. Wanted(c) = ProofsKey(j)
    BY <1>1, <1>3, WantedLocks DEF WriteProof
  <2>2. ProofIsFree(j) => Sound(j, "commit", held[c] \cup Wanted(c))
    BY <1>1, <1>3, <2>1 DEF WriteProof, Sound, Ready, Underway
  <2> QED
    BY <1>1, <1>3, <2>2, ProceedStep, RefuseStep DEF WriteProof, Checked, ProofIsFree, Statements
<1> QED
    BY <1>2, <1>3

\* A commit is a step of Ledger, and what it writes was locked.
LEMMA CommitStep ==
    ASSUME SInv, NEW c \in Calls, Commit(c)
    PROVE  SInv' /\ [Next]_vars
PROOF
<1> DEFINE j == job[c]
<1>1. j \in Jobs /\ Asks(j) /\ Ready(j, held[c]) /\ TypeOK /\ OpenHasOperator
    BY AtStatement DEF Commit, Statements, Sound
<1>2. CASE Room(RowsOf(j.op))
  <2>1. Effects(j) /\ Finish(c)
    BY <1>2 DEF Commit
  <2>2. Next
    BY <1>1, <1>2, <2>1, CommitIsOperation
  <2>3. TypeOK'
    BY <1>1, <2>2, TypeStep
  <2>4. BalancesIn(held[c]) /\ RowsIn(held[c]) /\ OpenHasOperator'
    BY <1>1, <2>1, CommitWithinLocks
  <2> QED
    BY <2>1, <2>2, <2>3, <2>4, CallEnds
<1>3. CASE ~Room(RowsOf(j.op))
  <2>1. Refuse(c)
    BY <1>3 DEF Commit
  <2> QED
    BY <2>1, RefuseStep DEF Refuse, vars
<1> QED
    BY <1>2, <1>3

\* Every statement but the commit leaves the database as the others see it.
LEMMA OnlyCommitsShow ==
    ASSUME NEW c \in Calls, Step(c), ~Commit(c)
    PROVE  UNCHANGED vars
BY DEF Step, InsertDeposit, LockPayer, LockCredited, ReadFee, LockFirst, LockSecond, LockDeposit,
       LockRejected, LockWithdrawal, LockOwner, WriteProof, Checked, Proceed, Refuse, vars

LEMMA SessionStep == SInv /\ [SNext]_svars => SInv' /\ [Next]_vars
PROOF
<1> SUFFICES ASSUME SInv, [SNext]_svars PROVE SInv' /\ [Next]_vars
    OBVIOUS
<1>1. ASSUME NEW c \in Calls, NEW request \in Requests, Begin(c, request)
      PROVE  SInv' /\ [Next]_vars
    BY <1>1, BeginStep DEF Begin, vars
<1>2. ASSUME NEW c \in Calls, Step(c)
      PROVE  SInv' /\ [Next]_vars
  <2>1. CASE Commit(c)
    BY <2>1, CommitStep
  <2>2. CASE ~Commit(c)
    <3>1. SInv'
      BY <1>2, <2>2, FirstOfClient, TransferStep, FirstOfDecision, RestOfDecision DEF Step
    <3> QED
      BY <1>2, <2>2, <3>1, OnlyCommitsShow
  <2> QED
    BY <2>1, <2>2
<1>3. ASSUME NEW c \in Calls, Abort(c)
      PROVE  SInv' /\ [Next]_vars
    BY <1>3, RefuseStep DEF Abort, Refuse, vars
<1>4. CASE UNCHANGED svars
  <2>1. UNCHANGED <<balance, ledger, audit>> /\ UNCHANGED <<job, pc, held>>
    BY <1>4 DEF svars
  <2>2. SInv'
    BY <2>1 DEF SInv, TypeOK, STypeOK, OpenHasOperator, CallsSound, Asks, Sound, Underway, Ready,
                Open, OwnersWallet, ProofsKey, ProofIsFree, NewProof, ProofTaken, Rows, Busy,
                Creditable, Decidable, HasFunds
  <2> QED
    BY <2>1, <2>2 DEF vars
<1> QED
    BY <1>1, <1>2, <1>3, <1>4 DEF SNext

\* At first no call is in progress.
LEMMA SessionInit == SInit => SInv /\ Init
PROOF
<1> SUFFICES ASSUME SInit PROVE SInv
    BY DEF SInit
<1>1. TypeOK /\ Rows = {}
    BY InitType DEF SInit, Init, Rows
<1> QED
    BY <1>1 DEF SInit, SInv, STypeOK, OpenHasOperator, CallsSound, Busy

\* SInv, the inductive invariant: every transaction in progress holds exactly the locks of the
\* statements it has executed, and what it has found under them is still so.
THEOREM SessionInvariance == SSpec => []SInv
BY SessionInit, SessionStep, PTL DEF SSpec

\* Calls, statements and locks are those of the program; no lock has two holders, and a call
\* that is over holds none.
THEOREM SessionTypes == SSpec => []STypeOK
<1>1. SInv => STypeOK
    BY DEF SInv
<1> QED
    BY <1>1, SessionInvariance, PTL

\* The transactions of concurrent calls, interleaved statement by statement and rolled back at
\* any moment, have the effect of the SQL functions executed one at a time.
THEOREM SessionsImplementLedger == SSpec => ImplementsLedger
BY SessionInit, SessionStep, SessionInvariance, PTL DEF SSpec, Spec, ImplementsLedger

\* What Ledger guarantees holds of the wallets and the ledger that concurrent calls share.
THEOREM SessionsReconciled ==
    ASSUME DecidedTypes = {"PAY_OUT"}
    PROVE  SSpec => [](Reconciled /\ ProofsUnique /\ AuditMatchesDecisions)
<1>1. SSpec => Spec
    BY SessionsImplementLedger DEF ImplementsLedger
<1>2. Spec => []Reconciled
    BY BalancesReconciled
<1>3. Spec => []ProofsUnique
    BY OneProofOneRow
<1>4. Spec => []AuditMatchesDecisions
    BY AuditTellsDecisions
<1> QED
    BY <1>1, <1>2, <1>3, <1>4, PTL

-----------------------------------------------------------------------------
(* No deadlock *)

\* Who may hold a lock of each kind.
LEMMA Holders ==
    ASSUME SInv, NEW d \in Calls, Busy(d), NEW x \in held[d]
    PROVE  /\ x[1] = "key" => pc[d] = "commit"
           /\ x[1] = "row" => pc[d] \in {"wallet", "write", "commit"}
           /\ x[1] = "wallet" =>
                 \/ pc[d] \in {"write", "commit"}
                 \/ pc[d] = "lock2" /\ x[2] = FirstLocked(job[d].user, job[d].to)
PROOF
<1>1. CASE pc[d] = "commit"
    BY <1>1
<1>2. CASE pc[d] # "commit"
  <2>1. Underway(job[d], pc[d], held[d])
    BY <1>2 DEF SInv, CallsSound, Sound
  <2> QED
    BY <1>2, <2>1 DEF Underway, Wallet, LedgerRow, OwnersWallet
<1> QED
    BY <1>1, <1>2

\* A transfer that has one wallet wants a later one.
LEMMA SecondIsLater ==
    ASSUME SInv, NEW d \in Calls, pc[d] = "lock2"
    PROVE  LET first  == FirstLocked(job[d].user, job[d].to)
               second == SecondLocked(job[d].user, job[d].to)
           IN  first \in Users /\ second \in Users /\ first < second
PROOF
<1>1. job[d] \in Jobs /\ Underway(job[d], "lock2", held[d])
    BY AtStatement DEF Statements
<1>2. job[d].op = "transfer" /\ job[d].user # job[d].to
    BY <1>1 DEF Underway
<1>3. job[d].user \in Users /\ job[d].to \in Users
    BY <1>1, <1>2, JobForms
<1>4. job[d].user \in Nat /\ job[d].to \in Nat
    BY <1>3, OrderedUsers
<1> QED
    BY <1>2, <1>3, <1>4 DEF FirstLocked, SecondLocked

\* A finite set of naturals has a greatest element: a smallest set without one would still
\* have none without its least element.
LEMMA FiniteHasGreatest ==
    ASSUME NEW T, T \subseteq Nat, IsFiniteSet(T), T # {}
    PROVE  \E m \in T : \A u \in T : ~(m < u)
PROOF
<1> SUFFICES ASSUME \A m \in T : \E u \in T : m < u
             PROVE  FALSE
    OBVIOUS
<1> DEFINE Climbs(X) == X # {} /\ \A m \in X : \E u \in X : m < u
           Sizes == {n \in Nat : \E X \in SUBSET T : Climbs(X) /\ n = Cardinality(X)}
<1>1. Sizes # {}
  <2>1. Cardinality(T) \in Nat
    BY FS_CardinalityType
  <2> QED
    BY <2>1
<1>2. PICK n \in Sizes : \A k \in Sizes : ~(k < n)
    BY <1>1, LeastNatural
<1>3. PICK X \in SUBSET T : Climbs(X) /\ n = Cardinality(X)
    OBVIOUS
<1>4. IsFiniteSet(X)
    BY FS_Subset
<1>5. PICK m \in X : \A u \in X : ~(u < m)
    BY <1>3, LeastNatural
<1>6. Climbs(X \ {m})
  <2>1. PICK u \in X : m < u
    BY <1>3
  <2>2. X \ {m} # {}
    BY <2>1
  <2>3. ASSUME NEW v \in X \ {m} PROVE \E w \in X \ {m} : v < w
    <3>1. PICK w \in X : v < w
      BY <1>3
    <3> QED
      BY <1>5, <3>1
  <2> QED
    BY <2>2, <2>3
<1>7. Cardinality(X \ {m}) = n - 1 /\ n \in Nat /\ Cardinality(X \ {m}) \in Nat
    BY <1>3, <1>4, FS_RemoveElement, FS_CardinalityType
<1>8. n - 1 \in Sizes
    BY <1>6, <1>7
<1> QED
    BY <1>2, <1>7, <1>8

WaitsForLock(c, d) == Busy(c) /\ Busy(d) /\ c # d /\ held[d] \cap Wanted(c) # {}

\* In a set of calls that wait for one another's locks each wants the wallet of a
\* user, or a row whose holder wants one.
LEMMA WhatIsWanted ==
    ASSUME SInv, NEW S \in SUBSET Calls, \A c \in S : \E d \in S : WaitsForLock(c, d),
           NEW c \in S, NEW d \in S, WaitsForLock(c, d)
    PROVE  /\ pc[d] \in {"lock2", "wallet"} /\ \E v \in Users : Wanted(d) = Wallet(v)
           /\ \A u : Wanted(c) = Wallet(u) => \E v \in Users : u < v /\ Wanted(d) = Wallet(v)
PROOF
<1>1. PICK x : x \in held[d] /\ x \in Wanted(c)
    BY DEF WaitsForLock
<1>2. PICK e \in S : WaitsForLock(d, e)
    OBVIOUS
<1>3. PICK y : y \in held[e] /\ y \in Wanted(d)
    BY <1>2 DEF WaitsForLock
<1>4. /\ c \in Calls /\ d \in Calls /\ e \in Calls /\ Busy(c) /\ Busy(d) /\ Busy(e)
      /\ \A k \in {c, d, e} : pc[k] \in Statements /\ job[k] \in Jobs /\ Wanted(k) # {}
    <2>1. \A k \in S : Busy(k) /\ Wanted(k) # {}
      BY DEF WaitsForLock
    <2>2. \A k \in S : pc[k] \in Statements
      BY <2>1 DEF Busy, SInv, STypeOK, Statements
    <2> QED
      BY <2>1, <2>2, AtStatement
<1>5. pc[d] # "commit" /\ pc[e] # "commit"
    BY <1>4, WantedLocks
<1>6. pc[d] # "write"
  <2> SUFFICES ASSUME pc[d] = "write" PROVE FALSE
    OBVIOUS
  <2>1. y[1] = "key"
    BY <1>3, <1>4, WantedLocks DEF ProofsKey, Key
  <2> QED
    BY <1>3, <1>4, <1>5, <2>1, Holders
<1>7. pc[d] \in {"lock2", "wallet"}
    <2>1. held[d] # {} /\ Underway(job[d], pc[d], held[d])
      BY <1>1, <1>4, <1>5, AtStatement
    <2> QED
      BY <1>6, <2>1 DEF Underway
<1>8. CASE pc[d] = "wallet"
  <2>1. Wanted(d) = OwnersWallet(job[d]) /\ Open(job[d]) /\ job[d].op \in Decisive
    BY <1>4, <1>8, AtStatement, WantedLocks DEF Underway, Decisive
  <2>2. ledger[job[d].row].user \in Users
    BY <1>4, <2>1, OpenRow DEF SInv
  <2>3. ASSUME NEW u, Wanted(c) = Wallet(u) PROVE FALSE
    BY <1>1, <1>4, <1>8, <2>3, Holders DEF Wallet
  <2> QED
    BY <1>8, <2>1, <2>2, <2>3 DEF OwnersWallet
<1>9. CASE pc[d] = "lock2"
  <2> DEFINE first == FirstLocked(job[d].user, job[d].to)
             second == SecondLocked(job[d].user, job[d].to)
  <2>1. Wanted(d) = Wallet(second)
    BY <1>4, <1>9, WantedLocks
  <2>2. first < second /\ second \in Users
    BY <1>4, <1>9, SecondIsLater
  <2>3. ASSUME NEW u, Wanted(c) = Wallet(u) PROVE u = first
    BY <1>1, <1>4, <1>9, <2>3, Holders DEF Wallet
  <2> HIDE DEF first, second
  <2> QED
    BY <1>9, <2>1, <2>2, <2>3
<1> QED
    BY <1>7, <1>8, <1>9

\* Along a circle of calls the wallets wanted would grow for ever.
LEMMA NoLockCircle ==
    ASSUME SInv, NEW S \in SUBSET Calls, S # {}, \A c \in S : \E d \in S : WaitsForLock(c, d)
    PROVE  FALSE
PROOF
<1> DEFINE T == {u \in Users : \E c \in S : Wanted(c) = Wallet(u)}
<1>1. T # {}
  <2>1. PICK c \in S, d \in S : WaitsForLock(c, d)
    OBVIOUS
  <2>2. \E v \in Users : Wanted(d) = Wallet(v)
    BY <2>1, WhatIsWanted
  <2> QED
    BY <2>2
<1>2. \A u \in T : \E v \in T : u < v
    BY WhatIsWanted
<1>3. T \subseteq Nat /\ IsFiniteSet(T)
    BY UsersAssumption, OrderedUsers, FS_Subset
<1> HIDE DEF T
<1>4. PICK m \in T : \A u \in T : ~(m < u)
    BY <1>1, <1>3, FiniteHasGreatest
<1> QED
    BY <1>2, <1>4

\* Without declare-async no operation yields, so a worker serves one call at a time.
OneCallPerWorker ==
    \A c, d \in Calls : Busy(c) /\ Busy(d) /\ WorkerOf(c) = WorkerOf(d) => c = d

LEMMA OneCallStep ==
    ASSUME "declare-async" \notin Routes
    PROVE  SInv /\ OneCallPerWorker /\ [SNext]_svars => OneCallPerWorker'
PROOF
<1> SUFFICES ASSUME SInv, OneCallPerWorker, [SNext]_svars PROVE OneCallPerWorker'
    OBVIOUS
<1>1. pc \in [Calls -> Statements \cup {"idle"}]
    BY DEF SInv, STypeOK, Statements
<1>2. \A c \in Calls : Busy(c) => ~Yields(c)
  <2> SUFFICES ASSUME NEW c \in Calls, Busy(c), job[c].op = "declare-async" PROVE FALSE
    BY DEF Yields
  <2>1. job[c] \in Jobs
    BY DEF SInv, CallsSound, Asks
  <2> QED
    BY <2>1 DEF Jobs, Requests
<1>3. ASSUME NEW c \in Calls, NEW request \in Requests, Begin(c, request)
      PROVE  OneCallPerWorker'
  <2>1. \A d \in Calls : d # c /\ Busy(d) => WorkerOf(d) # WorkerOf(c)
    BY <1>2, <1>3 DEF Begin, HasLoop
  <2>2. \A d \in Calls \ {c} : pc'[d] = pc[d]
    BY <1>1, <1>3 DEF Begin
  <2> QED
    BY <2>1, <2>2 DEF OneCallPerWorker, Busy
<1>4. ASSUME \A c \in Calls : Busy(c)' => Busy(c)
      PROVE  OneCallPerWorker'
    BY <1>4 DEF OneCallPerWorker
<1>5. ASSUME NEW c \in Calls, Step(c) \/ Abort(c)
      PROVE  OneCallPerWorker'
  <2>1. Busy(c)
    BY <1>5 DEF Step, Abort, InsertDeposit, LockPayer, LockCredited, ReadFee, LockFirst, LockSecond,
                LockDeposit, LockRejected, LockWithdrawal, LockOwner, WriteProof, Commit, Doing, Busy
  <2>2. \E at : pc' = [pc EXCEPT ![c] = at]
    BY <1>5 DEF Step, Abort, InsertDeposit, LockPayer, LockCredited, ReadFee, LockFirst, LockSecond,
                LockDeposit, LockRejected, LockWithdrawal, LockOwner, WriteProof, Commit, Checked,
                Proceed, Refuse, Finish
  <2>3. \A d \in Calls \ {c} : pc'[d] = pc[d]
    BY <1>1, <2>2
  <2> QED
    BY <1>4, <2>1, <2>3 DEF Busy
<1>6. CASE UNCHANGED svars
    BY <1>4, <1>6 DEF svars, Busy
<1> QED
    BY <1>3, <1>5, <1>6 DEF SNext

\* However many transfers, decisions and declarations run, no set of calls waits for one
\* another's locks, whichever routes are used.
THEOREM NoLocksInACircle ==
    SSpec => []~(\E S \in (SUBSET Calls) \ {{}} : \A c \in S : \E d \in S : WaitsForLock(c, d))
<1>1. SInv => ~(\E S \in (SUBSET Calls) \ {{}} : \A c \in S : \E d \in S : WaitsForLock(c, d))
    BY NoLockCircle
<1> QED
    BY <1>1, SessionInvariance, PTL

\* Nor do the event loops close a circle as long as the route that yields is not called;
\* with it they do.
THEOREM NoCallsInACircle ==
    ASSUME "declare-async" \notin Routes
    PROVE  SSpec => []NoDeadlock
<1>1. SInit => OneCallPerWorker
    BY DEF SInit, OneCallPerWorker, Busy
<1>2. SInv /\ OneCallPerWorker => NoDeadlock
  <2> SUFFICES ASSUME SInv, OneCallPerWorker, NEW S \in SUBSET Calls, S # {},
                      \A c \in S : \E d \in S : WaitsFor(c, d)
               PROVE  FALSE
    BY DEF NoDeadlock
  <2>1. \A c, d \in S : WaitsFor(c, d) => WaitsForLock(c, d)
    BY DEF WaitsFor, WaitsForLock, OneCallPerWorker
  <2> QED
    BY <2>1, NoLockCircle
<1> QED
    BY <1>1, <1>2, OneCallStep, SessionInvariance, PTL DEF SSpec
=============================================================================
