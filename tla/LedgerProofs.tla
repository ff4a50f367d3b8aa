---------------------------- MODULE LedgerProofs ----------------------------
(***************************************************************************)
(* Proofs about Ledger, for every number of users, operators, proofs,      *)
(* amounts and rows.                                                       *)
(***************************************************************************)
EXTENDS Ledger, SequenceTheorems, FiniteSetTheorems, WellFoundedInduction, TLAPS

-----------------------------------------------------------------------------
(* Account statements.  The recursive function inside Statement is handled *)
(* through a running total that witnesses it.                              *)

\* t is the running total of the rows' effects on u.
RunningTotal(t, log, u) ==
    /\ t \in [0 .. Len(log) -> Int]
    /\ t[0] = 0
    /\ \A n \in 1 .. Len(log) : t[n] = t[n - 1] + EffectOn(log, u, n)

\* The rows of the log add up to b for user u.
AddsUpTo(log, u, b) == \E t : RunningTotal(t, log, u) /\ t[Len(log)] = b

LessThan == {p \in Nat \X Nat : p[1] < p[2]}

\* A non-empty set of naturals has a least element.
LEMMA LeastNatural ==
    ASSUME NEW T, T \subseteq Nat, T # {}
    PROVE  \E n \in T : \A m \in T : ~(m < n)
PROOF
<1>1. IsWellFoundedOn(LessThan, Nat)
    BY NatLessThanWellFounded, Zenon DEF LessThan, OpToRel
<1>2. PICK n \in T : \A m \in T : <<m, n>> \notin LessThan
    BY <1>1, WFMin
<1> QED
    BY <1>2 DEF LessThan

\* Two functions that satisfy one recursion agree, so the statement is the last value of
\* any running total.
LEMMA StatementIsTotal ==
    ASSUME NEW log \in Seq(Row), NEW u, NEW t, RunningTotal(t, log, u)
    PROVE  Statement(log, u) = t[Len(log)]
PROOF
<1> DEFINE N == Len(log)
           Def(f) == [n \in 0 .. N |-> IF n = 0 THEN 0 ELSE f[n - 1] + EffectOn(log, u, n)]
           s == CHOOSE f : f = Def(f)
<1>0. N \in Nat
    BY LenProperties
<1>1. t = Def(t)
    BY <1>0 DEF RunningTotal
<1>2. s = Def(s)
    BY <1>1
<1>3. \A n \in 0 .. N : s[n] = t[n]
  <2> SUFFICES ASSUME {n \in 0 .. N : s[n] # t[n]} # {}
               PROVE  FALSE
    OBVIOUS
  <2> DEFINE Bad == {n \in 0 .. N : s[n] # t[n]}
  <2>1. PICK n \in Bad : \A m \in Bad : ~(m < n)
    <3>1. Bad \subseteq Nat
      BY <1>0
    <3> QED
      BY <3>1, LeastNatural
  <2>2. n \in Nat /\ n <= N /\ s[n] # t[n]
    BY <1>0
  <2>3. n # 0
    BY <1>0, <1>1, <1>2, <2>2
  <2>4. n - 1 \in 0 .. N /\ s[n - 1] = t[n - 1]
    BY <1>0, <2>1, <2>2, <2>3
  <2> QED
    BY <1>0, <1>1, <1>2, <2>2, <2>3, <2>4
<1>4. Statement(log, u) = s[N]
    BY DEF Statement
<1> QED
    BY <1>0, <1>3, <1>4

\* A row's effect on its wallet is a number of cents.
LEMMA EffectIsInt ==
    ASSUME NEW row \in Row
    PROVE  Effect(row) \in Int
PROOF
<1>1. row.amount \in Int /\ row.fee \in Int
    BY DEF Row
<1> QED
    BY <1>1 DEF Effect

\* What a row does to the balance of u.
Share(row, u) == IF row.user = u THEN Effect(row) ELSE 0

\* A new row moves the total by its share.
LEMMA AppendAddsUp ==
    ASSUME NEW log \in Seq(Row), NEW row \in Row, NEW u, NEW b \in Int, AddsUpTo(log, u, b)
    PROVE  AddsUpTo(Append(log, row), u, b + Share(row, u))
PROOF
<1> DEFINE N == Len(log)
           new == Append(log, row)
<1>1. PICK t : RunningTotal(t, log, u) /\ t[N] = b
    BY DEF AddsUpTo
<1>2. N \in Nat /\ Len(new) = N + 1
    BY LenProperties, AppendProperties
<1>3. /\ \A n \in 1 .. N : EffectOn(new, u, n) = EffectOn(log, u, n)
      /\ EffectOn(new, u, N + 1) = Share(row, u)
    BY <1>2, AppendProperties DEF EffectOn, Share
<1>4. Share(row, u) \in Int
    BY EffectIsInt DEF Share
<1> DEFINE tt == [n \in 0 .. N + 1 |-> IF n = N + 1 THEN b + Share(row, u) ELSE t[n]]
<1>5. t \in [0 .. N -> Int] /\ t[0] = 0
    BY <1>1 DEF RunningTotal
<1>6. tt \in [0 .. Len(new) -> Int] /\ tt[0] = 0
    BY <1>2, <1>4, <1>5
<1>7. ASSUME NEW n \in 1 .. N + 1
      PROVE  tt[n] = tt[n - 1] + EffectOn(new, u, n)
  <2>1. CASE n = N + 1
    BY <1>1, <1>2, <1>3, <2>1
  <2>2. CASE n # N + 1
    <3>1. n \in 1 .. N /\ n - 1 \in 0 .. N
      BY <1>2, <2>2
    <3>2. t[n] = t[n - 1] + EffectOn(log, u, n)
      BY <1>1, <3>1 DEF RunningTotal
    <3> QED
      BY <1>2, <1>3, <3>1, <3>2
  <2> QED
    BY <2>1, <2>2
<1>8. RunningTotal(tt, new, u) /\ tt[Len(new)] = b + Share(row, u)
    BY <1>2, <1>6, <1>7 DEF RunningTotal
<1> QED
    BY <1>8 DEF AddsUpTo

\* Rewriting row r moves the total by the difference of the two shares.
LEMMA UpdateAddsUp ==
    ASSUME NEW log \in Seq(Row), NEW r \in 1 .. Len(log), NEW row \in Row, NEW u,
           NEW b \in Int, AddsUpTo(log, u, b)
    PROVE  AddsUpTo([log EXCEPT ![r] = row], u, b + Share(row, u) - Share(log[r], u))
PROOF
<1> DEFINE N == Len(log)
           new == [log EXCEPT ![r] = row]
           d == Share(row, u) - Share(log[r], u)
<1>1. PICK t : RunningTotal(t, log, u) /\ t[N] = b
    BY DEF AddsUpTo
<1>2. N \in Nat /\ Len(new) = N /\ log[r] \in Row
    BY LenProperties, ExceptSeq, ElementOfSeq
<1>3. Share(row, u) \in Int /\ Share(log[r], u) \in Int
    BY <1>2, EffectIsInt DEF Share
<1>4. ASSUME NEW n \in 1 .. N
      PROVE  /\ EffectOn(log, u, n) \in Int
             /\ EffectOn(new, u, n) = EffectOn(log, u, n) + (IF n = r THEN d ELSE 0)
  <2>1. log[n] \in Row /\ new[n] = IF n = r THEN row ELSE log[n]
    BY ElementOfSeq, ExceptSeq
  <2>2. EffectOn(log, u, n) \in Int
    BY <2>1, EffectIsInt DEF EffectOn
  <2> QED
    BY <1>3, <2>1, <2>2 DEF EffectOn, Share
<1> DEFINE tt == [n \in 0 .. N |-> IF n < r THEN t[n] ELSE t[n] + d]
<1>5. t \in [0 .. N -> Int] /\ t[0] = 0 /\ d \in Int
    BY <1>1, <1>3 DEF RunningTotal
<1> HIDE DEF d
<1>6. tt \in [0 .. Len(new) -> Int] /\ tt[0] = 0
    BY <1>2, <1>5
<1>7. ASSUME NEW n \in 1 .. N
      PROVE  tt[n] = tt[n - 1] + EffectOn(new, u, n)
  <2>1. t[n] = t[n - 1] + EffectOn(log, u, n)
    BY <1>1 DEF RunningTotal
  <2>2. n \in 0 .. N /\ n - 1 \in 0 .. N /\ t[n] \in Int /\ t[n - 1] \in Int
    BY <1>2, <1>5
  <2>3. /\ tt[n] = IF n < r THEN t[n] ELSE t[n] + d
        /\ tt[n - 1] = IF n - 1 < r THEN t[n - 1] ELSE t[n - 1] + d
    BY <2>2
  <2>4. /\ EffectOn(log, u, n) \in Int
        /\ EffectOn(new, u, n) = EffectOn(log, u, n) + (IF n = r THEN d ELSE 0)
    BY <1>4
  <2>5. n \in Int /\ r \in Int
    BY <1>2
  <2> HIDE DEF tt, new
  <2> QED
    BY <1>5, <2>1, <2>2, <2>3, <2>4, <2>5
<1>8. tt[N] = b + d
    BY <1>1, <1>2
<1>9. RunningTotal(tt, new, u)
    BY <1>2, <1>6, <1>7 DEF RunningTotal
<1> QED
    BY <1>2, <1>3, <1>8, <1>9 DEF AddsUpTo, d

-----------------------------------------------------------------------------
(* Type correctness *)

\* Amounts are positive and the rounded fee is never negative.
LEMMA FeeIsNat ==
    ASSUME NEW a \in Amounts, NEW p \in FeePercents
    PROVE  a \in Nat \ {0} /\ FeeOf(a, p) \in Nat
PROOF
<1>1. a \in Nat \ {0} /\ p \in 0 .. 100
    BY AmountsAssumption, FeesAssumption
<1>2. a * p \in Nat
    BY <1>1
<1>3. (a * p + 50) \div 100 \in Nat
    BY <1>2
<1> QED
    BY <1>1, <1>3 DEF FeeOf

\* The rows the operations insert are rows of the table.
LEMMA InsertedRows ==
    ASSUME NEW u \in Users, NEW a \in Amounts
    PROVE  /\ \A prov \in Operators, proof \in Proofs \cup {NoProof} :
                 PayinRow(u, prov, a, "PENDING", proof) \in Row
           /\ PayinRow(u, "ADMIN_MANUAL", a, "SUCCESS", NoProof) \in Row
           /\ \A prov \in Operators : PayoutRow(u, prov, a) \in Row
           /\ \A fee \in Nat, role \in {"sender", "recipient"} : TransferRow(u, a, fee, role) \in Row
PROOF
<1>1. a \in Nat \ {0}
    BY AmountsAssumption
<1> QED
    BY <1>1 DEF Row, RowTypes, RowStatuses, RowRoles, PayinRow, PayoutRow, TransferRow

\* Settling a row changes its status and proof and nothing else.
LEMMA SettledRow ==
    ASSUME NEW row \in Row, NEW status \in RowStatuses, NEW proof \in Proofs \cup {NoProof}
    PROVE  LET new == Settled(row, status, proof) IN
           /\ new \in Row
           /\ new.user = row.user /\ new.type = row.type /\ new.provider = row.provider
           /\ new.status = status /\ new.proof = proof
           /\ [new EXCEPT !.status = row.status, !.proof = row.proof] = row
BY DEF Settled, Row

\* COALESCE of two proof references is a proof reference.
LEMMA CoalesceType ==
    ASSUME NEW p \in Proofs \cup {NoProof}, NEW q \in Proofs \cup {NoProof}
    PROVE  Coalesce(p, q) \in Proofs \cup {NoProof}
BY DEF Coalesce

\* Every step of the ledger is an insertion of one row, of a transfer's two rows, or a
\* rewrite of one row's status and proof.
Inserts(row) == row \in Row /\ ledger' = Append(ledger, row) /\ Room(1)
Rewrites(r, status, proof) ==
    /\ r \in Rows /\ status \in RowStatuses /\ proof \in Proofs \cup {NoProof}
    /\ ledger' = [ledger EXCEPT ![r] = Settled(@, status, proof)]

\* An inserted row is the ledger's last.
LEMMA InsertType ==
    ASSUME TypeOK, NEW row, Inserts(row)
    PROVE  ledger' \in Seq(Row) /\ Len(ledger') = Len(ledger) + 1 /\ Len(ledger') <= MaxRows
PROOF
<1>1. ledger \in Seq(Row) /\ row \in Row /\ ledger' = Append(ledger, row) /\ Len(ledger) + 1 <= MaxRows
    BY DEF TypeOK, Inserts, Room
<1> QED
    BY <1>1, AppendProperties

\* Settling one row leaves the others alone.
LEMMA RewriteType ==
    ASSUME TypeOK, NEW r, NEW status, NEW proof, Rewrites(r, status, proof)
    PROVE  /\ r \in 1 .. Len(ledger) /\ ledger[r] \in Row
           /\ Settled(ledger[r], status, proof) \in Row
           /\ ledger' = [ledger EXCEPT ![r] = Settled(ledger[r], status, proof)]
           /\ ledger' \in Seq(Row) /\ Len(ledger') = Len(ledger)
           /\ \A q \in 1 .. Len(ledger) :
                 ledger'[q] = IF q = r THEN Settled(ledger[r], status, proof) ELSE ledger[q]
PROOF
<1>1. ledger \in Seq(Row) /\ Len(ledger) \in Nat /\ DOMAIN ledger = 1 .. Len(ledger)
    BY LenProperties DEF TypeOK
<1>2. r \in 1 .. Len(ledger) /\ ledger[r] \in Row
    BY <1>1, ElementOfSeq DEF Rewrites, Rows
<1>3. Settled(ledger[r], status, proof) \in Row
    BY <1>2, SettledRow DEF Rewrites
<1>4. ledger' = [ledger EXCEPT ![r] = Settled(ledger[r], status, proof)]
    BY DEF Rewrites
<1> QED
    BY <1>1, <1>2, <1>3, <1>4, ExceptSeq

\* A decision appends a well-formed entry.
LEMMA AuditType ==
    ASSUME TypeOK, NEW r \in Rows, NEW action \in Decisions,
           audit' = Append(audit, [action |-> action, target |-> r])
    PROVE  audit' \in Seq(AuditEntry)
PROOF
<1>1. r \in Nat \ {0}
    BY LenProperties DEF TypeOK, Rows
<1>2. [action |-> action, target |-> r] \in AuditEntry
    BY <1>1 DEF AuditEntry
<1> QED
    BY <1>2, AppendProperties DEF TypeOK

\* Every operation preserves the types; debits are covered by the balance they test.
LEMMA TypeStep == TypeOK /\ [Next]_vars => TypeOK'
PROOF
<1> SUFFICES ASSUME TypeOK, [Next]_vars PROVE TypeOK'
    OBVIOUS
<1>0. /\ balance \in [Users -> Nat] /\ ledger \in Seq(Row) /\ Len(ledger) <= MaxRows
      /\ audit \in Seq(AuditEntry) /\ \A r \in Rows : ledger[r] \in Row /\ r \in 1 .. Len(ledger)
    BY LenProperties, ElementOfSeq DEF TypeOK, Rows
<1> USE DEF Charged
<1>1. ASSUME NEW u \in Users, NEW prov \in Operators, NEW a \in Amounts,
             NEW proof \in DeclaredProofs \cup {NoProof}, DeclarePayin(u, prov, a, proof)
      PROVE  TypeOK'
  <2>1. Inserts(PayinRow(u, prov, a, "PENDING", proof))
    BY <1>1, InsertedRows, ProofsAssumption DEF Inserts, DeclarePayin
  <2> QED
    BY <1>0, <1>1, <2>1, InsertType DEF TypeOK, DeclarePayin
<1>2. ASSUME NEW u \in Users, NEW prov \in Operators, NEW a \in Amounts, RequestPayout(u, prov, a)
      PROVE  TypeOK'
  <2>1. Inserts(PayoutRow(u, prov, a))
    BY <1>2, InsertedRows DEF Inserts, RequestPayout
  <2>2. balance' \in [Users -> Nat]
    BY <1>0, <1>2, AmountsAssumption DEF RequestPayout, HasFunds
  <2> QED
    BY <1>0, <1>2, <2>1, <2>2, InsertType DEF TypeOK, RequestPayout
<1>3. ASSUME NEW u \in Users, NEW v \in Users, NEW a \in Amounts, NEW p \in FeePercents,
             TransferInternal(u, v, a, p)
      PROVE  TypeOK'
  <2> DEFINE fee == FeeOf(a, p)
             out == TransferRow(u, a, fee, "sender")
             in == TransferRow(v, a, 0, "recipient")
  <2>1. a \in Nat \ {0} /\ fee \in Nat
    BY FeeIsNat
  <2>2. out \in Row /\ in \in Row
    BY <2>1, InsertedRows
  <2>3. balance' \in [Users -> Nat]
    BY <1>0, <1>3, <2>1 DEF TransferInternal, HasFunds
  <2>4. ledger' = Append(Append(ledger, out), in) /\ Len(ledger) + 2 <= MaxRows /\ audit' = audit
    BY <1>3 DEF TransferInternal, Room
  <2>5. /\ Append(ledger, out) \in Seq(Row) /\ Len(Append(ledger, out)) = Len(ledger) + 1
    BY <1>0, <2>2, AppendProperties
  <2>6. ledger' \in Seq(Row) /\ Len(ledger') = Len(ledger) + 2
    BY <2>2, <2>4, <2>5, <1>0, AppendProperties, LenProperties
  <2> QED
    BY <1>0, <2>3, <2>4, <2>6 DEF TypeOK
<1>4. ASSUME NEW r \in Rows, NEW proof \in Proofs, ApprovePayin(r, proof)
      PROVE  TypeOK'
  <2>1. Rewrites(r, "SUCCESS", Coalesce(ledger[r].proof, proof))
    BY <1>0, <1>4, CoalesceType DEF Rewrites, ApprovePayin, RowStatuses, Row
  <2>2. balance' \in [Users -> Nat]
    BY <1>0, <1>4 DEF ApprovePayin, Row
  <2> QED
    BY <1>0, <1>4, <2>1, <2>2, RewriteType DEF TypeOK, ApprovePayin
<1>5. ASSUME NEW r \in Rows, RejectPayin(r)
      PROVE  TypeOK'
  <2>1. Rewrites(r, "FAILED", ledger[r].proof)
    BY <1>0, <1>5 DEF Rewrites, RejectPayin, RowStatuses, Row
  <2> QED
    BY <1>0, <1>5, <2>1, RewriteType DEF TypeOK, RejectPayin
<1>6. ASSUME NEW r \in Rows, NEW proof \in Proofs \cup {NoProof}, ApprovePayout(r, proof)
      PROVE  TypeOK'
  <2>1. Rewrites(r, "SUCCESS", Coalesce(proof, ledger[r].proof))
    BY <1>0, <1>6, CoalesceType DEF Rewrites, ApprovePayout, RowStatuses, Row
  <2>2. audit' \in Seq(AuditEntry)
    BY <1>6, AuditType DEF ApprovePayout, Decisions
  <2> QED
    BY <1>0, <1>6, <2>1, <2>2, RewriteType DEF TypeOK, ApprovePayout
<1>7. ASSUME NEW r \in Rows, RejectPayout(r)
      PROVE  TypeOK'
  <2>1. Rewrites(r, "CANCELLED", ledger[r].proof)
    BY <1>0, <1>7 DEF Rewrites, RejectPayout, RowStatuses, Row
  <2>2. audit' \in Seq(AuditEntry)
    BY <1>7, AuditType DEF RejectPayout, Decisions
  <2>3. balance' \in [Users -> Nat]
    BY <1>0, <1>7 DEF RejectPayout, Row
  <2> QED
    BY <1>0, <1>7, <2>1, <2>2, <2>3, RewriteType DEF TypeOK, RejectPayout
<1>8. ASSUME NEW u \in Users, NEW a \in Amounts, ManualCredit(u, a)
      PROVE  TypeOK'
  <2>1. Inserts(PayinRow(u, "ADMIN_MANUAL", a, "SUCCESS", NoProof))
    BY <1>8, InsertedRows DEF Inserts, ManualCredit
  <2>2. balance' \in [Users -> Nat]
    BY <1>0, <1>8, AmountsAssumption DEF ManualCredit
  <2> QED
    BY <1>0, <1>8, <2>1, <2>2, InsertType DEF TypeOK, ManualCredit
<1>9. CASE UNCHANGED vars
    BY <1>0, <1>9 DEF TypeOK, vars
<1> QED
    BY <1>1, <1>2, <1>3, <1>4, <1>5, <1>6, <1>7, <1>8, <1>9 DEF Next, ClientOperation, AdminOperation

\* The empty database is well typed.
LEMMA InitType == Init => TypeOK
PROOF
<1> SUFFICES ASSUME Init PROVE TypeOK
    OBVIOUS
<1>1. ledger = <<>> /\ audit = <<>> /\ balance = [u \in Users |-> 0]
    BY DEF Init
<1>2. ledger \in Seq(Row) /\ Len(ledger) = 0 /\ audit \in Seq(AuditEntry)
    BY <1>1, EmptySeq
<1> QED
    BY <1>1, <1>2, BoundAssumption DEF TypeOK

\* Wallets are never negative, and every row of the ledger and of the audit log is well
\* formed, after any sequence of calls.
THEOREM TypeCorrect == Spec => []TypeOK
BY InitType, TypeStep, PTL DEF Spec

-----------------------------------------------------------------------------
(* Reconciliation *)

\* The inductive form of Reconciled.
Accounted == \A u \in Users : AddsUpTo(ledger, u, balance[u])

\* A wallet that moves by the share of the new row still adds up.
LEMMA InsertAccounted ==
    ASSUME TypeOK, Accounted, NEW row, Inserts(row), NEW u \in Users,
           balance'[u] = balance[u] + Share(row, u)
    PROVE  AddsUpTo(ledger', u, balance'[u])
BY AppendAddsUp DEF TypeOK, Accounted, Inserts

\* So does one that moves by the difference between the row's new and old share.
LEMMA RewriteAccounted ==
    ASSUME TypeOK, Accounted, NEW r, NEW status, NEW proof, Rewrites(r, status, proof),
           NEW u \in Users,
           balance'[u] = balance[u] + Share(Settled(ledger[r], status, proof), u) - Share(ledger[r], u)
    PROVE  AddsUpTo(ledger', u, balance'[u])
PROOF
<1>1. ledger \in Seq(Row) /\ balance[u] \in Int /\ AddsUpTo(ledger, u, balance[u])
    BY DEF TypeOK, Accounted
<1> QED
    BY <1>1, RewriteType, UpdateAddsUp

\* Settling a row changes its effect only through its status.
LEMMA SettledEffect ==
    ASSUME NEW row \in Row, NEW status \in RowStatuses, NEW proof \in Proofs \cup {NoProof}
    PROVE  LET new == Settled(row, status, proof) IN
           /\ row.amount \in Int /\ new.user = row.user
           /\ row.type = "PAY_IN" => Effect(new) = IF status = "SUCCESS" THEN row.amount ELSE 0
           /\ row.type = "PAY_OUT" =>
                Effect(new) = IF status \in {"PENDING", "SUCCESS"} THEN -row.amount ELSE 0
BY DEF Settled, Row, Effect

\* Every operation moves every wallet by what it writes to the ledger.
LEMMA AccountedStep ==
    ASSUME DecidedTypes = {"PAY_OUT"}
    PROVE  TypeOK /\ Accounted /\ [Next]_vars => Accounted'
PROOF
<1> SUFFICES ASSUME TypeOK, Accounted, [Next]_vars, NEW w \in Users
             PROVE  AddsUpTo(ledger', w, balance'[w])
    BY DEF Accounted
<1>0. /\ balance \in [Users -> Nat] /\ ledger \in Seq(Row)
      /\ \A r \in Rows : ledger[r] \in Row /\ r \in 1 .. Len(ledger)
    BY LenProperties, ElementOfSeq DEF TypeOK, Rows
<1> USE DEF Charged
<1>1. ASSUME NEW u \in Users, NEW prov \in Operators, NEW a \in Amounts,
             NEW proof \in DeclaredProofs \cup {NoProof}, DeclarePayin(u, prov, a, proof)
      PROVE  AddsUpTo(ledger', w, balance'[w])
  <2> DEFINE row == PayinRow(u, prov, a, "PENDING", proof)
  <2>1. Inserts(row)
    BY <1>1, InsertedRows, ProofsAssumption DEF Inserts, DeclarePayin
  <2>2. Share(row, w) = 0
    BY DEF Share, Effect, PayinRow
  <2>3. balance'[w] = balance[w] + Share(row, w)
    BY <1>0, <1>1, <2>2 DEF DeclarePayin
  <2> QED
    BY <2>1, <2>3, InsertAccounted
<1>2. ASSUME NEW u \in Users, NEW prov \in Operators, NEW a \in Amounts, RequestPayout(u, prov, a)
      PROVE  AddsUpTo(ledger', w, balance'[w])
  <2> DEFINE row == PayoutRow(u, prov, a)
  <2>1. Inserts(row)
    BY <1>2, InsertedRows DEF Inserts, RequestPayout
  <2>2. Share(row, w) = IF u = w THEN -a ELSE 0
    BY DEF Share, Effect, PayoutRow
  <2>3. balance'[w] = balance[w] + Share(row, w)
    BY <1>0, <1>2, <2>2, AmountsAssumption DEF RequestPayout
  <2> QED
    BY <2>1, <2>3, InsertAccounted
<1>3. ASSUME NEW u \in Users, NEW v \in Users, NEW a \in Amounts, NEW p \in FeePercents,
             TransferInternal(u, v, a, p)
      PROVE  AddsUpTo(ledger', w, balance'[w])
  <2> DEFINE fee == FeeOf(a, p)
             out == TransferRow(u, a, fee, "sender")
             in == TransferRow(v, a, 0, "recipient")
             mid == Append(ledger, out)
  <2>1. a \in Nat \ {0} /\ fee \in Nat
    BY FeeIsNat
  <2>2. out \in Row /\ in \in Row
    BY <2>1, InsertedRows
  <2>3. ledger' = Append(mid, in) /\ mid \in Seq(Row)
    BY <1>0, <1>3, <2>2, AppendProperties DEF TransferInternal
  <2>4. /\ Share(out, w) = IF u = w THEN -(a + fee) ELSE 0
        /\ Share(in, w) = IF v = w THEN a ELSE 0
    BY DEF Share, Effect, TransferRow
  <2> HIDE DEF fee, out, in
  <2>5. balance' = [balance EXCEPT ![u] = @ - (a + fee), ![v] = @ + a] /\ u # v
    BY <1>3 DEF TransferInternal, fee
  <2>6. balance'[w] = (balance[w] + Share(out, w)) + Share(in, w)
    BY <1>0, <2>1, <2>4, <2>5
  <2>7. AddsUpTo(mid, w, balance[w] + Share(out, w))
    BY <1>0, <2>2, AppendAddsUp DEF Accounted
  <2>8. balance[w] + Share(out, w) \in Int
    BY <1>0, <2>1, <2>4
  <2> QED
    BY <2>2, <2>3, <2>6, <2>7, <2>8, AppendAddsUp
<1>4. ASSUME NEW r \in Rows, NEW proof \in Proofs, ApprovePayin(r, proof)
      PROVE  AddsUpTo(ledger', w, balance'[w])
  <2> DEFINE p == Coalesce(ledger[r].proof, proof)
             new == Settled(ledger[r], "SUCCESS", p)
  <2>1. Rewrites(r, "SUCCESS", p)
    BY <1>0, <1>4, CoalesceType DEF Rewrites, ApprovePayin, RowStatuses, Row
  <2>2. /\ ledger[r] \in Row /\ ledger[r].type = "PAY_IN" /\ ledger[r].status # "SUCCESS"
        /\ balance' = [balance EXCEPT ![ledger[r].user] = @ + ledger[r].amount]
    BY <1>0, <1>4 DEF ApprovePayin, Creditable
  <2>3. Effect(new) = ledger[r].amount /\ new.user = ledger[r].user /\ ledger[r].amount \in Int
    BY <2>1, <2>2, SettledEffect DEF Rewrites
  <2>4. Effect(ledger[r]) = 0
    BY <2>2 DEF Effect
  <2>5. ledger[r].user \in Users
    BY <2>2 DEF Row
  <2> HIDE DEF new
  <2>6. balance'[w] = balance[w] + Share(new, w) - Share(ledger[r], w)
    BY <1>0, <2>2, <2>3, <2>4, <2>5 DEF Share
  <2> QED
    BY <2>1, <2>6, RewriteAccounted DEF new
<1>5. ASSUME NEW r \in Rows, RejectPayin(r)
      PROVE  AddsUpTo(ledger', w, balance'[w])
  <2> DEFINE new == Settled(ledger[r], "FAILED", ledger[r].proof)
  <2>1. Rewrites(r, "FAILED", ledger[r].proof)
    BY <1>0, <1>5 DEF Rewrites, RejectPayin, RowStatuses, Row
  <2>2. /\ ledger[r] \in Row /\ ledger[r].type = "PAY_IN" /\ ledger[r].status # "SUCCESS"
        /\ balance' = balance
    BY <1>0, <1>5 DEF RejectPayin
  <2>3. Effect(new) = 0 /\ Effect(ledger[r]) = 0
    BY <2>1, <2>2, SettledEffect DEF Rewrites, Effect
  <2> HIDE DEF new
  <2>4. balance'[w] = balance[w] + Share(new, w) - Share(ledger[r], w)
    BY <1>0, <2>2, <2>3 DEF Share
  <2> QED
    BY <2>1, <2>4, RewriteAccounted DEF new
<1>6. ASSUME NEW r \in Rows, NEW proof \in Proofs \cup {NoProof}, ApprovePayout(r, proof)
      PROVE  AddsUpTo(ledger', w, balance'[w])
  <2> DEFINE p == Coalesce(proof, ledger[r].proof)
             new == Settled(ledger[r], "SUCCESS", p)
  <2>1. Rewrites(r, "SUCCESS", p)
    BY <1>0, <1>6, CoalesceType DEF Rewrites, ApprovePayout, RowStatuses, Row
  <2>2. /\ ledger[r] \in Row /\ ledger[r].type = "PAY_OUT" /\ ledger[r].status = "PENDING"
        /\ balance' = balance
    BY <1>0, <1>6 DEF ApprovePayout, Decidable
  <2>3. /\ Effect(new) = -ledger[r].amount /\ new.user = ledger[r].user
        /\ Effect(ledger[r]) = -ledger[r].amount /\ ledger[r].amount \in Int
    BY <2>1, <2>2, SettledEffect DEF Rewrites, Effect
  <2> HIDE DEF new
  <2>4. balance'[w] = balance[w] + Share(new, w) - Share(ledger[r], w)
    BY <1>0, <2>2, <2>3 DEF Share
  <2> QED
    BY <2>1, <2>4, RewriteAccounted DEF new
<1>7. ASSUME NEW r \in Rows, RejectPayout(r)
      PROVE  AddsUpTo(ledger', w, balance'[w])
  <2> DEFINE new == Settled(ledger[r], "CANCELLED", ledger[r].proof)
  <2>1. Rewrites(r, "CANCELLED", ledger[r].proof)
    BY <1>0, <1>7 DEF Rewrites, RejectPayout, RowStatuses, Row
  <2>2. /\ ledger[r] \in Row /\ ledger[r].type = "PAY_OUT" /\ ledger[r].status = "PENDING"
        /\ balance' = [balance EXCEPT ![ledger[r].user] = @ + ledger[r].amount]
        /\ ledger[r].user \in Users
    BY <1>0, <1>7 DEF RejectPayout, Decidable, Row
  <2>3. /\ Effect(new) = 0 /\ new.user = ledger[r].user
        /\ Effect(ledger[r]) = -ledger[r].amount /\ ledger[r].amount \in Int
    BY <2>1, <2>2, SettledEffect DEF Rewrites, Effect
  <2> HIDE DEF new
  <2>4. balance'[w] = balance[w] + Share(new, w) - Share(ledger[r], w)
    BY <1>0, <2>2, <2>3 DEF Share
  <2> QED
    BY <2>1, <2>4, RewriteAccounted DEF new
<1>8. ASSUME NEW u \in Users, NEW a \in Amounts, ManualCredit(u, a)
      PROVE  AddsUpTo(ledger', w, balance'[w])
  <2> DEFINE row == PayinRow(u, "ADMIN_MANUAL", a, "SUCCESS", NoProof)
  <2>1. Inserts(row)
    BY <1>8, InsertedRows DEF Inserts, ManualCredit
  <2>2. Share(row, w) = IF u = w THEN a ELSE 0
    BY DEF Share, Effect, PayinRow
  <2>3. balance'[w] = balance[w] + Share(row, w)
    BY <1>0, <1>8, <2>2, AmountsAssumption DEF ManualCredit
  <2> QED
    BY <2>1, <2>3, InsertAccounted
<1>9. CASE UNCHANGED vars
    BY <1>9 DEF Accounted, vars
<1> QED
    BY <1>1, <1>2, <1>3, <1>4, <1>5, <1>6, <1>7, <1>8, <1>9 DEF Next, ClientOperation, AdminOperation

\* A balance that some running total witnesses is the account statement.
LEMMA AccountedIsReconciled == TypeOK /\ Accounted => Reconciled
PROOF
<1> SUFFICES ASSUME TypeOK, Accounted, NEW u \in Users
             PROVE  balance[u] = Statement(ledger, u)
    BY DEF Reconciled
<1>1. PICK t : RunningTotal(t, ledger, u) /\ t[Len(ledger)] = balance[u]
    BY DEF Accounted, AddsUpTo
<1> QED
    BY <1>1, StatementIsTotal DEF TypeOK

\* As long as withdrawal decisions are made on withdrawals, the balance of every wallet is
\* the sum of the effects of its ledger rows, after any sequence of calls.
THEOREM BalancesReconciled ==
    ASSUME DecidedTypes = {"PAY_OUT"}
    PROVE  Spec => []Reconciled
PROOF
<1>1. Init => TypeOK /\ Accounted
  <2> SUFFICES ASSUME Init, NEW u \in Users PROVE AddsUpTo(ledger, u, balance[u])
    BY InitType DEF Accounted
  <2>1. Len(ledger) = 0 /\ balance[u] = 0
    BY EmptySeq DEF Init
  <2>2. RunningTotal([n \in 0 .. 0 |-> 0], ledger, u)
    BY <2>1 DEF RunningTotal
  <2> QED
    BY <2>1, <2>2 DEF AddsUpTo
<1>2. TypeOK /\ Accounted /\ [Next]_vars => (TypeOK /\ Accounted)'
    BY TypeStep, AccountedStep
<1> QED
    BY <1>1, <1>2, AccountedIsReconciled, PTL DEF Spec

-----------------------------------------------------------------------------
(* One proof, one row *)

\* A row inserted with a proof nobody has keeps proofs unique.
LEMMA InsertUnique ==
    ASSUME TypeOK, ProofsUnique, NEW row, Inserts(row), ~ProofTaken(row.provider, row.proof, 0)
    PROVE  ProofsUnique'
PROOF
<1>1. /\ Len(ledger) \in Nat /\ Rows = 1 .. Len(ledger) /\ Rows' = 1 .. Len(ledger) + 1
      /\ \A q \in 1 .. Len(ledger) : ledger'[q] = ledger[q]
      /\ ledger'[Len(ledger) + 1] = row
    BY InsertType, LenProperties, AppendProperties DEF TypeOK, Inserts, Rows
<1>2. row.proof # NoProof =>
         \A q \in Rows : ~(ledger[q].provider = row.provider /\ ledger[q].proof = row.proof)
    BY <1>1 DEF ProofTaken
<1> QED
    BY <1>1, <1>2 DEF ProofsUnique

\* So does a row that keeps its proof or is given one nobody else has.
LEMMA RewriteUnique ==
    ASSUME TypeOK, ProofsUnique, NEW r, NEW status, NEW proof, Rewrites(r, status, proof),
           proof = ledger[r].proof \/ ~ProofTaken(ledger[r].provider, proof, r)
    PROVE  ProofsUnique'
PROOF
<1> DEFINE new == Settled(ledger[r], status, proof)
<1>1. /\ Rows = 1 .. Len(ledger) /\ Rows' = 1 .. Len(ledger) /\ r \in Rows
      /\ \A q \in Rows : ledger'[q] = IF q = r THEN new ELSE ledger[q]
    BY RewriteType, LenProperties DEF TypeOK, Rows
<1>2. new.provider = ledger[r].provider /\ new.proof = proof
  <2>1. ledger[r] \in Row
    BY RewriteType
  <2>2. status \in RowStatuses /\ proof \in Proofs \cup {NoProof}
    BY DEF Rewrites
  <2> QED
    BY <2>1, <2>2 DEF Settled, Row
<1>3. ASSUME proof # NoProof, NEW q \in Rows, q # r
      PROVE  ~(ledger[q].provider = ledger[r].provider /\ ledger[q].proof = proof)
    BY <1>1, <1>3 DEF ProofsUnique, ProofTaken
<1> HIDE DEF new
<1> SUFFICES ASSUME NEW q \in Rows, NEW s \in Rows, ledger'[q].proof # NoProof,
                    ledger'[q].provider = ledger'[s].provider, ledger'[q].proof = ledger'[s].proof
             PROVE  q = s
    BY <1>1 DEF ProofsUnique
<1>4. CASE q # r /\ s # r
    BY <1>1, <1>4 DEF ProofsUnique
<1>5. CASE q = r \/ s = r
    BY <1>1, <1>2, <1>3, <1>5
<1> QED
    BY <1>4, <1>5

\* Every operation keeps proofs unique.
LEMMA UniqueStep == TypeOK /\ ProofsUnique /\ [Next]_vars => ProofsUnique'
PROOF
<1> SUFFICES ASSUME TypeOK, ProofsUnique, [Next]_vars PROVE ProofsUnique'
    OBVIOUS
<1>0. ledger \in Seq(Row) /\ \A r \in Rows : ledger[r] \in Row
    BY LenProperties, ElementOfSeq DEF TypeOK, Rows
<1>1. ASSUME NEW u \in Users, NEW prov \in Operators, NEW a \in Amounts,
             NEW proof \in DeclaredProofs \cup {NoProof}, DeclarePayin(u, prov, a, proof)
      PROVE  ProofsUnique'
  <2> DEFINE row == PayinRow(u, prov, a, "PENDING", proof)
  <2>1. Inserts(row) /\ ~ProofTaken(prov, proof, 0)
    BY <1>1, InsertedRows, ProofsAssumption DEF Inserts, DeclarePayin
  <2>2. row.provider = prov /\ row.proof = proof
    BY DEF PayinRow
  <2> QED
    BY <2>1, <2>2, InsertUnique
<1>2. ASSUME NEW u \in Users, NEW prov \in Operators, NEW a \in Amounts, RequestPayout(u, prov, a)
      PROVE  ProofsUnique'
  <2>1. Inserts(PayoutRow(u, prov, a)) /\ PayoutRow(u, prov, a).proof = NoProof
    BY <1>2, InsertedRows DEF Inserts, RequestPayout, PayoutRow
  <2> QED
    BY <2>1, InsertUnique DEF ProofTaken
<1>3. ASSUME NEW u \in Users, NEW v \in Users, NEW a \in Amounts, NEW p \in FeePercents,
             TransferInternal(u, v, a, p)
      PROVE  ProofsUnique'
  <2> DEFINE out == TransferRow(u, a, FeeOf(a, p), "sender")
             in == TransferRow(v, a, 0, "recipient")
             N == Len(ledger)
  <2>1. out \in Row /\ in \in Row /\ out.proof = NoProof /\ in.proof = NoProof
    BY FeeIsNat, InsertedRows DEF TransferRow
  <2>2. ledger' = Append(Append(ledger, out), in)
    BY <1>3 DEF TransferInternal
  <2>3. N \in Nat /\ Rows = 1 .. N
    BY <1>0, LenProperties DEF Rows
  <2> HIDE DEF out, in
  <2>4. /\ Append(ledger, out) \in Seq(Row) /\ Len(Append(ledger, out)) = N + 1
        /\ \A q \in 1 .. N : Append(ledger, out)[q] = ledger[q]
        /\ Append(ledger, out)[N + 1] = out
    BY <1>0, <2>1, AppendProperties
  <2>5. /\ Rows' = 1 .. N + 2 /\ ledger'[N + 1] = out /\ ledger'[N + 2] = in
        /\ \A q \in 1 .. N : ledger'[q] = ledger[q]
    <3>1. /\ ledger' \in Seq(Row) /\ Len(ledger') = (N + 1) + 1
          /\ \A q \in 1 .. N + 1 : ledger'[q] = Append(ledger, out)[q]
          /\ ledger'[(N + 1) + 1] = in
      BY <2>1, <2>2, <2>4, AppendProperties
    <3>2. DOMAIN ledger' = 1 .. Len(ledger')
      BY <3>1, LenProperties
    <3> QED
      BY <2>3, <2>4, <3>1, <3>2 DEF Rows
  <2>6. ASSUME NEW q \in Rows', ledger'[q].proof # NoProof
        PROVE  q \in 1 .. N
    BY <2>1, <2>3, <2>5, <2>6
  <2>7. ASSUME NEW q \in Rows', NEW s \in Rows', ledger'[q].proof # NoProof,
               ledger'[q].provider = ledger'[s].provider, ledger'[q].proof = ledger'[s].proof
        PROVE  q = s
    <3>1. q \in Rows /\ s \in Rows /\ ledger'[q] = ledger[q] /\ ledger'[s] = ledger[s]
      BY <2>3, <2>5, <2>6, <2>7
    <3> QED
      BY <2>7, <3>1 DEF ProofsUnique
  <2> QED
    BY <2>7 DEF ProofsUnique
<1>4. ASSUME NEW r \in Rows, NEW proof \in Proofs, ApprovePayin(r, proof)
      PROVE  ProofsUnique'
  <2> DEFINE p == Coalesce(ledger[r].proof, proof)
  <2>1. Rewrites(r, "SUCCESS", p)
    BY <1>0, <1>4, CoalesceType DEF Rewrites, ApprovePayin, RowStatuses, Row
  <2>2. p = ledger[r].proof \/ ~ProofTaken(ledger[r].provider, p, r)
    BY <1>4 DEF ApprovePayin, Coalesce
  <2> QED
    BY <2>1, <2>2, RewriteUnique
<1>5. ASSUME NEW r \in Rows, RejectPayin(r)
      PROVE  ProofsUnique'
  <2>1. Rewrites(r, "FAILED", ledger[r].proof)
    BY <1>0, <1>5 DEF Rewrites, RejectPayin, RowStatuses, Row
  <2> QED
    BY <2>1, RewriteUnique
<1>6. ASSUME NEW r \in Rows, NEW proof \in Proofs \cup {NoProof}, ApprovePayout(r, proof)
      PROVE  ProofsUnique'
  <2> DEFINE p == Coalesce(proof, ledger[r].proof)
  <2>1. Rewrites(r, "SUCCESS", p)
    BY <1>0, <1>6, CoalesceType DEF Rewrites, ApprovePayout, RowStatuses, Row
  <2>2. p = ledger[r].proof \/ ~ProofTaken(ledger[r].provider, p, r)
    BY <1>6 DEF ApprovePayout, Coalesce
  <2> QED
    BY <2>1, <2>2, RewriteUnique
<1>7. ASSUME NEW r \in Rows, RejectPayout(r)
      PROVE  ProofsUnique'
  <2>1. Rewrites(r, "CANCELLED", ledger[r].proof)
    BY <1>0, <1>7 DEF Rewrites, RejectPayout, RowStatuses, Row
  <2> QED
    BY <2>1, RewriteUnique
<1>8. ASSUME NEW u \in Users, NEW a \in Amounts, ManualCredit(u, a)
      PROVE  ProofsUnique'
  <2> DEFINE row == PayinRow(u, "ADMIN_MANUAL", a, "SUCCESS", NoProof)
  <2>1. Inserts(row) /\ row.proof = NoProof
    BY <1>8, InsertedRows DEF Inserts, ManualCredit, PayinRow
  <2> QED
    BY <2>1, InsertUnique DEF ProofTaken
<1>9. CASE UNCHANGED vars
    BY <1>9 DEF ProofsUnique, vars, Rows
<1> QED
    BY <1>1, <1>2, <1>3, <1>4, <1>5, <1>6, <1>7, <1>8, <1>9 DEF Next, ClientOperation, AdminOperation

\* The checks the code makes itself keep one proof on one row of an operator, whatever ids
\* the admin sends: the unique index never has to refuse a write of process_payin_credit.
THEOREM OneProofOneRow == Spec => []ProofsUnique
PROOF
<1>1. Init => ProofsUnique
    BY DEF Init, ProofsUnique, Rows
<1> QED
    BY <1>1, InitType, TypeStep, UniqueStep, PTL DEF Spec

-----------------------------------------------------------------------------
(* The history of the rows *)

\* A withdrawal gets its proof when it is approved: until then its row has none.
PendingUnproved ==
    \A r \in Rows : ledger[r].type = "PAY_OUT" /\ ledger[r].status = "PENDING"
                        => ledger[r].proof = NoProof

\* An insertion touches no earlier row; the only PENDING rows with a proof are deposits.
LEMMA InsertKeeps ==
    ASSUME TypeOK, PendingUnproved, NEW row, Inserts(row), row.proof = NoProof \/ row.type = "PAY_IN"
    PROVE  HistoryKept /\ PendingUnproved'
PROOF
<1>1. /\ Len(ledger) \in Nat /\ Rows = 1 .. Len(ledger) /\ Rows' = 1 .. Len(ledger) + 1
      /\ \A q \in 1 .. Len(ledger) : ledger'[q] = ledger[q] /\ ledger[q] \in Row
      /\ ledger'[Len(ledger) + 1] = row
    BY InsertType, LenProperties, ElementOfSeq, AppendProperties DEF TypeOK, Inserts, Rows
<1>2. \A q \in Rows : SameRequest(ledger[q], ledger'[q])
    BY <1>1 DEF SameRequest, Row
<1> QED
    BY <1>1, <1>2 DEF HistoryKept, PendingUnproved

\* Settling an undecided row without replacing its proof keeps its history.
LEMMA RewriteKeeps ==
    ASSUME TypeOK, PendingUnproved, NEW r, NEW status, NEW proof, Rewrites(r, status, proof),
           ledger[r].status \in {"PENDING", "FAILED"}, status # "PENDING",
           proof = ledger[r].proof \/ ledger[r].proof = NoProof
    PROVE  HistoryKept /\ PendingUnproved'
PROOF
<1> DEFINE new == Settled(ledger[r], status, proof)
<1>1. /\ Rows = 1 .. Len(ledger) /\ Rows' = 1 .. Len(ledger) /\ r \in Rows
      /\ \A q \in Rows : ledger[q] \in Row /\ ledger'[q] = IF q = r THEN new ELSE ledger[q]
    BY RewriteType, LenProperties, ElementOfSeq DEF TypeOK, Rows
<1>2. status \in RowStatuses /\ proof \in Proofs \cup {NoProof} /\ ledger[r] \in Row
    BY <1>1 DEF Rewrites
<1>3. new.status = status /\ new.proof = proof
    BY <1>2 DEF Settled, Row
<1>4. [new EXCEPT !.status = ledger[r].status, !.proof = ledger[r].proof] = ledger[r]
    BY <1>2 DEF Settled, Row
<1>5. SameRequest(ledger[r], new)
    BY <1>3, <1>4 DEF SameRequest
<1>6. \A q \in Rows : q # r => SameRequest(ledger[q], ledger'[q])
    BY <1>1 DEF SameRequest, Row
<1> HIDE DEF new
<1> QED
    BY <1>1, <1>3, <1>5, <1>6 DEF HistoryKept, PendingUnproved

\* Every operation keeps the history of every row.
LEMMA HistoryStep ==
    ASSUME DecidedTypes = {"PAY_OUT"}
    PROVE  TypeOK /\ PendingUnproved /\ [Next]_vars => [HistoryKept]_vars /\ PendingUnproved'
PROOF
<1> SUFFICES ASSUME TypeOK, PendingUnproved, Next
             PROVE  HistoryKept /\ PendingUnproved'
    BY DEF PendingUnproved, vars, Rows
<1>0. ledger \in Seq(Row) /\ \A r \in Rows : ledger[r] \in Row
    BY LenProperties, ElementOfSeq DEF TypeOK, Rows
<1>1. ASSUME NEW u \in Users, NEW prov \in Operators, NEW a \in Amounts,
             NEW proof \in DeclaredProofs \cup {NoProof}, DeclarePayin(u, prov, a, proof)
      PROVE  HistoryKept /\ PendingUnproved'
  <2> DEFINE row == PayinRow(u, prov, a, "PENDING", proof)
  <2>1. Inserts(row) /\ row.type = "PAY_IN"
    BY <1>1, InsertedRows, ProofsAssumption DEF Inserts, DeclarePayin, PayinRow
  <2> QED
    BY <2>1, InsertKeeps
<1>2. ASSUME NEW u \in Users, NEW prov \in Operators, NEW a \in Amounts, RequestPayout(u, prov, a)
      PROVE  HistoryKept /\ PendingUnproved'
  <2> DEFINE row == PayoutRow(u, prov, a)
  <2>1. Inserts(row) /\ row.proof = NoProof
    BY <1>2, InsertedRows DEF Inserts, RequestPayout, PayoutRow
  <2> QED
    BY <2>1, InsertKeeps
<1>3. ASSUME NEW u \in Users, NEW v \in Users, NEW a \in Amounts, NEW p \in FeePercents,
             TransferInternal(u, v, a, p)
      PROVE  HistoryKept /\ PendingUnproved'
  <2> DEFINE out == TransferRow(u, a, FeeOf(a, p), "sender")
             in == TransferRow(v, a, 0, "recipient")
             N == Len(ledger)
  <2>1. out \in Row /\ in \in Row /\ out.proof = NoProof /\ in.proof = NoProof
    BY FeeIsNat, InsertedRows DEF TransferRow
  <2>2. ledger' = Append(Append(ledger, out), in) /\ N \in Nat /\ Rows = 1 .. N
    BY <1>0, <1>3, LenProperties DEF TransferInternal, Rows
  <2> HIDE DEF out, in
  <2>3. /\ Append(ledger, out) \in Seq(Row) /\ Len(Append(ledger, out)) = N + 1
        /\ \A q \in 1 .. N : Append(ledger, out)[q] = ledger[q]
        /\ Append(ledger, out)[N + 1] = out
    BY <1>0, <2>1, AppendProperties
  <2>4. /\ ledger' \in Seq(Row) /\ Len(ledger') = (N + 1) + 1
        /\ \A q \in 1 .. N + 1 : ledger'[q] = Append(ledger, out)[q]
        /\ ledger'[(N + 1) + 1] = in
    BY <2>1, <2>2, <2>3, AppendProperties
  <2>5. Rows' = 1 .. N + 2
    BY <2>2, <2>4, LenProperties DEF Rows
  <2>6. \A q \in Rows : ledger'[q] = ledger[q] /\ q \in Rows'
    BY <2>2, <2>3, <2>4, <2>5
  <2>7. HistoryKept
    BY <1>0, <2>6 DEF HistoryKept, SameRequest, Row
  <2>8. \A q \in Rows' : q \in Rows \/ ledger'[q].proof = NoProof
    BY <2>1, <2>2, <2>3, <2>4, <2>5
  <2> QED
    BY <2>6, <2>7, <2>8 DEF PendingUnproved
<1>4. ASSUME NEW r \in Rows, NEW proof \in Proofs, ApprovePayin(r, proof)
      PROVE  HistoryKept /\ PendingUnproved'
  <2> DEFINE p == Coalesce(ledger[r].proof, proof)
  <2>1. Rewrites(r, "SUCCESS", p)
    BY <1>0, <1>4, CoalesceType DEF Rewrites, ApprovePayin, RowStatuses, Row
  <2>2. ledger[r].status \in {"PENDING", "FAILED"} /\ (p = ledger[r].proof \/ ledger[r].proof = NoProof)
    BY <1>4 DEF ApprovePayin, Creditable, Coalesce
  <2> QED
    BY <2>1, <2>2, RewriteKeeps
<1>5. ASSUME NEW r \in Rows, RejectPayin(r)
      PROVE  HistoryKept /\ PendingUnproved'
  <2>1. Rewrites(r, "FAILED", ledger[r].proof) /\ ledger[r].status = "PENDING"
    BY <1>0, <1>5 DEF Rewrites, RejectPayin, RowStatuses, Row
  <2> QED
    BY <2>1, RewriteKeeps
<1>6. ASSUME NEW r \in Rows, NEW proof \in Proofs \cup {NoProof}, ApprovePayout(r, proof)
      PROVE  HistoryKept /\ PendingUnproved'
  <2> DEFINE p == Coalesce(proof, ledger[r].proof)
  <2>1. Rewrites(r, "SUCCESS", p)
    BY <1>0, <1>6, CoalesceType DEF Rewrites, ApprovePayout, RowStatuses, Row
  <2>2. ledger[r].status = "PENDING" /\ ledger[r].proof = NoProof
    BY <1>6 DEF ApprovePayout, Decidable, PendingUnproved
  <2> QED
    BY <2>1, <2>2, RewriteKeeps
<1>7. ASSUME NEW r \in Rows, RejectPayout(r)
      PROVE  HistoryKept /\ PendingUnproved'
  <2>1. Rewrites(r, "CANCELLED", ledger[r].proof) /\ ledger[r].status = "PENDING"
    BY <1>0, <1>7 DEF Rewrites, RejectPayout, Decidable, RowStatuses, Row
  <2> QED
    BY <2>1, RewriteKeeps
<1>8. ASSUME NEW u \in Users, NEW a \in Amounts, ManualCredit(u, a)
      PROVE  HistoryKept /\ PendingUnproved'
  <2> DEFINE row == PayinRow(u, "ADMIN_MANUAL", a, "SUCCESS", NoProof)
  <2>1. Inserts(row) /\ row.proof = NoProof
    BY <1>8, InsertedRows DEF Inserts, ManualCredit, PayinRow
  <2> QED
    BY <2>1, InsertKeeps
<1> QED
    BY <1>1, <1>2, <1>3, <1>4, <1>5, <1>6, <1>7, <1>8 DEF Next, ClientOperation, AdminOperation

\* As long as withdrawal decisions are made on withdrawals, no call ever rewrites a row that
\* is SUCCESS or CANCELLED, what a client asked, or a proof once stored.
THEOREM HistoryIsKept ==
    ASSUME DecidedTypes = {"PAY_OUT"}
    PROVE  Spec => RowsKeepTheirHistory
PROOF
<1>1. Init => PendingUnproved
    BY DEF Init, PendingUnproved, Rows
<1> QED
    BY <1>1, InitType, TypeStep, HistoryStep, PTL DEF Spec, RowsKeepTheirHistory

-----------------------------------------------------------------------------
(* The audit log *)

\* One entry, with this action, is about row r.
OneEntry(r, action) == \E i \in DOMAIN audit : EntriesFor(r) = {i} /\ audit[i].action = action

\* What AuditMatchesDecisions says of one withdrawal.
Told(r) ==
    /\ ledger[r].status = "PENDING" => EntriesFor(r) = {}
    /\ ledger[r].status = "SUCCESS" => OneEntry(r, "APPROVE_PAYOUT")
    /\ ledger[r].status = "CANCELLED" => OneEntry(r, "REJECT_PAYOUT")
    /\ ledger[r].status # "FAILED"

\* An entry is about a row that exists, so a new row has none.
TargetsExist == \A i \in DOMAIN audit : audit[i].target \in Rows

AuditSound ==
    /\ TargetsExist
    /\ \A r \in Rows : ledger[r].type = "PAY_OUT" => Told(r)

LEMMA ToldIsMatched == TypeOK /\ AuditSound => AuditMatchesDecisions
PROOF
<1>1. TypeOK => \A r \in Rows : ledger[r] \in Row
    BY ElementOfSeq, LenProperties DEF TypeOK, Rows
<1>2. TypeOK => \A r \in Rows : ledger[r].status \in RowStatuses
    BY <1>1 DEF Row
<1> QED
    BY <1>2 DEF AuditSound, AuditMatchesDecisions, Told, OneEntry, RowStatuses

\* No decision: withdrawals stay as they are, and new ones are PENDING.
LEMMA NoDecision ==
    ASSUME AuditSound, UNCHANGED audit, Rows \subseteq Rows',
           \A q \in Rows : /\ ledger'[q].type = ledger[q].type
                           /\ ledger[q].type = "PAY_OUT" => ledger'[q] = ledger[q],
           \A q \in Rows' \ Rows : ledger'[q].type = "PAY_OUT" => ledger'[q].status = "PENDING"
    PROVE  AuditSound'
PROOF
<1>1. TargetsExist'
    BY DEF AuditSound, TargetsExist
<1>2. ASSUME NEW q \in Rows', ledger'[q].type = "PAY_OUT"
      PROVE  Told(q)'
  <2>1. CASE q \in Rows
    <3>0. ledger[q].type = "PAY_OUT"
      BY <1>2, <2>1
    <3>1. ledger'[q] = ledger[q] /\ Told(q)
      BY <2>1, <3>0 DEF AuditSound
    <3>2. EntriesFor(q)' = EntriesFor(q)
      BY DEF EntriesFor
    <3> QED
      BY <3>1, <3>2 DEF Told, OneEntry
  <2>2. CASE q \notin Rows
    BY <1>2, <2>2 DEF AuditSound, TargetsExist, Told, OneEntry, EntriesFor
  <2> QED
    BY <2>1, <2>2
<1> QED
    BY <1>1, <1>2 DEF AuditSound

\* A decision finds its row PENDING, settles it and appends the entry that says so.
LEMMA DecisionTold ==
    ASSUME TypeOK, AuditSound, NEW r, NEW status, NEW proof, NEW action \in Decisions,
           Rewrites(r, status, proof), ledger[r].status = "PENDING",
           <<status, action>> \in {<<"SUCCESS", "APPROVE_PAYOUT">>, <<"CANCELLED", "REJECT_PAYOUT">>},
           audit' = Append(audit, [action |-> action, target |-> r])
    PROVE  AuditSound'
PROOF
<1> DEFINE n == Len(audit) + 1
<1>1. /\ Rows = 1 .. Len(ledger) /\ Rows' = Rows /\ r \in Rows
      /\ ledger[r] \in Row /\ \A q \in Rows : q # r => ledger'[q] = ledger[q]
      /\ ledger'[r] = Settled(ledger[r], status, proof)
    BY RewriteType, LenProperties DEF TypeOK, Rows
<1>2. ledger'[r].type = ledger[r].type /\ ledger'[r].status = status
    BY <1>1 DEF Settled, Row
<1>3. /\ DOMAIN audit = 1 .. Len(audit) /\ Len(audit) \in Nat
      /\ DOMAIN audit' = DOMAIN audit \cup {n}
      /\ n \notin DOMAIN audit
      /\ \A i \in DOMAIN audit : audit'[i] = audit[i]
      /\ audit'[n] = [action |-> action, target |-> r]
    BY <1>1, AuditType, AppendProperties, LenProperties DEF TypeOK, AuditEntry
<1> HIDE DEF n
<1>4. audit'[n].target = r /\ audit'[n].action = action
    BY <1>3
<1>5. TargetsExist'
    BY <1>1, <1>3, <1>4 DEF AuditSound, TargetsExist
<1>6. ASSUME NEW q \in Rows, q # r, ledger[q].type = "PAY_OUT"
      PROVE  Told(q)'
  <2>1. EntriesFor(q)' = EntriesFor(q)
    BY <1>3, <1>4, <1>6 DEF EntriesFor
  <2>2. \A a : OneEntry(q, a) => OneEntry(q, a)'
    BY <1>3, <2>1 DEF OneEntry
  <2>3. Told(q) /\ ledger'[q] = ledger[q]
    BY <1>1, <1>6 DEF AuditSound
  <2> QED
    BY <2>1, <2>2, <2>3 DEF Told
<1>7. ASSUME ledger[r].type = "PAY_OUT"
      PROVE  Told(r)'
  <2>1. EntriesFor(r)' = {n}
    BY <1>1, <1>3, <1>4, <1>7 DEF AuditSound, Told, EntriesFor
  <2>2. OneEntry(r, action)'
    BY <1>3, <1>4, <2>1 DEF OneEntry
  <2> QED
    BY <1>2, <2>2 DEF Told
<1> QED
    BY <1>1, <1>2, <1>5, <1>6, <1>7 DEF AuditSound

\* Insertions and decisions on deposits leave the log to the withdrawals alone.
LEMMA AuditStep == TypeOK /\ AuditSound /\ [Next]_vars => AuditSound'
PROOF
<1> SUFFICES ASSUME TypeOK, AuditSound, Next
             PROVE  AuditSound'
    BY DEF AuditSound, TargetsExist, Told, OneEntry, EntriesFor, Rows, vars
<1>0. ledger \in Seq(Row) /\ \A r \in Rows : ledger[r] \in Row
    BY LenProperties, ElementOfSeq DEF TypeOK, Rows
<1>1. ASSUME NEW row, Inserts(row), row.type = "PAY_OUT" => row.status = "PENDING",
             UNCHANGED audit
      PROVE  AuditSound'
  <2>1. /\ Len(ledger) \in Nat /\ Rows = 1 .. Len(ledger) /\ Rows' = 1 .. Len(ledger) + 1
        /\ \A q \in Rows : ledger'[q] = ledger[q]
        /\ ledger'[Len(ledger) + 1] = row
    BY <1>1, InsertType, LenProperties, AppendProperties DEF TypeOK, Inserts, Rows
  <2> QED
    BY <1>1, <2>1, NoDecision
<1>2. ASSUME NEW r, NEW status, NEW proof, Rewrites(r, status, proof),
             ledger[r].type # "PAY_OUT", UNCHANGED audit
      PROVE  AuditSound'
  <2>1. /\ Rows' = Rows /\ r \in Rows
        /\ \A q \in Rows : ledger'[q] = IF q = r THEN Settled(ledger[r], status, proof)
                                                ELSE ledger[q]
    BY <1>2, RewriteType, LenProperties DEF TypeOK, Rows
  <2>2. Settled(ledger[r], status, proof).type = ledger[r].type
    BY <1>0, <2>1 DEF Settled, Row
  <2> QED
    BY <1>2, <2>1, <2>2, NoDecision
<1>3. ASSUME NEW u \in Users, NEW prov \in Operators, NEW a \in Amounts,
             NEW proof \in DeclaredProofs \cup {NoProof}, DeclarePayin(u, prov, a, proof)
      PROVE  AuditSound'
  <2> DEFINE row == PayinRow(u, prov, a, "PENDING", proof)
  <2>1. Inserts(row) /\ row.type = "PAY_IN" /\ UNCHANGED audit
    BY <1>3, InsertedRows, ProofsAssumption DEF Inserts, DeclarePayin, PayinRow
  <2> QED
    BY <1>1, <2>1
<1>4. ASSUME NEW u \in Users, NEW prov \in Operators, NEW a \in Amounts, RequestPayout(u, prov, a)
      PROVE  AuditSound'
  <2> DEFINE row == PayoutRow(u, prov, a)
  <2>1. Inserts(row) /\ row.status = "PENDING" /\ UNCHANGED audit
    BY <1>4, InsertedRows DEF Inserts, RequestPayout, PayoutRow
  <2> QED
    BY <1>1, <2>1
<1>5. ASSUME NEW u \in Users, NEW v \in Users, NEW a \in Amounts, NEW p \in FeePercents,
             TransferInternal(u, v, a, p)
      PROVE  AuditSound'
  <2> DEFINE out == TransferRow(u, a, FeeOf(a, p), "sender")
             in == TransferRow(v, a, 0, "recipient")
             N == Len(ledger)
  <2>1. /\ out \in Row /\ in \in Row
        /\ out.type = "INTERNAL_TRANSFER" /\ in.type = "INTERNAL_TRANSFER"
    BY FeeIsNat, InsertedRows DEF TransferRow
  <2>2. ledger' = Append(Append(ledger, out), in) /\ N \in Nat /\ Rows = 1 .. N
    BY <1>0, <1>5, LenProperties DEF TransferInternal, Rows
  <2> HIDE DEF out, in
  <2>3. /\ Append(ledger, out) \in Seq(Row) /\ Len(Append(ledger, out)) = N + 1
        /\ \A q \in 1 .. N : Append(ledger, out)[q] = ledger[q]
        /\ Append(ledger, out)[N + 1] = out
    BY <1>0, <2>1, AppendProperties
  <2>4. /\ ledger' \in Seq(Row) /\ Len(ledger') = (N + 1) + 1
        /\ \A q \in 1 .. N + 1 : ledger'[q] = Append(ledger, out)[q]
        /\ ledger'[(N + 1) + 1] = in
    BY <2>1, <2>2, <2>3, AppendProperties
  <2>5. Rows' = 1 .. N + 2
    BY <2>2, <2>4, LenProperties DEF Rows
  <2>6. \A q \in Rows : ledger'[q] = ledger[q] /\ q \in Rows'
    BY <2>2, <2>3, <2>4, <2>5
  <2>7. \A q \in Rows' \ Rows : ledger'[q].type # "PAY_OUT"
    BY <2>1, <2>2, <2>3, <2>4, <2>5
  <2> QED
    BY <1>5, <2>6, <2>7, NoDecision DEF TransferInternal
<1>6. ASSUME NEW r \in Rows, NEW proof \in Proofs, ApprovePayin(r, proof)
      PROVE  AuditSound'
  <2>1. Rewrites(r, "SUCCESS", Coalesce(ledger[r].proof, proof))
    BY <1>0, <1>6, CoalesceType DEF Rewrites, ApprovePayin, RowStatuses, Row
  <2> QED
    BY <1>2, <1>6, <2>1 DEF ApprovePayin
<1>7. ASSUME NEW r \in Rows, RejectPayin(r)
      PROVE  AuditSound'
  <2>1. Rewrites(r, "FAILED", ledger[r].proof)
    BY <1>0, <1>7 DEF Rewrites, RejectPayin, RowStatuses, Row
  <2> QED
    BY <1>2, <1>7, <2>1 DEF RejectPayin
<1>8. ASSUME NEW r \in Rows, NEW proof \in Proofs \cup {NoProof}, ApprovePayout(r, proof)
      PROVE  AuditSound'
  <2>1. Rewrites(r, "SUCCESS", Coalesce(proof, ledger[r].proof)) /\ ledger[r].status = "PENDING"
    BY <1>0, <1>8, CoalesceType DEF Rewrites, ApprovePayout, Decidable, RowStatuses, Row
  <2> QED
    BY <1>8, <2>1, DecisionTold DEF ApprovePayout, Decisions
<1>9. ASSUME NEW r \in Rows, RejectPayout(r)
      PROVE  AuditSound'
  <2>1. Rewrites(r, "CANCELLED", ledger[r].proof) /\ ledger[r].status = "PENDING"
    BY <1>0, <1>9 DEF Rewrites, RejectPayout, Decidable, RowStatuses, Row
  <2> QED
    BY <1>9, <2>1, DecisionTold DEF RejectPayout, Decisions
<1>10. ASSUME NEW u \in Users, NEW a \in Amounts, ManualCredit(u, a)
       PROVE  AuditSound'
  <2> DEFINE row == PayinRow(u, "ADMIN_MANUAL", a, "SUCCESS", NoProof)
  <2>1. Inserts(row) /\ row.type = "PAY_IN" /\ UNCHANGED audit
    BY <1>10, InsertedRows DEF Inserts, ManualCredit, PayinRow
  <2> QED
    BY <1>1, <2>1
<1> QED
    BY <1>3, <1>4, <1>5, <1>6, <1>7, <1>8, <1>9, <1>10 DEF Next, ClientOperation, AdminOperation

\* Whatever ids administrators send and however often, the audit log has exactly the
\* decision that a withdrawal shows, and none while it is PENDING.
THEOREM AuditTellsDecisions == Spec => []AuditMatchesDecisions
PROOF
<1>1. Init => AuditSound
    BY DEF Init, AuditSound, TargetsExist, Rows
<1> QED
    BY <1>1, InitType, TypeStep, AuditStep, ToldIsMatched, PTL DEF Spec

-----------------------------------------------------------------------------
(* Sums over finite sets.  SumOn chooses the elements in an order nobody knows; a function *)
(* that is additive in whichever element is taken out is a witness for all orders.         *)

\* h gives the sum of f over every subset of E.
Additive(h, f, E) ==
    /\ h \in [SUBSET E -> Int]
    /\ h[{}] = 0
    /\ \A s \in SUBSET E : \A x \in s : h[s] = f[x] + h[s \ {x}]

\* Every sum of integers over a finite set exists: the smallest set without one would have
\* one after all, from the set without one of its elements.
LEMMA AdditiveExists ==
    ASSUME NEW E, IsFiniteSet(E), NEW f, \A x \in E : f[x] \in Int
    PROVE  \E h : Additive(h, f, E)
PROOF
<1> SUFFICES ASSUME ~\E h : Additive(h, f, E)
             PROVE  FALSE
    OBVIOUS
<1> DEFINE Sizes == {n \in Nat : \E D \in SUBSET E : n = Cardinality(D) /\ ~\E h : Additive(h, f, D)}
<1>1. Sizes # {}
  <2>1. Cardinality(E) \in Nat
    BY FS_CardinalityType
  <2> QED
    BY <2>1
<1>2. PICK n \in Sizes : \A k \in Sizes : ~(k < n)
    BY <1>1, LeastNatural
<1>3. PICK D \in SUBSET E : n = Cardinality(D) /\ ~\E h : Additive(h, f, D)
    OBVIOUS
<1>4. IsFiniteSet(D)
    BY FS_Subset
<1>5. D # {}
  <2>1. Additive([s \in SUBSET {} |-> 0], f, {})
    BY DEF Additive
  <2> QED
    BY <1>3, <2>1
<1>6. PICK d \in D : TRUE
    BY <1>5
<1>7. Cardinality(D \ {d}) = n - 1 /\ n \in Nat /\ Cardinality(D \ {d}) \in Nat
    BY <1>3, <1>4, FS_RemoveElement, FS_CardinalityType
<1>8. PICK g : Additive(g, f, D \ {d})
  <2>1. n - 1 \notin Sizes
    BY <1>2, <1>7
  <2> QED
    BY <1>7, <2>1
<1> DEFINE h == [s \in SUBSET D |-> IF d \in s THEN f[d] + g[s \ {d}] ELSE g[s]]
<1>9. /\ g \in [SUBSET (D \ {d}) -> Int] /\ g[{}] = 0
      /\ \A s \in SUBSET (D \ {d}) : \A x \in s : g[s] = f[x] + g[s \ {x}]
    BY <1>8 DEF Additive
<1>10. h \in [SUBSET D -> Int] /\ h[{}] = 0
  <2>1. ASSUME NEW s \in SUBSET D
        PROVE  (IF d \in s THEN f[d] + g[s \ {d}] ELSE g[s]) \in Int
    <3>1. s \ {d} \in SUBSET (D \ {d}) /\ g[s \ {d}] \in Int /\ f[d] \in Int
      BY <1>9
    <3>2. d \notin s => s \in SUBSET (D \ {d}) /\ g[s] \in Int
      BY <1>9
    <3> QED
      BY <3>1, <3>2
  <2> QED
    BY <1>9, <2>1
<1>11. ASSUME NEW s \in SUBSET D, NEW x \in s
       PROVE  h[s] = f[x] + h[s \ {x}]
  <2>1. CASE x = d
    <3>1. h[s] = f[d] + g[s \ {d}] /\ h[s \ {d}] = g[s \ {d}]
      BY <2>1
    <3> QED
      BY <2>1, <3>1
  <2>2. CASE x # d /\ d \in s
    <3>1. s \ {d} \in SUBSET (D \ {d}) /\ x \in s \ {d} /\ (s \ {d}) \ {x} = (s \ {x}) \ {d}
      BY <2>2
    <3>2. g[s \ {d}] = f[x] + g[(s \ {x}) \ {d}]
      <4>1. g[s \ {d}] = f[x] + g[(s \ {d}) \ {x}]
        BY <1>9, <3>1
      <4> QED
        BY <3>1, <4>1
    <3>3. h[s] = f[d] + g[s \ {d}] /\ h[s \ {x}] = f[d] + g[(s \ {x}) \ {d}]
      BY <2>2
    <3>4. (s \ {x}) \ {d} \in SUBSET (D \ {d})
      OBVIOUS
    <3>5. f[d] \in Int /\ f[x] \in Int /\ g[(s \ {x}) \ {d}] \in Int
      BY <1>9, <3>4
    <3> HIDE DEF h
    <3> QED
      BY <3>2, <3>3, <3>5
  <2>3. CASE d \notin s
    <3>1. s \in SUBSET (D \ {d}) /\ h[s] = g[s] /\ h[s \ {x}] = g[s \ {x}]
      BY <2>3
    <3> QED
      BY <1>9, <3>1
  <2> QED
    BY <2>1, <2>2, <2>3
<1>12. Additive(h, f, D)
    BY <1>10, <1>11 DEF Additive
<1> QED
    BY <1>3, <1>12

\* Two functions that are additive in the elements one of them chooses agree, so SumOn is any
\* additive function.
LEMMA SumIsAdditive ==
    ASSUME NEW E, IsFiniteSet(E), NEW f, \A x \in E : f[x] \in Int, NEW h, Additive(h, f, E)
    PROVE  SumOn(f, E) = h[E]
PROOF
<1> DEFINE Pick(s) == CHOOSE x \in s : TRUE
           Def(g) == [s \in SUBSET E |-> IF s = {} THEN 0 ELSE f[Pick(s)] + g[s \ {Pick(s)}]]
           sum == CHOOSE g : g = Def(g)
<1>1. SumOn(f, E) = sum[E]
    BY DEF SumOn, MapThenSumSet, MapThenFoldSet
<1>2. \A s \in SUBSET E : s # {} => Pick(s) \in s
    OBVIOUS
<1> HIDE DEF Pick
<1>3. h \in [SUBSET E -> Int] /\ h[{}] = 0
      /\ \A s \in SUBSET E : \A x \in s : h[s] = f[x] + h[s \ {x}]
    BY DEF Additive
<1>4. h = Def(h)
    BY <1>2, <1>3
<1>5. sum = Def(sum)
    BY <1>4
<1> HIDE DEF sum
<1>6. \A s \in SUBSET E : sum[s] = h[s]
  <2> SUFFICES ASSUME NEW t \in SUBSET E, sum[t] # h[t]
               PROVE  FALSE
    OBVIOUS
  <2> DEFINE Sizes == {n \in Nat : \E s \in SUBSET E : n = Cardinality(s) /\ sum[s] # h[s]}
  <2>1. Sizes # {}
    <3>1. IsFiniteSet(t)
      BY FS_Subset
    <3>2. Cardinality(t) \in Nat
      BY <3>1, FS_CardinalityType
    <3> QED
      BY <3>2
  <2>2. PICK n \in Sizes : \A k \in Sizes : ~(k < n)
    BY <2>1, LeastNatural
  <2>3. PICK s \in SUBSET E : n = Cardinality(s) /\ sum[s] # h[s]
    OBVIOUS
  <2>4. IsFiniteSet(s) /\ s # {}
    BY <1>3, <1>5, <2>3, FS_Subset
  <2> DEFINE x == Pick(s)
             rest == s \ {x}
  <2>5. x \in s
    BY <1>2, <2>4
  <2>6. Cardinality(rest) = n - 1 /\ n \in Nat /\ Cardinality(rest) \in Nat
    <3>1. IsFiniteSet(rest) /\ Cardinality(rest) = Cardinality(s) - 1
      BY <2>4, <2>5, FS_RemoveElement
    <3> QED
      BY <2>3, <3>1, FS_CardinalityType
  <2>7. sum[rest] = h[rest]
    <3>1. rest \in SUBSET E /\ n - 1 \notin Sizes
      BY <2>2, <2>6
    <3> QED
      BY <2>6, <3>1
  <2>8. sum[s] = f[x] + sum[rest]
    BY <1>5, <2>4
  <2>9. h[s] = f[x] + h[rest]
    BY <1>3, <2>5
  <2> QED
    BY <2>3, <2>7, <2>8, <2>9
<1> QED
    BY <1>1, <1>6

\* Nothing adds up to 0; any one element may be taken out of a sum.
LEMMA SumEmpty ==
    ASSUME NEW f
    PROVE  SumOn(f, {}) = 0
PROOF
<1> DEFINE h == [s \in SUBSET {} |-> 0]
<1>1. Additive(h, f, {}) /\ h[{}] = 0
    BY DEF Additive
<1> HIDE DEF h
<1>2. IsFiniteSet({})
    BY FS_EmptySet
<1> QED
    BY <1>1, <1>2, SumIsAdditive

LEMMA SumElement ==
    ASSUME NEW E, IsFiniteSet(E), NEW f, \A x \in E : f[x] \in Int
    PROVE  /\ SumOn(f, E) \in Int
           /\ \A x \in E : SumOn(f, E) = f[x] + SumOn(f, E \ {x})
PROOF
<1>1. PICK h : Additive(h, f, E)
    BY AdditiveExists
<1>2. /\ h \in [SUBSET E -> Int] /\ h[{}] = 0
      /\ \A s \in SUBSET E : \A x \in s : h[s] = f[x] + h[s \ {x}]
    BY <1>1 DEF Additive
<1>3. SumOn(f, E) = h[E]
    BY <1>1, SumIsAdditive
<1>4. ASSUME NEW x \in E
      PROVE  SumOn(f, E \ {x}) = h[E \ {x}]
  <2> DEFINE D == E \ {x}
             g == [s \in SUBSET D |-> h[s]]
  <2>1. Additive(g, f, D)
    BY <1>2 DEF Additive
  <2>2. IsFiniteSet(D)
    BY FS_Subset
  <2>3. g[D] = h[D]
    OBVIOUS
  <2> HIDE DEF D, g
  <2>4. \A y \in D : f[y] \in Int
    BY DEF D
  <2> QED
    BY <2>1, <2>2, <2>3, <2>4, SumIsAdditive DEF D
<1>5. h[E] \in Int /\ \A x \in E : h[E] = f[x] + h[E \ {x}]
    BY <1>2
<1> QED
    BY <1>3, <1>4, <1>5

\* The sum depends on the values of f over the set, and moves with each of them.
LEMMA SumAgree ==
    ASSUME NEW E, IsFiniteSet(E), NEW f, \A x \in E : f[x] \in Int,
           NEW g, \A x \in E : g[x] = f[x]
    PROVE  SumOn(g, E) = SumOn(f, E)
PROOF
<1>1. PICK h : Additive(h, f, E)
    BY AdditiveExists
<1>2. Additive(h, g, E)
    BY <1>1 DEF Additive
<1>3. \A x \in E : g[x] \in Int
    OBVIOUS
<1> QED
    BY <1>1, <1>2, <1>3, SumIsAdditive

LEMMA SumChange ==
    ASSUME NEW E, IsFiniteSet(E), NEW f, \A x \in E : f[x] \in Int,
           NEW x \in E, NEW g, g[x] \in Int, \A y \in E \ {x} : g[y] = f[y]
    PROVE  SumOn(g, E) = SumOn(f, E) - f[x] + g[x] /\ SumOn(g, E) \in Int
PROOF
<1> DEFINE D == E \ {x}
<1>1. IsFiniteSet(D) /\ \A y \in D : f[y] \in Int /\ g[y] = f[y]
    BY FS_Subset
<1>2. SumOn(g, D) = SumOn(f, D) /\ SumOn(f, D) \in Int
    BY <1>1, SumAgree, SumElement
<1>3. \A y \in E : g[y] \in Int
    BY <1>1
<1>4. SumOn(g, E) = g[x] + SumOn(g, D) /\ SumOn(f, E) = f[x] + SumOn(f, D)
    BY <1>3, SumElement
<1>5. f[x] \in Int /\ g[x] \in Int
    OBVIOUS
<1> QED
    BY <1>2, <1>4, <1>5

\* A sum over chosen elements is one over all of them in which the others count 0.
LEMMA SumChosen ==
    ASSUME NEW E, IsFiniteSet(E), NEW T \in SUBSET E, NEW f, \A x \in T : f[x] \in Int,
           NEW g, \A x \in E : g[x] = IF x \in T THEN f[x] ELSE 0
    PROVE  SumOn(g, E) = SumOn(f, T)
PROOF
<1> DEFINE k == [s \in SUBSET E |-> SumOn(f, s \cap T)]
<1>1. \A s \in SUBSET E : IsFiniteSet(s \cap T)
    BY FS_Subset
<1>2. k \in [SUBSET E -> Int]
  <2>1. ASSUME NEW s \in SUBSET E PROVE SumOn(f, s \cap T) \in Int
    <3>1. \A x \in s \cap T : f[x] \in Int
      OBVIOUS
    <3> QED
      BY <1>1, <3>1, SumElement
  <2> QED
    BY <2>1
<1>3. k[{}] = 0
  <2>1. {} \cap T = {}
    OBVIOUS
  <2> QED
    BY <2>1, SumEmpty
<1>4. ASSUME NEW s \in SUBSET E, NEW x \in s
      PROVE  k[s] = g[x] + k[s \ {x}]
  <2>1. k[s] = SumOn(f, s \cap T) /\ k[s \ {x}] = SumOn(f, (s \ {x}) \cap T) /\ k[s] \in Int
    BY <1>2
  <2>2. CASE x \in T
    <3>1. (s \ {x}) \cap T = (s \cap T) \ {x} /\ x \in s \cap T /\ g[x] = f[x]
      BY <2>2
    <3>2. \A y \in s \cap T : f[y] \in Int
      OBVIOUS
    <3>3. SumOn(f, s \cap T) = f[x] + SumOn(f, (s \cap T) \ {x})
      BY <1>1, <3>1, <3>2, SumElement
    <3> QED
      BY <2>1, <3>1, <3>3
  <2>3. CASE x \notin T
    <3>1. (s \ {x}) \cap T = s \cap T /\ g[x] = 0
      BY <2>3
    <3>2. k[s \ {x}] = k[s]
      BY <2>1, <3>1
    <3> HIDE DEF k
    <3> QED
      BY <2>1, <3>1, <3>2
  <2> QED
    BY <2>2, <2>3
<1>5. Additive(k, g, E)
    BY <1>2, <1>3, <1>4 DEF Additive
<1>6. k[E] = SumOn(f, T)
  <2>1. E \cap T = T
    OBVIOUS
  <2> QED
    BY <2>1
<1>7. \A x \in E : g[x] \in Int
    OBVIOUS
<1> HIDE DEF k
<1> QED
    BY <1>5, <1>6, <1>7, SumIsAdditive

\* The sum of a combination is the combination of the sums.
LEMMA SumLinear ==
    ASSUME NEW E, IsFiniteSet(E), NEW a, NEW b, NEW c,
           \A x \in E : a[x] \in Int /\ b[x] \in Int /\ c[x] \in Int,
           NEW f, \A x \in E : f[x] = a[x] + b[x] - c[x]
    PROVE  SumOn(f, E) = SumOn(a, E) + SumOn(b, E) - SumOn(c, E)
PROOF
<1> DEFINE k == [s \in SUBSET E |-> SumOn(a, s) + SumOn(b, s) - SumOn(c, s)]
<1>1. ASSUME NEW s \in SUBSET E
      PROVE  /\ SumOn(a, s) \in Int /\ SumOn(b, s) \in Int /\ SumOn(c, s) \in Int
             /\ \A x \in s : /\ SumOn(a, s) = a[x] + SumOn(a, s \ {x})
                             /\ SumOn(b, s) = b[x] + SumOn(b, s \ {x})
                             /\ SumOn(c, s) = c[x] + SumOn(c, s \ {x})
  <2>1. IsFiniteSet(s) /\ \A x \in s : a[x] \in Int /\ b[x] \in Int /\ c[x] \in Int
    BY FS_Subset
  <2> QED
    BY <2>1, SumElement
<1>2. k \in [SUBSET E -> Int] /\ k[{}] = 0
    BY <1>1, SumEmpty
<1>3. ASSUME NEW s \in SUBSET E, NEW x \in s
      PROVE  k[s] = f[x] + k[s \ {x}]
  <2>1. s \ {x} \in SUBSET E /\ x \in E
    OBVIOUS
  <2>2. /\ k[s] = SumOn(a, s) + SumOn(b, s) - SumOn(c, s)
        /\ k[s \ {x}] = SumOn(a, s \ {x}) + SumOn(b, s \ {x}) - SumOn(c, s \ {x})
    BY <2>1
  <2> HIDE DEF k
  <2>3. f[x] = a[x] + b[x] - c[x] /\ a[x] \in Int /\ b[x] \in Int /\ c[x] \in Int
    OBVIOUS
  <2>4. SumOn(a, s \ {x}) \in Int /\ SumOn(b, s \ {x}) \in Int /\ SumOn(c, s \ {x}) \in Int
    BY <1>1, <2>1
  <2>5. /\ SumOn(a, s) = a[x] + SumOn(a, s \ {x}) /\ SumOn(b, s) = b[x] + SumOn(b, s \ {x})
        /\ SumOn(c, s) = c[x] + SumOn(c, s \ {x})
    BY <1>1
  <2> QED
    BY <2>2, <2>3, <2>4, <2>5
<1>4. Additive(k, f, E)
    BY <1>2, <1>3 DEF Additive
<1>5. k[E] = SumOn(a, E) + SumOn(b, E) - SumOn(c, E)
    OBVIOUS
<1>6. \A x \in E : f[x] \in Int
    OBVIOUS
<1> HIDE DEF k
<1> QED
    BY <1>4, <1>5, <1>6, SumIsAdditive

-----------------------------------------------------------------------------
(* Conservation *)

\* What a row adds to the fees and the withdrawals, less what it adds to the deposits.
IsWithdrawn(row) == row.type = "PAY_OUT" /\ row.status \in {"PENDING", "SUCCESS"}
IsConfirmed(row) == row.type = "PAY_IN" /\ row.status = "SUCCESS"
Cost(row) ==
    row.fee + (IF IsWithdrawn(row) THEN row.amount ELSE 0)
            - (IF IsConfirmed(row) THEN row.amount ELSE 0)

TotalCost(log) == SumOn([r \in DOMAIN log |-> Cost(log[r])], DOMAIN log)

\* The inductive form of Conserved.
Balanced == SumOn(balance, Users) + TotalCost(ledger) = 0

LEMMA CostIsInt ==
    ASSUME NEW row \in Row
    PROVE  Cost(row) \in Int /\ row.fee \in Int /\ row.amount \in Int
BY DEF Cost, Row

\* The rows of a log are finitely many, each with its cost.
LEMMA LogCosts ==
    ASSUME NEW log \in Seq(Row)
    PROVE  /\ Len(log) \in Nat /\ DOMAIN log = 1 .. Len(log) /\ IsFiniteSet(DOMAIN log)
           /\ \A r \in DOMAIN log : log[r] \in Row
           /\ TotalCost(log) \in Int
PROOF
<1>1. Len(log) \in Nat /\ DOMAIN log = 1 .. Len(log)
    BY LenProperties
<1>2. IsFiniteSet(DOMAIN log)
    BY <1>1, FS_Interval
<1>3. \A r \in DOMAIN log : log[r] \in Row
    BY <1>1, ElementOfSeq
<1> DEFINE f == [r \in DOMAIN log |-> Cost(log[r])]
<1>4. \A r \in DOMAIN log : f[r] \in Int
    BY <1>3, CostIsInt
<1> HIDE DEF f
<1>5. SumOn(f, DOMAIN log) \in Int
    BY <1>2, <1>4, SumElement
<1> QED
    BY <1>1, <1>2, <1>3, <1>5 DEF TotalCost, f

\* A new row adds its cost, a rewritten one the difference.
LEMMA AppendCost ==
    ASSUME NEW log \in Seq(Row), NEW row \in Row
    PROVE  TotalCost(Append(log, row)) = TotalCost(log) + Cost(row)
PROOF
<1> DEFINE new == Append(log, row)
           f == [r \in DOMAIN log |-> Cost(log[r])]
           g == [r \in DOMAIN new |-> Cost(new[r])]
           n == Len(log) + 1
<1>1. /\ new \in Seq(Row) /\ DOMAIN new = 1 .. n /\ new[n] = row
      /\ \A r \in DOMAIN log : new[r] = log[r]
    BY AppendProperties, LenProperties
<1>2. /\ IsFiniteSet(DOMAIN log) /\ IsFiniteSet(DOMAIN new) /\ Len(log) \in Nat
      /\ DOMAIN log = 1 .. Len(log)
      /\ \A r \in DOMAIN log : Cost(log[r]) \in Int
      /\ \A r \in DOMAIN new : Cost(new[r]) \in Int
    BY <1>1, LogCosts, CostIsInt
<1>3. n \in DOMAIN new /\ (DOMAIN new) \ {n} = DOMAIN log
    BY <1>1, <1>2
<1>4. /\ \A r \in DOMAIN log : g[r] = f[r] /\ f[r] \in Int
      /\ \A r \in DOMAIN new : g[r] \in Int
      /\ g[n] = Cost(row)
    BY <1>1, <1>2, <1>3
<1> HIDE DEF f, g, new, n
<1>5. SumOn(g, DOMAIN new) = Cost(row) + SumOn(g, DOMAIN log)
  <2> DEFINE E == DOMAIN new
  <2>1. IsFiniteSet(E) /\ n \in E /\ E \ {n} = DOMAIN log /\ \A r \in E : g[r] \in Int
    BY <1>2, <1>3, <1>4
  <2> HIDE DEF E
  <2>2. SumOn(g, E) = g[n] + SumOn(g, E \ {n})
    BY <2>1, SumElement
  <2> QED
    BY <1>4, <2>1, <2>2 DEF E
<1>6. SumOn(g, DOMAIN log) = SumOn(f, DOMAIN log) /\ SumOn(f, DOMAIN log) \in Int
    BY <1>2, <1>4, SumAgree, SumElement
<1>7. Cost(row) \in Int
    BY CostIsInt
<1>8. TotalCost(new) = SumOn(g, DOMAIN new) /\ TotalCost(log) = SumOn(f, DOMAIN log)
    BY DEF TotalCost, f, g
<1> QED
    BY <1>5, <1>6, <1>7, <1>8 DEF new

LEMMA UpdateCost ==
    ASSUME NEW log \in Seq(Row), NEW r \in DOMAIN log, NEW row \in Row
    PROVE  TotalCost([log EXCEPT ![r] = row]) = TotalCost(log) - Cost(log[r]) + Cost(row)
PROOF
<1> DEFINE new == [log EXCEPT ![r] = row]
           f == [q \in DOMAIN log |-> Cost(log[q])]
           g == [q \in DOMAIN new |-> Cost(new[q])]
<1>1. DOMAIN new = DOMAIN log /\ new[r] = row /\ \A q \in DOMAIN log \ {r} : new[q] = log[q]
    OBVIOUS
<1>2. /\ IsFiniteSet(DOMAIN log)
      /\ \A q \in DOMAIN log : Cost(log[q]) \in Int
      /\ Cost(row) \in Int
    BY LogCosts, CostIsInt
<1>3. /\ \A q \in DOMAIN log : f[q] = Cost(log[q]) /\ f[q] \in Int
      /\ g[r] = Cost(row) /\ \A q \in DOMAIN log \ {r} : g[q] = f[q]
    BY <1>1, <1>2
<1> HIDE DEF f, g, new
<1>4. SumOn(g, DOMAIN log) = SumOn(f, DOMAIN log) - f[r] + g[r]
  <2> DEFINE E == DOMAIN log
  <2>1. IsFiniteSet(E) /\ r \in E
    BY <1>2
  <2>2. \A q \in E : f[q] \in Int
    BY <1>3
  <2>3. g[r] \in Int /\ \A q \in E \ {r} : g[q] = f[q]
    BY <1>2, <1>3
  <2> HIDE DEF E
  <2>4. SumOn(g, E) = SumOn(f, E) - f[r] + g[r]
    BY <2>1, <2>2, <2>3, SumChange
  <2> QED
    BY <2>4 DEF E
<1> QED
    BY <1>1, <1>3, <1>4 DEF TotalCost, f, g, new

\* A credit or a debit of one wallet moves the sum of all.
LEMMA WalletsSum ==
    ASSUME NEW b \in [Users -> Int], NEW u \in Users, NEW d \in Int
    PROVE  /\ SumOn(b, Users) \in Int /\ [b EXCEPT ![u] = b[u] + d] \in [Users -> Int]
           /\ SumOn([b EXCEPT ![u] = b[u] + d], Users) = SumOn(b, Users) + d
PROOF
<1> DEFINE c == [b EXCEPT ![u] = b[u] + d]
<1>1. /\ c \in [Users -> Int] /\ c[u] = b[u] + d /\ \A v \in Users \ {u} : c[v] = b[v]
      /\ \A v \in Users : b[v] \in Int /\ c[v] \in Int
    OBVIOUS
<1> HIDE DEF c
<1>2. SumOn(c, Users) = SumOn(b, Users) - b[u] + c[u] /\ SumOn(b, Users) \in Int
    BY <1>1, UsersAssumption, SumChange, SumElement
<1> QED
    BY <1>1, <1>2 DEF c

\* A transfer between two wallets moves the sum by what one pays and the other gets.
LEMMA TwoWalletsSum ==
    ASSUME NEW b \in [Users -> Int], NEW u \in Users, NEW v \in Users, u # v,
           NEW c \in Int, NEW d \in Int
    PROVE  /\ SumOn(b, Users) \in Int
           /\ SumOn([b EXCEPT ![u] = b[u] + c, ![v] = b[v] + d], Users) = SumOn(b, Users) + c + d
PROOF
<1> DEFINE paid == [b EXCEPT ![u] = b[u] + c]
           both == [paid EXCEPT ![v] = paid[v] + d]
<1>1. /\ paid \in [Users -> Int] /\ SumOn(b, Users) \in Int
      /\ SumOn(paid, Users) = SumOn(b, Users) + c
    BY WalletsSum
<1>2. both = [b EXCEPT ![u] = b[u] + c, ![v] = b[v] + d]
    OBVIOUS
<1>3. \A p \in [Users -> Int] : SumOn([p EXCEPT ![v] = p[v] + d], Users) = SumOn(p, Users) + d
    BY WalletsSum
<1> HIDE DEF paid
<1>4. SumOn(both, Users) = SumOn(paid, Users) + d
    BY <1>1, <1>3
<1> HIDE DEF both
<1> QED
    BY <1>1, <1>2, <1>4

\* The costs of all rows are the fees and withdrawals less the deposits, so what is balanced is
\* conserved.
LEMMA BalancedIsConserved == TypeOK /\ Balanced => Conserved
PROOF
<1> SUFFICES ASSUME TypeOK, Balanced PROVE Conserved
    OBVIOUS
<1>1. /\ ledger \in Seq(Row) /\ IsFiniteSet(Rows)
      /\ \A r \in Rows : ledger[r] \in Row
    BY LogCosts DEF TypeOK, Rows
<1> DEFINE amounts == [r \in Rows |-> ledger[r].amount]
           fees == [r \in Rows |-> ledger[r].fee]
           out == {r \in Rows : IsWithdrawn(ledger[r])}
           in == {r \in Rows : IsConfirmed(ledger[r])}
           outs == [r \in Rows |-> IF r \in out THEN amounts[r] ELSE 0]
           ins == [r \in Rows |-> IF r \in in THEN amounts[r] ELSE 0]
           costs == [r \in Rows |-> Cost(ledger[r])]
<1>2. \A r \in Rows : ledger[r].amount \in Int /\ ledger[r].fee \in Int
    BY <1>1, CostIsInt
<1>3. /\ \A r \in Rows : /\ amounts[r] \in Int /\ fees[r] \in Int
                         /\ outs[r] = IF r \in out THEN amounts[r] ELSE 0
                         /\ ins[r] = IF r \in in THEN amounts[r] ELSE 0
      /\ out \in SUBSET Rows /\ in \in SUBSET Rows
    BY <1>2
<1>4. \A r \in Rows : costs[r] = fees[r] + outs[r] - ins[r]
    BY DEF Cost
<1>5. /\ FraisTotal = SumOn(fees, Rows) /\ Withdrawn = SumOn(amounts, out)
      /\ Confirmed = SumOn(amounts, in) /\ TotalCost(ledger) = SumOn(costs, Rows)
    BY DEF FraisTotal, Withdrawn, Confirmed, AmountOf, TotalCost, Rows, IsWithdrawn, IsConfirmed
<1> HIDE DEF amounts, fees, out, in, outs, ins, costs
<1>6. \A r \in Rows : outs[r] \in Int /\ ins[r] \in Int
    BY <1>3
<1>7. SumOn(outs, Rows) = SumOn(amounts, out) /\ SumOn(ins, Rows) = SumOn(amounts, in)
    BY <1>1, <1>3, SumChosen
<1>8. SumOn(costs, Rows) = SumOn(fees, Rows) + SumOn(outs, Rows) - SumOn(ins, Rows)
    BY <1>1, <1>3, <1>4, <1>6, SumLinear
<1>9. SumOn(fees, Rows) \in Int /\ SumOn(outs, Rows) \in Int /\ SumOn(ins, Rows) \in Int
    BY <1>1, <1>3, <1>6, SumElement
<1>10. SumOn(balance, Users) \in Int
  <2>1. \A u \in Users : balance[u] \in Int
    BY DEF TypeOK
  <2> QED
    BY <2>1, UsersAssumption, SumElement
<1>11. /\ FraisTotal \in Int /\ Withdrawn \in Int /\ Confirmed \in Int
       /\ TotalCost(ledger) = FraisTotal + Withdrawn - Confirmed
    BY <1>5, <1>7, <1>8, <1>9
<1>12. SoldeGlobal \in Int /\ SoldeGlobal + TotalCost(ledger) = 0
    BY <1>10 DEF Balanced, SoldeGlobal
<1> QED
    BY <1>11, <1>12 DEF Conserved

\* Money that moves between the wallets and the ledger's costs.
LEMMA InsertBalanced ==
    ASSUME TypeOK, Balanced, NEW row, Inserts(row), NEW u \in Users,
           balance' = [balance EXCEPT ![u] = @ - Cost(row)]
    PROVE  Balanced'
PROOF
<1>1. /\ balance \in [Users -> Int] /\ ledger \in Seq(Row) /\ row \in Row
      /\ ledger' = Append(ledger, row)
    BY DEF TypeOK, Inserts
<1>2. Cost(row) \in Int /\ TotalCost(ledger) \in Int
    BY <1>1, CostIsInt, LogCosts
<1> DEFINE d == 0 - Cost(row)
<1>3. d \in Int /\ d = 0 - Cost(row) /\ balance[u] - Cost(row) = balance[u] + d
    BY <1>1, <1>2
<1> HIDE DEF d
<1>4. balance' = [balance EXCEPT ![u] = balance[u] + d]
    BY <1>3
<1>5. SumOn(balance', Users) = SumOn(balance, Users) + d /\ SumOn(balance, Users) \in Int
  <2>1. /\ SumOn(balance, Users) \in Int
        /\ SumOn([balance EXCEPT ![u] = balance[u] + d], Users) = SumOn(balance, Users) + d
    BY <1>1, <1>3, WalletsSum
  <2> QED
    BY <2>1, <1>4
<1>6. TotalCost(ledger') = TotalCost(ledger) + Cost(row)
    BY <1>1, AppendCost
<1> QED
    BY <1>2, <1>3, <1>5, <1>6 DEF Balanced

LEMMA RewriteBalanced ==
    ASSUME TypeOK, Balanced, NEW r, NEW status, NEW proof, Rewrites(r, status, proof),
           NEW d \in Int,
           Cost(Settled(ledger[r], status, proof)) = Cost(ledger[r]) - d,
           \/ d = 0 /\ balance' = balance
           \/ balance' = [balance EXCEPT ![ledger[r].user] = @ + d]
    PROVE  Balanced'
PROOF
<1> DEFINE new == Settled(ledger[r], status, proof)
<1>1. /\ balance \in [Users -> Int] /\ ledger \in Seq(Row) /\ r \in DOMAIN ledger
      /\ ledger[r] \in Row /\ new \in Row /\ ledger' = [ledger EXCEPT ![r] = new]
  <2>1. balance \in [Users -> Int] /\ ledger \in Seq(Row)
    BY DEF TypeOK
  <2>2. r \in DOMAIN ledger /\ ledger' = [ledger EXCEPT ![r] = new]
    BY DEF Rewrites, Rows
  <2>3. ledger[r] \in Row
    BY <2>1, <2>2, LogCosts
  <2>4. new \in Row
    BY <2>3 DEF Rewrites, Settled, Row
  <2> QED
    BY <2>1, <2>2, <2>3, <2>4
<1>2. ledger[r].user \in Users /\ Cost(ledger[r]) \in Int /\ TotalCost(ledger) \in Int
    BY <1>1, CostIsInt, LogCosts DEF Row
<1>3. SumOn(balance', Users) = SumOn(balance, Users) + d /\ SumOn(balance, Users) \in Int
  <2>1. CASE d = 0 /\ balance' = balance
    <3>1. \A v \in Users : balance[v] \in Int
      BY <1>1
    <3>2. SumOn(balance, Users) \in Int
      BY <3>1, UsersAssumption, SumElement
    <3> QED
      BY <2>1, <3>2
  <2>2. CASE balance' = [balance EXCEPT ![ledger[r].user] = @ + d]
    BY <1>1, <1>2, <2>2, WalletsSum
  <2> QED
    BY <2>1, <2>2
<1>4. TotalCost(ledger') = TotalCost(ledger) - Cost(ledger[r]) + Cost(new)
    BY <1>1, UpdateCost
<1> QED
    BY <1>2, <1>3, <1>4 DEF Balanced

\* Settling a row changes its cost only through its status.
LEMMA SettledCost ==
    ASSUME NEW row \in Row, NEW status \in RowStatuses, NEW proof \in Proofs \cup {NoProof}
    PROVE  LET new == Settled(row, status, proof) IN
           /\ row.amount \in Int /\ row.fee \in Int
           /\ row.type = "PAY_IN" =>
                 Cost(new) = row.fee - IF status = "SUCCESS" THEN row.amount ELSE 0
           /\ row.type = "PAY_OUT" =>
                 Cost(new) = row.fee + IF status \in {"PENDING", "SUCCESS"} THEN row.amount ELSE 0
BY DEF Settled, Row, Cost, IsWithdrawn, IsConfirmed

\* Every operation takes from the wallets what it adds to the costs.
LEMMA BalancedStep ==
    ASSUME DecidedTypes = {"PAY_OUT"}
    PROVE  TypeOK /\ Balanced /\ [Next]_vars => Balanced'
PROOF
<1> SUFFICES ASSUME TypeOK, Balanced, [Next]_vars PROVE Balanced'
    OBVIOUS
<1>0. /\ balance \in [Users -> Nat] /\ ledger \in Seq(Row)
      /\ \A r \in Rows : ledger[r] \in Row
    BY LenProperties, ElementOfSeq DEF TypeOK, Rows
<1> USE DEF Charged
<1>1. ASSUME NEW u \in Users, NEW prov \in Operators, NEW a \in Amounts,
             NEW proof \in DeclaredProofs \cup {NoProof}, DeclarePayin(u, prov, a, proof)
      PROVE  Balanced'
  <2> DEFINE row == PayinRow(u, prov, a, "PENDING", proof)
  <2>1. Inserts(row)
    BY <1>1, InsertedRows, ProofsAssumption DEF Inserts, DeclarePayin
  <2>2. Cost(row) = 0
    BY DEF Cost, IsWithdrawn, IsConfirmed, PayinRow
  <2>3. balance' = [balance EXCEPT ![u] = @ - Cost(row)]
    BY <1>0, <1>1, <2>2 DEF DeclarePayin
  <2> QED
    BY <2>1, <2>3, InsertBalanced
<1>2. ASSUME NEW u \in Users, NEW prov \in Operators, NEW a \in Amounts, RequestPayout(u, prov, a)
      PROVE  Balanced'
  <2> DEFINE row == PayoutRow(u, prov, a)
  <2>1. Inserts(row)
    BY <1>2, InsertedRows DEF Inserts, RequestPayout
  <2>2. Cost(row) = a
    BY AmountsAssumption DEF Cost, IsWithdrawn, IsConfirmed, PayoutRow
  <2>3. balance' = [balance EXCEPT ![u] = @ - Cost(row)]
    BY <1>2, <2>2 DEF RequestPayout
  <2> QED
    BY <2>1, <2>3, InsertBalanced
<1>3. ASSUME NEW u \in Users, NEW v \in Users, NEW a \in Amounts, NEW p \in FeePercents,
             TransferInternal(u, v, a, p)
      PROVE  Balanced'
  <2> DEFINE fee == FeeOf(a, p)
             out == TransferRow(u, a, fee, "sender")
             in == TransferRow(v, a, 0, "recipient")
             mid == Append(ledger, out)
  <2>1. a \in Nat \ {0} /\ fee \in Nat
    BY FeeIsNat
  <2>2. out \in Row /\ in \in Row
    BY <2>1, InsertedRows
  <2>3. mid \in Seq(Row) /\ ledger' = Append(mid, in)
    BY <1>0, <1>3, <2>2, AppendProperties DEF TransferInternal
  <2>4. Cost(out) = fee /\ Cost(in) = 0
    BY <2>1 DEF Cost, IsWithdrawn, IsConfirmed, TransferRow
  <2> HIDE DEF fee, out, in
  <2>5. balance' = [balance EXCEPT ![u] = @ - (a + fee), ![v] = @ + a] /\ u # v
    BY <1>3 DEF TransferInternal, fee
  <2>6. balance \in [Users -> Int] /\ -(a + fee) \in Int /\ a \in Int
    BY <1>0, <2>1
  <2>7. balance' = [balance EXCEPT ![u] = balance[u] + (-(a + fee)), ![v] = balance[v] + a]
    BY <2>1, <2>5, <2>6
  <2>8. /\ SumOn(balance, Users) \in Int
        /\ SumOn([balance EXCEPT ![u] = balance[u] + (-(a + fee)), ![v] = balance[v] + a], Users)
             = SumOn(balance, Users) + (-(a + fee)) + a
    BY <2>5, <2>6, TwoWalletsSum
  <2> HIDE DEF mid
  <2>9. SumOn(balance', Users) = SumOn(balance, Users) + (-(a + fee)) + a
    BY <2>7, <2>8
  <2>10. TotalCost(ledger') = TotalCost(mid) + Cost(in)
    BY <2>2, <2>3, AppendCost
  <2>11. TotalCost(mid) = TotalCost(ledger) + Cost(out) /\ TotalCost(ledger) \in Int
    BY <1>0, <2>2, AppendCost, LogCosts DEF mid
  <2> QED
    BY <2>1, <2>4, <2>8, <2>9, <2>10, <2>11 DEF Balanced
<1>4. ASSUME NEW r \in Rows, NEW proof \in Proofs, ApprovePayin(r, proof)
      PROVE  Balanced'
  <2> DEFINE p == Coalesce(ledger[r].proof, proof)
  <2>1. Rewrites(r, "SUCCESS", p)
    BY <1>0, <1>4, CoalesceType DEF Rewrites, ApprovePayin, RowStatuses, Row
  <2>2. /\ ledger[r] \in Row /\ ledger[r].type = "PAY_IN" /\ ledger[r].status # "SUCCESS"
        /\ balance' = [balance EXCEPT ![ledger[r].user] = @ + ledger[r].amount]
    BY <1>0, <1>4 DEF ApprovePayin, Creditable
  <2>3. /\ Cost(ledger[r]) = ledger[r].fee /\ ledger[r].amount \in Int /\ ledger[r].fee \in Int
        /\ Cost(Settled(ledger[r], "SUCCESS", p)) = ledger[r].fee - ledger[r].amount
    BY <2>1, <2>2, SettledCost DEF Rewrites, Cost, IsWithdrawn, IsConfirmed
  <2> QED
    BY <2>1, <2>2, <2>3, RewriteBalanced
<1>5. ASSUME NEW r \in Rows, RejectPayin(r)
      PROVE  Balanced'
  <2>1. Rewrites(r, "FAILED", ledger[r].proof)
    BY <1>0, <1>5 DEF Rewrites, RejectPayin, RowStatuses, Row
  <2>2. /\ ledger[r] \in Row /\ ledger[r].type = "PAY_IN" /\ ledger[r].status # "SUCCESS"
        /\ balance' = balance
    BY <1>0, <1>5 DEF RejectPayin
  <2>3. /\ Cost(ledger[r]) = ledger[r].fee /\ ledger[r].fee \in Int
        /\ Cost(Settled(ledger[r], "FAILED", ledger[r].proof)) = ledger[r].fee
    BY <2>1, <2>2, SettledCost DEF Rewrites, Cost, IsWithdrawn, IsConfirmed
  <2> QED
    BY <2>1, <2>2, <2>3, RewriteBalanced
<1>6. ASSUME NEW r \in Rows, NEW proof \in Proofs \cup {NoProof}, ApprovePayout(r, proof)
      PROVE  Balanced'
  <2> DEFINE p == Coalesce(proof, ledger[r].proof)
  <2>1. Rewrites(r, "SUCCESS", p)
    BY <1>0, <1>6, CoalesceType DEF Rewrites, ApprovePayout, RowStatuses, Row
  <2>2. /\ ledger[r] \in Row /\ ledger[r].type = "PAY_OUT" /\ ledger[r].status = "PENDING"
        /\ balance' = balance
    BY <1>0, <1>6 DEF ApprovePayout, Decidable
  <2>3. ledger[r].amount \in Int /\ ledger[r].fee \in Int
    BY <2>2, CostIsInt
  <2>4. Cost(ledger[r]) = ledger[r].fee + ledger[r].amount
    BY <2>2, <2>3 DEF Cost, IsWithdrawn, IsConfirmed
  <2>5. Cost(Settled(ledger[r], "SUCCESS", p)) = ledger[r].fee + ledger[r].amount
    BY <2>1, <2>2, SettledCost DEF Rewrites
  <2> HIDE DEF p
  <2>6. Cost(Settled(ledger[r], "SUCCESS", p)) = Cost(ledger[r]) - 0
    BY <2>3, <2>4, <2>5
  <2> QED
    BY <2>1, <2>2, <2>6, RewriteBalanced
<1>7. ASSUME NEW r \in Rows, RejectPayout(r)
      PROVE  Balanced'
  <2>1. Rewrites(r, "CANCELLED", ledger[r].proof)
    BY <1>0, <1>7 DEF Rewrites, RejectPayout, RowStatuses, Row
  <2>2. /\ ledger[r] \in Row /\ ledger[r].type = "PAY_OUT" /\ ledger[r].status = "PENDING"
        /\ balance' = [balance EXCEPT ![ledger[r].user] = @ + ledger[r].amount]
    BY <1>0, <1>7 DEF RejectPayout, Decidable
  <2>3. ledger[r].amount \in Int /\ ledger[r].fee \in Int
    BY <2>2, CostIsInt
  <2>4. Cost(ledger[r]) = ledger[r].fee + ledger[r].amount
    BY <2>2, <2>3 DEF Cost, IsWithdrawn, IsConfirmed
  <2>5. Cost(Settled(ledger[r], "CANCELLED", ledger[r].proof)) = ledger[r].fee
    BY <2>1, <2>2, <2>3, SettledCost DEF Rewrites
  <2>6. Cost(Settled(ledger[r], "CANCELLED", ledger[r].proof)) = Cost(ledger[r]) - ledger[r].amount
    BY <2>3, <2>4, <2>5
  <2> QED
    BY <2>1, <2>2, <2>3, <2>6, RewriteBalanced
<1>8. ASSUME NEW u \in Users, NEW a \in Amounts, ManualCredit(u, a)
      PROVE  Balanced'
  <2> DEFINE row == PayinRow(u, "ADMIN_MANUAL", a, "SUCCESS", NoProof)
  <2>1. Inserts(row)
    BY <1>8, InsertedRows DEF Inserts, ManualCredit
  <2>2. a \in Int
    BY AmountsAssumption
  <2>3. Cost(row) = 0 - a
    BY <2>2 DEF Cost, IsWithdrawn, IsConfirmed, PayinRow
  <2> HIDE DEF row
  <2>4. balance[u] + a = balance[u] - Cost(row)
    BY <1>0, <2>2, <2>3
  <2>5. balance' = [balance EXCEPT ![u] = @ - Cost(row)]
    BY <1>8, <2>4 DEF ManualCredit
  <2> QED
    BY <2>1, <2>5, InsertBalanced
<1>9. CASE UNCHANGED vars
    BY <1>9 DEF Balanced, vars
<1> QED
    BY <1>1, <1>2, <1>3, <1>4, <1>5, <1>6, <1>7, <1>8, <1>9 DEF Next, ClientOperation, AdminOperation

\* At first there is no money and no row.
LEMMA InitBalanced == Init => Balanced
PROOF
<1> SUFFICES ASSUME Init PROVE Balanced
    OBVIOUS
<1> DEFINE E == DOMAIN ledger
<1>1. E = {} /\ \A u \in Users : balance[u] = 0
    BY EmptySeq DEF Init
<1>2. TotalCost(ledger) = 0
    BY <1>1, SumEmpty DEF TotalCost
<1>3. SumOn(balance, Users) = 0
  <2> DEFINE none == [x \in {} |-> 0]
  <2>1. \A u \in Users : balance[u] = IF u \in {} THEN none[u] ELSE 0
    BY <1>1
  <2>2. {} \in SUBSET Users /\ \A u \in {} : none[u] \in Int
    OBVIOUS
  <2> HIDE DEF none
  <2>3. SumOn(balance, Users) = SumOn(none, {})
    BY <2>1, <2>2, UsersAssumption, SumChosen
  <2> QED
    BY <2>3, SumEmpty
<1> QED
    BY <1>2, <1>3 DEF Balanced

\* The wallets, the fees and the withdrawals are together the confirmed deposits, after any
\* sequence of calls that decides withdrawals on the ids of withdrawals.
THEOREM MoneyIsConserved ==
    ASSUME DecidedTypes = {"PAY_OUT"}
    PROVE  Spec => []Conserved
<1>1. Init => TypeOK /\ Balanced
    BY InitType, InitBalanced
<1>2. TypeOK /\ Balanced /\ [Next]_vars => (TypeOK /\ Balanced)'
    BY TypeStep, BalancedStep
<1> QED
    BY <1>1, <1>2, BalancedIsConserved, PTL DEF Spec
=============================================================================
