--------------------------- MODULE LedgerSessions ---------------------------
(***************************************************************************)
(* The wallet and admin routes statement by statement, on PostgreSQL in    *)
(* READ COMMITTED: what Ledger does in one step is here a transaction that *)
(* takes its row locks one after the other, reads committed data in        *)
(* between and publishes its writes when it commits.  A transaction may be *)
(* lost at any moment (process killed, connection cut) and is rolled back. *)
(*                                                                         *)
(* A call runs in a worker process.  The routes that use the synchronous   *)
(* session are coroutines that never yield: such a call keeps the event    *)
(* loop of its worker, even while it waits for a lock.  declare-async is   *)
(* the one operation that yields between its INSERT and its COMMIT.        *)
(***************************************************************************)
EXTENDS Ledger

CONSTANTS
    Workers,    \* server processes (one; two while a deployment replaces the old one)
    Slots,      \* calls a worker may have in progress
    Routes,     \* the declaration routes clients use: "declare", "declare-async"
    NoJob       \* a slot with no call in progress

ASSUME RoutesAssumption == Routes \subseteq {"declare", "declare-async"}
ASSUME OrderedUsers == Users \subseteq Nat   \* ORDER BY user_id compares them

Calls == Workers \X Slots
WorkerOf(c) == c[1]

VARIABLES
    job,    \* the request a call is serving
    pc,     \* its next statement
    held    \* the locks its transaction holds

svars == <<balance, ledger, audit, job, pc, held>>

(* What transactions lock: wallet rows, ledger rows, keys of the unique index. *)
Wallet(u) == {<<"wallet", u>>}
LedgerRow(r) == {<<"row", r>>}
Key(prov, proof) == IF proof = NoProof THEN {} ELSE {<<"key", prov, proof>>}

Locks == (UNION {Wallet(u) : u \in Users}) \cup (UNION {LedgerRow(r) : r \in 1 .. MaxRows})
         \cup (UNION {Key(prov, proof) : prov \in Operators, proof \in Proofs})

FreeWithoutLocking(c, locks) == TRUE
Free(c, locks) == \A d \in Calls \ {c} : held[d] \cap locks = {}

Requests ==
    [op: Routes, user: Users, provider: Operators, amount: Amounts,
     proof: DeclaredProofs \cup {NoProof}]
    \cup [op: {"payout"}, user: Users, provider: Operators, amount: Amounts]
    \cup [op: {"transfer"}, user: Users, to: Users, amount: Amounts, percent: {0}]
    \cup [op: {"credit"}, user: Users, amount: Amounts]
    \cup [op: {"approve-payin"}, row: 1 .. MaxRows, proof: Proofs]
    \cup [op: {"approve-payout"}, row: 1 .. MaxRows, proof: Proofs \cup {NoProof}]
    \cup [op: {"reject-payin", "reject-payout"}, row: 1 .. MaxRows]

\* A transfer's percent is unknown until the call has read it.
Jobs == Requests \cup [op: {"transfer"}, user: Users, to: Users, amount: Amounts,
                       percent: FeePercents]

Busy(c) == pc[c] # "idle"
Doing(c, ops, statement) == pc[c] = statement /\ job[c].op \in ops

\* A call in progress that lets its worker serve others.
Yields(c) == job[c].op = "declare-async"

\* The event loop of c's worker is not kept by another call.
HasLoop(c) ==
    \A d \in Calls \ {c} : WorkerOf(d) = WorkerOf(c) /\ Busy(d) => Yields(d)

SInit ==
    /\ Init
    /\ job = [c \in Calls |-> NoJob]
    /\ pc = [c \in Calls |-> "idle"]
    /\ held = [c \in Calls |-> {}]

-----------------------------------------------------------------------------
(* What the next statement of a call locks *)

\* ORDER BY user_id FOR UPDATE: the wallet a transfer locks first.
SenderFirst(u, v) == u
FirstLocked(u, v) == IF u < v THEN u ELSE v
SecondLocked(u, v) == IF FirstLocked(u, v) = u THEN v ELSE u

\* The proof an approval leaves on its row.
NewProof(j) ==
    IF j.op = "approve-payin" THEN Coalesce(ledger[j.row].proof, j.proof)
                              ELSE Coalesce(j.proof, ledger[j.row].proof)

\* SELECT ... FOR UPDATE or UPDATE of the row a decision is about.
RowLockOnDeposits(j) == IF j.op = "approve-payin" THEN LedgerRow(j.row) ELSE {}
RowLock(j) == LedgerRow(j.row)

Wanted(c) ==
    LET j == job[c] IN
    CASE pc[c] = "wallet" -> Wallet(ledger[j.row].user)
      [] pc[c] = "write"  -> Key(ledger[j.row].provider, NewProof(j))
      [] pc[c] = "lock"   -> Wallet(FirstLocked(j.user, j.to))
      [] pc[c] = "lock2"  -> Wallet(SecondLocked(j.user, j.to))
      [] pc[c] = "first" /\ j.op \in {"declare", "declare-async"} -> Key(j.provider, j.proof)
      [] pc[c] = "first" /\ j.op \in {"payout", "credit"} -> Wallet(j.user)
      [] pc[c] = "first" /\ "row" \in DOMAIN j -> RowLock(j)
      [] OTHER -> {}

-----------------------------------------------------------------------------
(* Statements *)

FinishKeepingLocks(c) ==
    /\ held' = held
    /\ pc' = [pc EXCEPT ![c] = "idle"]
    /\ job' = [job EXCEPT ![c] = NoJob]

\* The transaction is over, with or without effect: its locks are released.
Finish(c) ==
    /\ held' = [held EXCEPT ![c] = {}]
    /\ pc' = [pc EXCEPT ![c] = "idle"]
    /\ job' = [job EXCEPT ![c] = NoJob]

\* {success: false}, 4xx, or an exception: nothing was written.
Refuse(c) == Finish(c) /\ UNCHANGED <<balance, ledger, audit>>

\* The statement takes its locks and the call goes on.
Proceed(c, next) ==
    /\ held' = [held EXCEPT ![c] = @ \cup Wanted(c)]
    /\ pc' = [pc EXCEPT ![c] = next]
    /\ UNCHANGED <<balance, ledger, audit, job>>

\* It waits for its locks, then looks at committed data and goes on or refuses.
Checked(c, ok, next) ==
    /\ Free(c, Wanted(c))
    /\ IF ok THEN Proceed(c, next) ELSE Refuse(c)

RowsOf(op) == CASE op = "transfer" -> 2
                [] op \in {"declare", "declare-async", "payout", "credit"} -> 1
                [] OTHER -> 0

Begin(c, request) ==
    /\ ~Busy(c)
    /\ HasLoop(c)
    /\ "row" \in DOMAIN request => request.row \in Rows
    /\ job' = [job EXCEPT ![c] = request]
    /\ pc' = [pc EXCEPT ![c] = "first"]
    /\ UNCHANGED <<balance, ledger, audit, held>>

\* INSERT ... ON CONFLICT DO NOTHING (declare), INSERT (declare-async).
InsertDeposit(c) ==
    /\ Doing(c, {"declare", "declare-async"}, "first")
    /\ Checked(c, ~ProofTaken(job[c].provider, job[c].proof, 0), "commit")

\* process_payout_deduction: SELECT balance ... FOR UPDATE.
LockPayer(c) ==
    /\ Doing(c, {"payout"}, "first")
    /\ Checked(c, HasFunds(job[c].user, job[c].amount, job[c].amount), "commit")

\* admin_manual_credit: UPDATE wallets.
LockCredited(c) == Doing(c, {"credit"}, "first") /\ Checked(c, TRUE, "commit")

\* transfer_internal: get_fee_percent, before the SQL function is called.  The percent is
\* the one an administrator has set last (set_fee_percent, which may come at any moment),
\* and the transfer keeps it whatever is set afterwards.
ReadFee(c) ==
    /\ Doing(c, {"transfer"}, "first")
    /\ \E p \in FeePercents : job' = [job EXCEPT ![c].percent = p]
    /\ pc' = [pc EXCEPT ![c] = "lock"]
    /\ UNCHANGED <<balance, ledger, audit, held>>

\* process_internal_transfer: both wallets in one order, then the balance.
LockFirst(c) ==
    /\ Doing(c, {"transfer"}, "lock")
    /\ Checked(c, job[c].user # job[c].to, "lock2")

LockSecond(c) ==
    LET j == job[c] IN
    /\ Doing(c, {"transfer"}, "lock2")
    /\ Checked(c, HasFunds(j.user, j.amount, Charged(j.amount, FeeOf(j.amount, j.percent))), "commit")

\* process_payin_credit: the row FOR UPDATE, its status, the proof's other uses.
LockDeposit(c) ==
    LET r == job[c].row IN
    /\ Doing(c, {"approve-payin"}, "first")
    /\ Checked(c, /\ ledger[r].type = "PAY_IN"
                  /\ Creditable(r)
                  /\ ~ProofTaken(ledger[r].provider, job[c].proof, r), "wallet")

\* UPDATE ... WHERE id = :tid AND status = 'PENDING' AND type = 'PAY_IN'.
LockRejected(c) ==
    LET r == job[c].row IN
    /\ Doing(c, {"reject-payin"}, "first")
    /\ Checked(c, ledger[r].type = "PAY_IN" /\ ledger[r].status = "PENDING", "commit")

\* admin_process_payout: the row FOR UPDATE and its status.
LockWithdrawal(c) ==
    /\ Doing(c, {"approve-payout", "reject-payout"}, "first")
    /\ Checked(c, Decidable(job[c].row),
               IF job[c].op = "approve-payout" THEN "write" ELSE "wallet")

\* The wallet of the row's user, for the credit or the refund.
LockOwner(c) ==
    /\ Doing(c, {"approve-payin", "reject-payout"}, "wallet")
    /\ Checked(c, TRUE, IF job[c].op = "approve-payin" THEN "write" ELSE "commit")

\* UPDATE of the row: a proof that another row has meanwhile violates the unique index.
WriteProof(c) ==
    LET j == job[c] IN
    /\ Doing(c, {"approve-payin", "approve-payout"}, "write")
    /\ Checked(c, ~ProofTaken(ledger[j.row].provider, NewProof(j), j.row), "commit")

-----------------------------------------------------------------------------
(* Commits: the writes of the transaction become visible together. *)

Effects(j) ==
    CASE j.op \in {"declare", "declare-async"} ->
           /\ ledger' = Append(ledger, PayinRow(j.user, j.provider, j.amount, "PENDING", j.proof))
           /\ UNCHANGED <<balance, audit>>
      [] j.op = "payout" ->
           /\ balance' = [balance EXCEPT ![j.user] = @ - j.amount]
           /\ ledger' = Append(ledger, PayoutRow(j.user, j.provider, j.amount))
           /\ UNCHANGED audit
      [] j.op = "transfer" ->
           LET fee == FeeOf(j.amount, j.percent) IN
           /\ balance' = [balance EXCEPT ![j.user] = @ - Charged(j.amount, fee), ![j.to] = @ + j.amount]
           /\ ledger' = Append(Append(ledger, TransferRow(j.user, j.amount, fee, "sender")),
                               TransferRow(j.to, j.amount, 0, "recipient"))
           /\ UNCHANGED audit
      [] j.op = "credit" ->
           /\ balance' = [balance EXCEPT ![j.user] = @ + j.amount]
           /\ ledger' = Append(ledger, PayinRow(j.user, "ADMIN_MANUAL", j.amount, "SUCCESS", NoProof))
           /\ UNCHANGED audit
      [] j.op = "approve-payin" ->
           /\ balance' = [balance EXCEPT ![ledger[j.row].user] = @ + ledger[j.row].amount]
           /\ ledger' = [ledger EXCEPT ![j.row] = Settled(@, "SUCCESS", NewProof(j))]
           /\ UNCHANGED audit
      [] j.op = "reject-payin" ->
           /\ ledger' = [ledger EXCEPT ![j.row] = Settled(@, "FAILED", @.proof)]
           /\ UNCHANGED <<balance, audit>>
      [] j.op = "approve-payout" ->
           /\ ledger' = [ledger EXCEPT ![j.row] = Settled(@, "SUCCESS", NewProof(j))]
           /\ audit' = Append(audit, [action |-> "APPROVE_PAYOUT", target |-> j.row])
           /\ UNCHANGED balance
      [] j.op = "reject-payout" ->
           /\ balance' = [balance EXCEPT ![ledger[j.row].user] = @ + ledger[j.row].amount]
           /\ ledger' = [ledger EXCEPT ![j.row] = Settled(@, "CANCELLED", @.proof)]
           /\ audit' = Append(audit, [action |-> "REJECT_PAYOUT", target |-> j.row])

\* The bound of the model: a call that would fill the ledger beyond MaxRows is refused.
Commit(c) ==
    /\ pc[c] = "commit"
    /\ IF Room(RowsOf(job[c].op))
       THEN Effects(job[c]) /\ Finish(c)
       ELSE Refuse(c)

\* Process killed, connection cut, statement in error: PostgreSQL rolls back.
Abort(c) == Busy(c) /\ Refuse(c)

Step(c) ==
    /\ HasLoop(c)
    /\ \/ InsertDeposit(c) \/ LockPayer(c) \/ LockCredited(c)
       \/ ReadFee(c) \/ LockFirst(c) \/ LockSecond(c)
       \/ LockDeposit(c) \/ LockRejected(c) \/ LockWithdrawal(c)
       \/ LockOwner(c) \/ WriteProof(c)
       \/ Commit(c)

SNext ==
    \/ \E c \in Calls, request \in Requests : Begin(c, request)
    \/ \E c \in Calls : Step(c)
    \/ \E c \in Calls : Abort(c)

\* PostgreSQL hands a lock to its waiters in turn, and a worker whose event loop is free
\* runs its calls in turn: a statement that is possible again and again is executed.
SSpec == SInit /\ [][SNext]_svars /\ \A c \in Calls : SF_svars(Step(c))

-----------------------------------------------------------------------------
(* Properties *)

\* Calls, statements and locks are those of the program; a call that is over holds no lock.
STypeOK ==
    /\ job \in [Calls -> Jobs \cup {NoJob}]
    /\ pc \in [Calls -> {"idle", "first", "lock", "lock2", "wallet", "write", "commit"}]
    /\ held \in [Calls -> SUBSET Locks]
    /\ \A c \in Calls : ~Busy(c) => job[c] = NoJob /\ held[c] = {}
    /\ \A c, d \in Calls : c # d => held[c] \cap held[d] = {}

\* However their statements interleave, and whichever are rolled back, the transactions of
\* concurrent calls have the effect of the SQL functions executed one at a time.
ImplementsLedger == Spec

\* c cannot go on before d does: d holds a lock it wants, or keeps the event loop.
WaitsFor(c, d) ==
    /\ Busy(c) /\ Busy(d) /\ c # d
    /\ \/ held[d] \cap Wanted(c) # {}
       \/ WorkerOf(c) = WorkerOf(d) /\ ~Yields(d)

\* No set of calls is waiting for one another: transfers lock their two wallets in one
\* order, and whoever holds a wallet or a key never waits for a ledger row.
NoDeadlock ==
    ~\E S \in (SUBSET Calls) \ {{}} : \A c \in S : \E d \in S : WaitsFor(c, d)

\* Every call that was accepted comes to an end, with or without effect.
EveryCallFinishes == \A c \in Calls : Busy(c) ~> ~Busy(c)
=============================================================================
