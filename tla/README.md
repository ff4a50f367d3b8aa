# Ayak'bine backend: a TLA+ verification project

Ayak'bine is a wallet service: clients hold a balance in XOF, declare deposits they have made
with a mobile-money operator, ask for withdrawals, and pay one another; administrators confirm or
reject deposits and withdrawals, credit wallets by hand and decide identity dossiers. This
directory holds TLA+ models of that program, the TLC runs that check them, and TLAPS proofs.

Paths are relative to the repository (`app/...` is `src/app/...`, `sql/...` is `src/sql/...`).

## 1. The system

### Components

| Component | State | Operations | Here |
|---|---|---|---|
| Wallet ledger: `sql/migration_004`, `006`, `009`, `010` (functions and indexes in force), `app/wallet_service.py` | `wallets.balance`, `ledger_transactions`, `admin_audit_log` | `declare_payin_pending`, `process_payin_credit`, `process_payout_deduction`, `admin_process_payout`, `process_internal_transfer`, `admin_manual_credit`, the REJECT of a deposit | `Ledger`, `LedgerEvidence` |
| Routes on the synchronous session: `app/api_wallet.py`, `app/api_admin.py`, `app/database.py`, `start.sh` | transactions, row locks, keys of the unique index, the event loop of the worker | the statements of each route | `LedgerSessions` |
| Identity dossiers: `app/api_kyc.py`, `app/api_admin.py` (two decision routes), `sql/migration_002` | `kyc_submissions` | `submit_kyc`, `kyc_decide_jwt`, `kyc_decide` | `Kyc` |
| Dashboard, histories, HTML pages | none (reads) | `dashboard_stats`, lists | the dashboard's sums are the property `Conserved` |
| Platform settings | `platform_settings` | get/set of the fee percent and the payment links | the fee percent a transfer reads |
| Accounts: `app/api_auth.py`, `app/auth.py`, `api_admin.py:423-439` | `users`, `wallets` (creation), JWTs | register, login, bootstrap of the administrator, profile, block/unblock | `Accounts` |
| Push notifications, devices: `app/push_service.py`, `app/api_devices.py`, `app/database.py` | `device_tokens`, connections of the synchronous pool, the event loop | register, notify in the route or in a thread, delete of invalid tokens | `Push` |
| Start-up migrations: `app/db_migrate.py` | `schema_migrations`, what the files define | read the record, adopt a hand-made schema, apply the files in order | `Migrations` |
| Legacy JEKO payments: `app/api/v1/transfers.py`, `agent.py`, `webhooks.py`, `app/services` | `transactions` (table not in the schema), Redis keys, the calls in progress | transfer, cash-in, cash-out, webhooks, reconciliation by a task and by hand | `Jeko`, `Settlement` (not mounted by `main.py`; its models are absent) |
| Legacy OTP, SMS, KYC, devices: `app/services/otp_service.py`, `app/services/sms`, `app/api/v1` | Redis counters | codes, messages | not modelled |

### How they interact, and what is hard

* One uvicorn process (`start.sh:22`), one event loop. Every route is a coroutine. The wallet
  routes use a *synchronous* psycopg2 session inside the coroutine: they never yield, so calls of
  one process do not interleave, but a call that waits for a PostgreSQL lock keeps the event loop.
  A deployment runs the old and the new process side by side for a while.
* `POST /payin/declare-async`, `/kyc`, `/auth` and the dashboard use the asynchronous session
  and yield at every statement: their calls interleave within one process.
* Every money operation is one transaction: it takes row locks (`SELECT ... FOR UPDATE`, `UPDATE`)
  or waits for a key of the unique index on (provider, proof_ref), reads committed data
  (READ COMMITTED re-reads a row after waiting for it), writes, commits. A killed process or a cut
  connection rolls the transaction back.
* Administrators click twice, send late decisions, work two at a time; clients repeat a
  declaration whose answer was lost.
* The route of a transfer notifies its recipient inside its coroutine, with a second connection of
  a pool of 15 that the notifications of administrators, in threads, also use: a route may wait for a
  connection on the loop that would have to return it.
* JEKO's payments are asked for by POST and repeated after a time-out, reported by webhooks that
  come early, late, twice or never, and looked up by a task and a command line. Each of these
  calls reads a row, waits for JEKO and writes, and others come in between.
* Transfers touch two wallets, confirmations a row and then a wallet, withdrawals a wallet only:
  the order of the locks is what excludes a deadlock.

The hazards are listed line by line in `PROJECT.json`, with the properties that watch them.

### What makes each component correct

* Ledger: a balance is what its rows add up to; the platform's money is conserved; a row is
  decided once and what the client asked never changes; a proof serves once; the audit log
  says what happened.
* Sessions: concurrent transactions have the effect of the functions executed one at a time; no
  set of calls waits for one another; every accepted call ends.
* Dossiers: one active dossier per client; decisions are final and carry their reason.
* Accounts: one account per number, an account with its wallet, a status only an administrator
  sets; the bootstrap usable once.
* Migrations: a prefix of the files is recorded, whatever crashes; no request meets an incomplete
  schema; every started process comes to serve; no file is executed over a later one.
* Push: no connection is lost; a device belongs to its last login; what FCM does never fails a
  committed transfer; every request ends although the loop may wait for the pool.
* JEKO payments: money goes out only after it came in; an answered event has its effect; what a
  payment answers is backed by moves of money; a collected transfer gets its answer.

## 2. The modules

### `Ledger`: the SQL functions, one step each

`balance`, `ledger` and `audit` are the three tables. An action is one function or route with
everything it writes; its guard is the conjunction of the code's tests; a call the code refuses
changes nothing and is not a step.

* Money is counted in hundredths, the unit of `NUMERIC(15,2)`, and percents are integers.
  `FeeOf` is `ROUND(amount * percent / 100, 2)`, half up on positive numbers. Amounts with more
  than two decimals, which `schemas.py:70` lets through, are a hazard of their own (see the plan).
* A row keeps the columns the code decides on: user, type, provider, amount, fee, status, proof and
  the role the transfer writes into `metadata`. References, telephone numbers and times are
  left out: the row's position is its identity.
* `REVERSED` (models.py:33) is written nowhere and is not a status of the model.
* `ApprovePayin` is the whole route `/process-payin/{id}`: it passes the row's own amount as the
  confirmed amount, so the amount test of `process_payin_credit` always succeeds and is left out.
* `ManualProof` is the route's default proof `MANUEL-ADMIN-<phone of the admin>`; it differs
  from one administrator to another, and the model has one administrator's.
* `ApprovePayout` keeps the function's test of the status alone: `admin_process_payout` never looks
  at the type. `DecidedTypes` is the set of types whose ids are sent to it; {"PAY_OUT"} is what
  the dashboard offers, and a run and a finding take the other types in.
* `DeclaredProofs` are the references clients type in.

`LedgerEvidence` adds a history variable: the payment each deposit was confirmed with.

### `LedgerSessions`: the same operations statement by statement

It extends `Ledger` with calls (a worker and a slot), the statement each is at, and the locks its
transaction holds. `Wanted` says what the next statement locks; `Checked` waits for the locks,
then tests committed data and goes on or refuses; `Commit` publishes the writes and
releases the locks; `Abort` is a crash or an error at any point. `HasLoop` is the event loop: a
call that does not yield keeps it from the others of its worker. A transfer reads the fee percent
before it locks anything, and keeps it: any percent an administrator may have set by then.
`SSpec` is shown to implement `Spec` of `Ledger` (property `ImplementsLedger`): the refinement
mapping is the identity on the three tables.

Two simplifications err on the side of more waiting: `LockRejected` waits for the row even when its
committed version already fails the UPDATE's condition, and a declaration waits for a key
also when it is going to be refused.

### `Kyc`: reading and writing steps

The routes are coroutines on the asynchronous session without locks, so each call reads, yields
and writes: `Submit`/`Insert` and `Decide`/`Write` are the two halves. UPDATE or INSERT and its
COMMIT are one step (a concurrent writer of the same row or index key waits for them).
`Allowed` is the partial unique index; `Lose` a call that ends before its COMMIT. `noted` says whether
`review_note` holds a reason. The assignment `review_note = None` of an approval leaves the
column out of the UPDATE, because the row that was read had no note.

### `Accounts`: reading and writing steps, and a key that is held

Like the dossiers, the routes read in one step and write in another. A sign-up has three: the
SELECT (`Register`, `Bootstrap`), the INSERT of `flush()` (`Insert`), which waits for any transaction that
has inserted the phone number and fails on a committed one, and `Commit`, which publishes user and
wallet. A user is its position in the table. Profile and status updates keep what they read,
because the session's UPDATE leaves out a column whose new value is the one that was read (`Renamed`, `Ruled`).
Rows keep the columns the routes decide on; the PIN's hash and the times are left out. Tokens are stateless.

### `Migrations`: server processes that start

A file is its place in the order of the names (two are numbered 011, so there are 13). What its
statements do is abstracted to the objects it defines anew: `definition[o]` is the file whose
definition of `o` is in force. `MCMigrations` lists the objects that several files define: three SQL
functions (`CREATE OR REPLACE`) and the uniqueness of proofs, a constraint that 001 and 004 make and
010 replaces by an index. The two versions of `process_internal_transfer` take different
parameters and stand side by side, so they are not one object. All files but the first can be
executed again (`IF NOT EXISTS`, `EXCEPTION WHEN duplicate_object`); 001 fails when `users` exists (`Runs`).

`ReadRecord` and `Adopt` are the two halves of the first transaction, `Execute` a file's own
transaction with its record, `Collide` its failure when another process made the base schema
first, `Serve` the `yield` of the lifespan, `Fail` a kill or a database error at any point. A process
that stops may start again. `Init` takes a new database, one that an earlier image left after any
of its files, and one whose tables were made by hand. Processes of an older image that go on serving
while a new one starts are left out: they execute no file.

### `Push`: the pool and the event loop

A request is a registration, a route that reads, a transfer, or an operation of an administrator
that notifies the client. `loop` is the request that keeps the event loop: a coroutine with a
synchronous session enters (`Enter`) and leaves it only at its end. `free` are the connections of
the pool (`pool_size` 5 + `max_overflow` 10 in `database.py:53-60`): a session takes one with
its first statement (`Connect`), returns it at COMMIT (`Operate`) or when it is closed (`Close`), which
FastAPI does in a thread the loop has to start. So routes that have ended still hold their
connections while another keeps the loop, and when these are all there are only the pool's time-out
(`Starve`, 30 seconds by default) resolves the wait. `notify_user` reads the tokens of the user when
it gets its connection, sends to one after another (`Send`; a dead token is FCM's final verdict, an unreachable
FCM says nothing), and deletes the rows found invalid by their ids (`Delete`). Any of its statements may
fail, and the error is swallowed (`NotifyFails`). Registration reads a row and writes it later by its id
(`ReadDevice`, `WriteDevice`).

A transfer whose notification finds no connection answers 500 after its COMMIT, which
`OnlyThePoolFailsTransfers` says is the only way. Left out: the limit of 40 threads, the
asynchronous pool of 30 connections, the column `platform`.

### `Jeko` and `Settlement`: payments through JEKO

`Jeko` has a row per payment (its two legs, its status, the ids of its operations), the sequence
of operations JEKO has accepted, the deduplication keys in Redis, and the calls in progress: the
route that asks, the webhooks being handled (`AtOnce` at a time), the reconciliation task and the
command line. A call's record holds the row as it was read (`seen`) and as the session has changed
it (`obj`); its UPDATE sets the columns in which the two differ (`Written`), whatever the row
has become in between. Steps end where the code awaits JEKO or the database.

* `RequestTransfer`, `RequestCashIn`, `RequestCashOut` are the routes up to their POST; `Answered`, `Refused`,
  `Unanswered` are what `JekoClient._request` gets: an answer, a `JekoAPIError`, or none, after which
  JEKO may have accepted the operation, the POST is repeated, and `GivenUp` is the route's
  `JekoNetworkError`.
* `Deliver` is the route of the webhook with its key, `ReadRow` the processing (404 without a row), `Handled` the two
  handlers of a leg, shared with reconciliation (`Wake`, `Manual`, `Look`, `Check`).
* `Commit` writes row and credit in one transaction, and starts the task of a transfer;
  `Cut` is an exception or a killed process. A process that dies is the `Cut` of each of its calls.
* `Complete` is JEKO's side, `Miss` a delivery to a sleeping server.

The tables (`app/models/models.py`) and the helpers `create_pending_transfer`, `create_pending_transaction` are not
in the repository. What they do is taken from their callers: the row of a transfer is flushed and
committed only after JEKO has answered (`transfers.py:76,82`), the rows of agents are committed
first (`agent.py:185`). The routes of deposits and withdrawals are absent too; `Place` leaves what the
webhooks and the task expect of them. A credit goes to the user of the row, which for cash operations is taken
to be the agent. References without a suffix are handled as payouts (`webhook_service.py:43-49`), and
the id a cash operation stores in `jeko_reference` is read by nothing, as in the code. Amounts are left out, and so is
the time between two looks of the task. JEKO may refuse or accept a repeated POST.

`Settlement` is what a payment promises: collections, payouts, credits and an answer, where a
payout or credit of a transfer needs a collection, an answer needs the moves it speaks of, and, as long as the
payment is not in doubt, each happens once. A payment is in doubt when JEKO acted on a request
it did not answer, or when a reconciliation has handled it beside the webhooks. `KeepsPromise` says
`Jeko` implements it; the mapping takes the successful operations of a payment and the status its row shows.

### Properties and where they live

The properties stand at the end of each module with the behaviour they are about. The `MC`
modules only add the symmetry sets, `MCMigrations` also the repository's files.

## 3. The runs

| Run | Question | Bounds |
|---|---|---|
| `ledger` | Do all sequences of operations keep `Reconciled`, `Conserved`, `ProofsUnique`, `AuditMatchesDecisions` and `RowsKeepTheirHistory`? | 2 users, 2 operators, 2 proofs, amount 10, fees 4 % and 8 %, 4 rows |
| `ledger_any_id` (violation) | Is a wallet credited only for a confirmed deposit, a refund or a received transfer, when any id is sent to `/process-payout`? | as `ledger` |
| `ledger_evidence` (violation) | Is one payment good for one deposit? | 1 operator, 3 proofs, 2 rows |
| `sessions` | Do concurrent calls of two processes implement `Ledger`, without deadlock? | 2 workers with a call each, 3 rows |
| `sessions_live` | Does every call end? | 2 workers with a call each, 2 rows |
| `sessions_loop` (violation) | Does every call end on the one worker that is deployed, with `declare-async` in use? | 1 worker, 2 slots, 2 rows |
| `kyc` | Can a client ever have two active dossiers, or a rejected one without its reason? | 2 clients, 2 submissions, 2 decisions in progress, 4 dossiers |
| `accounts` | Does a number get one account with one wallet, do waiting sign-ups end, and can a late profile update change a status? | 2 numbers, 2 names, 3 sign-ups, a profile and a status update in progress |
| `migrations` | Whatever fails, is the record a prefix of the files, is a served schema complete and does every process come to serve? | 2 processes, the 13 files, 2 failures |
| `push` | Do registrations, notifications and routes that share the pool and the loop lose a connection or a device, fail a transfer, or wait for ever? | 3 requests, 2 connections, 1 token, 2 users, 2 rows |
| `jeko` | Does a payment of any type keep the promise of `Settlement`, whatever is lost, repeated, early, late or cut off, and does a collected transfer get its answer? | 1 payment, 2 operations, 2 attempts, 2 looks, 2 deliveries of which 2 at once, 1 manual reconciliation, 2 troubles |
| `jeko_reconcile` (violation) | Is a transfer credited at most once? | as `jeko`, 3 operations, no trouble |

Why the bounds are enough. Four rows let a deposit finance a transfer (two rows) or a
withdrawal and still be followed by another deposit; every interaction in `Ledger` is between a
row and a wallet, two rows with one proof, or a row and its audit entries. Amount 10 with
4 % and 8 % makes the rounded fee 0 and 1, so a transfer is both exactly affordable and
refused for lack of the fee. In `sessions` three rows are needed for a transfer to commit
(a deposit, then its two rows); two calls suffice for every pair of operations to
interleave, and no invariant of the code involves three. In `sessions_live` the ledger has two rows:
transfers reach the lock of both wallets but are refused for the bound; commits of all others
happen. In `kyc` four dossiers hold a rejected and a resubmitted dossier for each client.
In `accounts` three sign-ups let two wait for one, a commit or a loss of the first decide which goes
on, and the table fill; two updates in progress are every pair of a profile and a status write. The run
has one bootstrap and one status update at a time: `OneAdministrator` and `AnsweredStatusIsStored`, which fail
with two (TLC finds both with `BootstrapCalls = {b1, b2}` or `StatusCalls = {a1, a2}`), are not among its properties
and are proved under that hypothesis.

In `push` two connections and three requests are the least with which a route waits for a
connection held by a route that has ended, while a third sends notifications; one token that two
users register is every conflict between a registration and another, or a deletion. In `jeko`
payments share nothing but the places of webhooks, so one is enough; two operations are its two
legs, or a repeated POST that JEKO executes twice. Two troubles are, for instance, a missed event and a call cut off.
`jeko_reconcile` needs a third operation (a pay-in and two payouts) and no trouble at all.

In `migrations` two failures let each process stop once, or one of them stop twice, at any two points;
a collision needs two processes and is not counted as a failure.

`CHECK_DEADLOCK FALSE` everywhere: the bounds on rows, requests and deliveries make the models
stop, and the program may stay idle for ever. Deadlock among calls is the invariant `NoDeadlock`.

Fairness. `SSpec` assumes strong fairness of each call's `Step`: PostgreSQL queues the waiters of a
lock, and the event loop runs ready coroutines in turn, so a statement that can be executed again
and again is executed. It is a strong assumption because a waiting statement is enabled only
between two holders of its lock. Neither `Begin` nor `Abort` is fair: nobody need call, and
nothing need fail. `Spec` of `Accounts` assumes the same of each sign-up, which waits for a key. `Spec` of `Migrations` assumes weak fairness of each process's `Step`: the platform
starts a stopped service again, and a started process runs. `Fail` is not fair and is bounded: with
failures for ever nothing would serve. `Spec` of `Push` assumes weak fairness of each request's
`Step`: uvicorn runs coroutines and threads, httpx gives up on FCM after 10 seconds and the pool after
30. Nobody need call. `Spec` of `Jeko` assumes weak fairness of the steps of calls, of the task's timer, of JEKO's
deliveries until it has a 200 or has given up, and of the end of payouts at JEKO. Payers need not
confirm, nothing need go wrong, and nobody need reconcile by hand.

Each property of a passing run has a mutant in `PROJECT.json`: a plausible bug in one definition
(a lock not taken, a test of the wrong status, a fee forgotten) under which TLC finds it violated.

## 4. The proofs

`LedgerProofs`, `LedgerSessionsProofs`, `KycProofs`, `AccountsProofs`, `MigrationsProofs`, `PushProofs`, `JekoProofs` and
`JekoPromiseProofs` prove, for every value of the constants that satisfies the named assumptions:

| Theorem | Says | Argument |
|---|---|---|
| `LedgerProofs!TypeCorrect` | `Spec => []TypeOK` | step by step; the debits use `HasFunds`, the fee is a natural number by division |
| `LedgerProofs!BalancesReconciled` | `DecidedTypes = {"PAY_OUT"} => (Spec => []Reconciled)` | `Accounted` (below), with the rows each action may find |
| `LedgerProofs!OneProofOneRow` | `Spec => []ProofsUnique` | inductive with `TypeOK`; the confirmation needs that a row keeps its own proof when it has one |
| `LedgerProofs!HistoryIsKept` | `DecidedTypes = {"PAY_OUT"} => (Spec => RowsKeepTheirHistory)` | from `PendingUnproved`: a PENDING withdrawal has no proof yet, so approving it replaces none |
| `LedgerProofs!AuditTellsDecisions` | `Spec => []AuditMatchesDecisions` | `AuditSound`: entries are about rows that exist, so a new row has none; a decision finds its row PENDING, hence without entry |
| `LedgerProofs!MoneyIsConserved` | `DecidedTypes = {"PAY_OUT"} => (Spec => []Conserved)` | `Balanced`: a sum over rows (below); `Users` is finite |
| `LedgerSessionsProofs!SessionTypes` | `SSpec => []STypeOK` | from `SInv` (below) |
| `LedgerSessionsProofs!SessionsImplementLedger` | `SSpec => ImplementsLedger` | `SInv`: what a transaction relies on when it commits is still so |
| `LedgerSessionsProofs!SessionsReconciled` | `DecidedTypes = {"PAY_OUT"} => (SSpec => [](Reconciled /\ ProofsUnique /\ AuditMatchesDecisions))` | from the refinement and the theorems of `LedgerProofs` |
| `LedgerSessionsProofs!NoLocksInACircle` | no set of calls waits for one another's locks, for all routes | the order of the locks (below) |
| `LedgerSessionsProofs!NoCallsInACircle` | `"declare-async" \notin Routes => (SSpec => []NoDeadlock)` | as above, with one busy call per worker, so that event loops add no waiting |
| `KycProofs!TypeCorrect` | `Spec => []TypeOK` | calls in progress refer to dossiers that exist because dossiers are never removed |
| `KycProofs!AtMostOneActive` | `Spec => []OneActiveDossier` | every write that makes a dossier active passes the index |
| `KycProofs!RejectionsHaveReasons` | `Spec => []RejectionHasReason` | whatever was read before, a writing step leaves a rejected dossier only with its note |
| `KycProofs!FinalForOneAdministrator` | `DecideCalls = {a} => (Spec => DecisionIsFinal)` | `ReadIsCurrent`: with one decision in progress, what it read is still so when it writes |
| `KycProofs!ReasonForOneAdministrator` | `DecideCalls = {a} => (Spec => []ReasonIfRejected)` | as above, with the note of the dossier |
| `AccountsProofs!TypeCorrect` | `Spec => []TypeOK` | users are only added or rewritten in place |
| `AccountsProofs!AccountsHaveWallets` | `Spec => []EveryAccountHasWallet` | one COMMIT adds both |
| `AccountsProofs!PhonesAreUnique` | `Spec => []OneAccountPerPhone` | `KeyHeld`: a sign-up that has inserted its user shares its number with nobody, committed or not |
| `AccountsProofs!StatusFromAdministrators` | `Spec => StatusIsTheAdministrators` | each writing step changes its own columns |
| `AccountsProofs!AnsweredForOneAdministrator` | `StatusCalls = {a} => (Spec => AnsweredStatusIsStored)` | `ReadIsCurrent`, as in `KycProofs` |
| `AccountsProofs!OneBootstrapOneAdministrator` | `BootstrapCalls = {b} => (Spec => []OneAdministrator)` | `BootstrapIsAlone`: while the bootstrap is in progress there is no administrator, and registrations make none |
| `MigrationsProofs!TypeCorrect` | `Spec => []TypeOK` | with it, what a process takes as applied is recorded: the record never shrinks |
| `MigrationsProofs!RecordIsAPrefix` | `Spec => []RecordedInOrder` | the file executed is the least one not applied, and all smaller ones, being applied, are recorded |
| `MigrationsProofs!ServedIsComplete` | `Spec => []ServedSchemaIsComplete` | `ServingAppliedAll`: serving is entered only with every file applied |
| `MigrationsProofs!NoStepBackForOneProcess` | `Processes = {p} => (Spec => []NoStepBack)` | `RecordIsCurrent`: alone, a process's copy of the record is the record, so the next file is later than every recorded one |
| `PushProofs!TypeCorrect` | `Spec => []TypeOK` | with `Shape`: which fields a request has at each stage |
| `PushProofs!ConnectionsBalanced` | `Spec => []PoolBalanced` | each step takes a free connection, keeps it, or returns its own |
| `PushProofs!TransfersSurviveFcm` | `Spec => []OnlyThePoolFailsTransfers` | the error of a notification is swallowed; what remains is `Starve` |
| `PushProofs!DeviceFollowsLogin` | `Spec => []LastLoginOwns` | `RowsSound` and `LatestSound` (below) |
| `JekoProofs!TypeCorrect` | `Spec => []TypeOK` | `CallOK` (below) |
| `JekoProofs!PaidFromCollected` | `Spec => []MoneyComesFirst` | `CallOK` and `MoneySound` (below) |
| `JekoPromiseProofs!AckedMeansAnswered` | `Spec => []AckedIsAnswered` | `EventSound`, a part of `PInv` (below) |
| `JekoPromiseProofs!KeepsThePromise` | `Spec => KeepsPromise` | `PInv`, then one lemma per step of `Jeko` |
| `JekoPromiseProofs!NothingMovesTwice` | while a payment is not in doubt it is credited at most once and not before its answer, paid out at most once, never both | by the steps of `Settlement` alone, then through `KeepsThePromise` |

`Reconciled` speaks of a sum over the whole ledger, defined by a recursive function. Its
proof states that *some* function of running totals exists whose values are the sums of the prefixes
and whose last value is the balance (`Accounted`), which is inductive: an append extends the
function, an update of row r adds the difference of its effects from r on. That the running
totals are the ones `Statement` defines is proved once by a least counterexample
(`LeastNatural`), without an induction theorem.

In `PushProofs` the ownership of a device is not inductive by itself: a row that was read may be
written or deleted much later. `RowsSound` says that an id stands for one token for ever, among the rows
of the table and all those that requests hold, and that only dead tokens are marked invalid;
`LatestSound` that the last registration of a token, as long as it is alone, has read the row of
the table as it still is.

In `JekoProofs` the invariant speaks of one call's record at a time. `CallOK(c, v)` says where c may be,
with an operation and a row of its own payment (`Placed`), and that a call which credits a transfer or posts
its payout has seen the money come in (`Covered`). A step changes one record, or two when the
route of a transfer starts the task, and `Grows` lists what no step takes back: operations and
their success, kinds, rows. What the other records rely on only grows (`CallStays`), so each step has to
show `CallOK` of the record it writes. `Uncommitted` (a transfer has no row before its route commits) keeps
the task off until then. The same proof holds for any number of attempts, looks, deliveries and troubles.

`Conserved` compares sums over users and over rows. `Cost` of a row is its fee and what
it paid out, less what it brought in; `Balanced` says that the wallets and the costs add up to nothing, and it
is inductive: a step changes one or two wallets and appends or replaces one row. The sums over sets are folds in an order nobody
knows, so the proof works with functions that are additive whichever element is taken out (`Additive`):
one exists for every finite set (`AdditiveExists`, again by a least counterexample) and the fold has its
value (`SumIsAdditive`).

In `LedgerSessionsProofs` the invariant `SInv` describes each transaction between two statements: it holds exactly the
locks of the statements it has executed (`Underway`), and before COMMIT everything its effect relies on is protected by
one of them (`Ready`): funds by the lock of the wallet, the status of a row by the lock of the row, the absence
of a proof by its key. A step of another call cannot change what is locked, so the commit finds
it as it was read and is a step of `Ledger`; every other step, rollbacks and lost calls included, is a
stutter. For the waiting, every transaction takes its locks in one order: at most one row first, then
wallets by the number of their user, then one key. Whoever is waited for and waits itself
therefore wants a wallet later than any it holds, and along a circle the wallets wanted would grow for
ever in the finite set of users.

In `JekoPromiseProofs` the invariant `PInv` adds to that of `JekoProofs` what a session has made of the row it
read and how its call may end. A call that ends keeps the row's status (`Keeping`), fails it without a
credit (`Failing`), succeeds with the move at JEKO that backs it (`Succeeding`) or gives the money back
(`Returning`). And as long as a payment is not in doubt, one thing at most may still answer it or move its
money: an operation whose event nobody has handled (`Awaited`), the one webhook that handles it
(`Alone`, `HooksApart`) or the route that asked for it. Every step of `Jeko` then maps to
Ask, Doubt, Collect, Pay, Succeed, Fail or Return of `Settlement`, or to a stutter. `NothingMovesTwice` needs only the
steps of `Settlement`; its hypothesis is real, for `jeko_reconcile` shows a payment that is credited twice once a
reconciliation has acted beside a webhook.

`DecidedTypes = {"PAY_OUT"}` is a real hypothesis: with other ids the theorems that have it are false, and the
run `ledger_any_id` shows why. So is `"declare-async" \notin Routes`: the run `sessions_loop` shows the circle.
Without `DecideCalls = {a}` and `Processes = {p}` TLC finds counterexamples with two administrators or two
processes.

Every invariant, action property and refinement of a passing run is proved in this way. Only model-checked is
liveness (`EveryCallFinishes`, `EverySignUpEnds`, `EveryProcessServes`, `EveryRequestEnds`, `CollectedIsSettled`), which
with ENABLED is beyond the prover, as is induction over data through the library's theorems and anything about
RECURSIVE operators (the modules have none).

## 5. Findings

1. `ledger_any_id`: REJECT on the id of a PENDING deposit through `/process-payout` adds its amount
   to the wallet: `admin_process_payout` (`sql/migration_004:310-316`) never tests the type.
2. `ledger_evidence`: `process_payin_credit` tests the proof the administrator sends and stores the one the
   client declared (`sql/migration_009:36-43, 68`), so one payment can confirm two deposits.
3. `sessions_loop`: `declare-async` yields between INSERT and COMMIT holding the key of its proof; the same
   proof sent to `/payin/declare` then waits for that key on the event loop that the first
   call needs to commit. The `command_timeout` of asyncpg (`database.py:47`) runs on that same loop,
   psycopg2 has none, and PostgreSQL sees no cycle.
4. `jeko_reconcile`: `reconcile_transaction_by_reference` hands the row as it was read before the GET
   (`reconciliation.py:68`) to the handler, whose test for a final status therefore sees the old copy. A webhook
   that handles the same pay-in meanwhile initiates the payout too; when JEKO refuses both, both credit
   the wallet. No failure is needed. `auto_reconcile.py:15-17` says there is no such risk.

Observed while modelling, without a run of their own:

* After one confirmation without a proof of a deposit without a proof, the default proof is taken for that
  operator, and the next such confirmation is refused (`api_admin.py:603`).
* Of two decisions on a dossier that read PENDING the second replaces the first (`api_admin.py:899`); the proofs
  show that it takes two. Of two processes that start together the slower executes files
  the other has recorded (`db_migrate.py:62`).
* In `Jeko`: an event that overtakes the commit of its payment's row is answered 404 after its key was set, so every
  repetition is a 200 without effect; the task finds the payment. After `JekoNetworkError` in the
  route of a transfer JEKO may have accepted a payment that has no row, and nothing settles it. A failed cash
  operation credits the agent although nothing was debited.
* In `Push`: the recipient of a committed transfer is looked up in a new transaction (`api_wallet.py:159`); when the
  pool is empty the client of a transfer that succeeded gets a 500.

## 6. Plan

Done: `Ledger`, `LedgerEvidence`, `LedgerSessions`, `Kyc`, `Accounts`, `Migrations`, `Push`, `Jeko` with
`Settlement`, and the eight modules of proofs, with both refinements.

Next: the rounding of amounts with more than two decimals (`schemas.py:70`), the operators of `Ledger` on
thousandths; then the attempts of the legacy OTP, counted by reading and incrementing (`otp_service.py:69`).

## 7. Not modelled, and why

Logging, HTML and JSON rendering, PIN hashing and JWT encoding are computations without shared
state. Histories and lists only read. The one-time schema repairs (`sql/migration_003`, `005`, `007`,
`008`, `011`, `012`) change the schema before the first request: the modules describe the schema
after all of them. Payment links are shown to clients and decide nothing. SMS providers and scripts
are I/O. The legacy OTP is a counter and a code in Redis without other state. Of the legacy payments are left out: Kkiapay,
whose settling function is absent from the repository; fees and signatures, computations without state;
the Redis locks around the wallet of an agent and the limits of a user, whose helpers are absent.

## 8. Running

    tlc -workers 2 -config MCLedger.cfg MCLedger
    tlc -workers 2 -config MCLedgerSessions.cfg MCLedgerSessions
    tlc -workers 2 -config MCJeko.cfg MCJeko
    tlapm LedgerProofs.tla

`jeko` and `sessions` take about two minutes, `push` and `sessions_live` one; the others take seconds. `JekoPromiseProofs`
checks in about two minutes, `JekoProofs` and `LedgerProofs` in more than one each, the other five in two minutes together.
