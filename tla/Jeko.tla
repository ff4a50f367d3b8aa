-------------------------------- MODULE Jeko --------------------------------
(***************************************************************************)
(* Payments through JEKO: the routes that ask for them, the client that    *)
(* posts them, the webhooks that report them, the task and the command     *)
(* line that reconcile them.  Every call is a coroutine: it reads the row, *)
(* waits for JEKO, writes and commits, and other calls come in between.    *)
(***************************************************************************)
EXTENDS Naturals, Sequences

CONSTANTS
    Refs,           \* internal references
    NoRow,          \* no row committed or read
    Attempts,       \* POSTs of one request before JekoNetworkError
    Wakes,          \* times the reconciliation task looks
    Deliveries,     \* times JEKO delivers an event
    \* Bounds of the model.
    AtOnce,         \* deliveries the server handles at once
    MaxOps,         \* operations JEKO has accepted
    MaxManual,      \* manual reconciliations of a payment
    MaxTrouble      \* unanswered requests, missed deliveries and calls cut off, together

ASSUME BoundsAssumption ==
    {Attempts, Wakes, Deliveries, AtOnce, MaxOps, MaxManual, MaxTrouble} \subseteq Nat

VARIABLES
    asked,      \* the type of each payment, NONE before it is asked for
    row,        \* the committed row of each payment
    credited,   \* credits of the wallet committed for each payment
    jeko,       \* the operations JEKO has accepted, in order; the place is the id
    dedup,      \* events whose key is set in Redis
    tried,      \* deliveries of each event so far
    acked,      \* events answered with 200
    call,       \* where each call is and what its session holds
    doubt,      \* payments JEKO has acted on without an answer, or a reconciliation has touched
    trouble     \* unanswered requests, missed deliveries and failures so far

vars == <<asked, row, credited, jeko, dedup, tried, acked, call, doubt, trouble>>

-----------------------------------------------------------------------------
(* The data *)

Troubles == {"lost", "missed", "failures"}
Trouble(t) ==
    /\ trouble["lost"] + trouble["missed"] + trouble["failures"] < MaxTrouble
    /\ trouble' = [trouble EXCEPT ![t] = @ + 1]

Kinds == {"TRANSFER", "WITHDRAWAL", "DEPOSIT", "CASH_IN", "CASH_OUT"}
LegStatus == {"NONE", "PENDING", "SUCCESS", "FAILED"}
TerminalLeg == {"SUCCESS", "FAILED"}
TerminalStatuses == {"SUCCESS", "FAILED", "FAILED_PAYOUT"}
Ops == 1..MaxOps
Hooks == 1..AtOnce

Row == [payin: LegStatus, payout: LegStatus, status: {"PENDING"} \cup TerminalStatuses,
        payinId: {0} \cup Ops, payoutId: {0} \cup Ops]

ASSUME NoRowAssumption == NoRow \notin Row

Operation == [ref: Refs, type: {"payment", "transfer"}, status: {"pending", "success", "error"}]

\* A call's identity is its role and the payment or the delivery it serves.
Callers == ({"route", "task", "cli"} \X Refs) \cup ({"hook"} \X Hooks)

Call == [at: {"off", "asleep", "read", "get", "post", "commit"},
         op: {0} \cup Ops,                         \* the operation it handles
         seen: Row \cup {NoRow}, obj: Row \cup {NoRow},  \* the row as read and as changed
         credit: {0, 1}, tries: 0..Attempts, wakes: Nat]

\* No session: only how often its task has looked is left.
Rest(at, wakes) == [at |-> at, op |-> 0, seen |-> NoRow, obj |-> NoRow,
                    credit |-> 0, tries |-> 0, wakes |-> wakes]
Off == Rest("off", 0)

\* Mutant: a call that is over keeps its session.
EndedWithSession(c) == [call[c] EXCEPT !.at = "off"]

NewRow(k, o) ==
    [payin    |-> IF k \in {"TRANSFER", "DEPOSIT"} THEN "PENDING" ELSE "NONE",
     payout   |-> IF k = "WITHDRAWAL" THEN "PENDING" ELSE "NONE",
     status   |-> "PENDING",
     payinId  |-> IF k = "DEPOSIT" THEN o ELSE 0,
     payoutId |-> IF k = "WITHDRAWAL" THEN o ELSE 0]

Init ==
    /\ asked = [r \in Refs |-> "NONE"]
    /\ row = [r \in Refs |-> NoRow]
    /\ credited = [r \in Refs |-> 0]
    /\ jeko = <<>>
    /\ dedup = {}
    /\ tried = [o \in Ops |-> 0]
    /\ acked = {}
    /\ call = [c \in Callers |-> Off]
    /\ doubt = {}
    /\ trouble = [t \in Troubles |-> 0]

RefOf(c) == IF c[1] = "hook" THEN jeko[call[c].op].ref ELSE c[2]
Moved(r, type) == {o \in DOMAIN jeko : /\ jeko[o].ref = r
                                       /\ jeko[o].type = type
                                       /\ jeko[o].status = "success"}

\* A call that is over; the task sleeps until it has looked Wakes times.
Ended(c) ==
    Rest(IF c[1] = "task" /\ call[c].wakes < Wakes THEN "asleep" ELSE "off", call[c].wakes)
End(c) == call' = [call EXCEPT ![c] = Ended(c)]

-----------------------------------------------------------------------------
(* Payments are asked for *)

\* POST /transfers: the row is flushed, and committed only when JEKO has answered.
RequestTransfer(r) ==
    /\ asked[r] = "NONE"
    /\ asked' = [asked EXCEPT ![r] = "TRANSFER"]
    /\ call' = [call EXCEPT ![<<"route", r>>].at = "post",
                            ![<<"route", r>>].obj = NewRow("TRANSFER", 0)]
    /\ UNCHANGED <<row, credited, jeko, dedup, tried, acked, doubt, trouble>>

\* The routes of agents commit their row first.
Commits(r, k) ==
    /\ asked[r] = "NONE"
    /\ asked' = [asked EXCEPT ![r] = k]
    /\ row' = [row EXCEPT ![r] = NewRow(k, 0)]
    /\ call' = [call EXCEPT ![<<"route", r>>].at = "post",
                            ![<<"route", r>>].seen = NewRow(k, 0),
                            ![<<"route", r>>].obj = NewRow(k, 0)]
    /\ UNCHANGED <<credited, jeko, dedup, tried, acked, doubt, trouble>>

RequestCashIn(r) == Commits(r, "CASH_IN")      \* POST /agent/cash-in
RequestCashOut(r) == Commits(r, "CASH_OUT")    \* POST /agent/cash-out

PaymentRequest(r) == [ref |-> r, type |-> "payment", status |-> "pending"]
Withdrawal(r) == [ref |-> r, type |-> "transfer", status |-> "pending"]

Room == Len(jeko) < MaxOps
Accept(op) == Room /\ jeko' = Append(jeko, op)

\* The routes of withdrawals and deposits are not in the repository: a withdrawal leaves a
\* row with its payout and a task, a deposit a row with its payment.
Place(r, k) ==
    /\ asked[r] = "NONE"
    /\ asked' = [asked EXCEPT ![r] = k]
    /\ Accept(IF k = "WITHDRAWAL" THEN Withdrawal(r) ELSE PaymentRequest(r))
    /\ row' = [row EXCEPT ![r] = NewRow(k, Len(jeko) + 1)]
    /\ call' = IF k = "WITHDRAWAL" THEN [call EXCEPT ![<<"task", r>>].at = "asleep"] ELSE call
    /\ UNCHANGED <<credited, dedup, tried, acked, doubt, trouble>>

-----------------------------------------------------------------------------
(* JEKO's client: a POST is repeated after a network error *)

Posts(c) ==
    IF c[1] = "route" /\ asked[c[2]] \in {"TRANSFER", "CASH_OUT"}
    THEN PaymentRequest(RefOf(c)) ELSE Withdrawal(RefOf(c))

Finishing(c) == [call[c] EXCEPT !.at = "commit", !.tries = 0]

\* What a call does with the id of the accepted operation.
TransferAccepted(rec, o) == [rec EXCEPT !.obj.payinId = o]
PayoutAccepted(rec, o) == [rec EXCEPT !.obj.payout = "PENDING", !.obj.payoutId = o]
Accepted(c, o) ==
    CASE c[1] # "route" -> PayoutAccepted(Finishing(c), o)
      [] c[1] = "route" /\ asked[c[2]] = "TRANSFER" -> TransferAccepted(Finishing(c), o)
      [] OTHER -> Finishing(c)    \* jeko_reference, which nothing reads

\* What it does with JekoAPIError: a payout that could not be initiated is credited.
TransferDeclined(rec) == [rec EXCEPT !.obj.payin = "FAILED", !.obj.status = "FAILED"]
CashDeclined(rec) == [rec EXCEPT !.obj.status = "FAILED"]
PayoutDeclined(rec) ==
    [rec EXCEPT !.obj.payout = "FAILED", !.obj.status = "FAILED_PAYOUT", !.credit = 1]
Declined(c) ==
    CASE c[1] # "route" -> PayoutDeclined(Finishing(c))
      [] c[1] = "route" /\ asked[c[2]] = "TRANSFER" -> TransferDeclined(Finishing(c))
      [] OTHER -> CashDeclined(Finishing(c))

\* What it does with JekoNetworkError: the routes of payments answer 502 and write nothing.
GivenUp(c) ==
    IF c[1] = "route" /\ asked[c[2]] \in {"TRANSFER", "CASH_OUT"} THEN Off ELSE Declined(c)

Answered(c) ==
    /\ call[c].at = "post"
    /\ Accept(Posts(c))
    /\ call' = [call EXCEPT ![c] = Accepted(c, Len(jeko) + 1)]
    /\ UNCHANGED <<asked, row, credited, dedup, tried, acked, doubt, trouble>>

Refused(c) ==
    /\ call[c].at = "post"
    /\ call' = [call EXCEPT ![c] = Declined(c)]
    /\ UNCHANGED <<asked, row, credited, jeko, dedup, tried, acked, doubt, trouble>>

\* No answer in time, or a 5xx: JEKO may have accepted the operation.
Unanswered(c, executed) ==
    /\ call[c].at = "post"
    /\ Trouble("lost")
    /\ IF executed
       THEN Accept(Posts(c)) /\ doubt' = doubt \cup {RefOf(c)}
       ELSE UNCHANGED <<jeko, doubt>>
    /\ call' = [call EXCEPT ![c] = IF call[c].tries + 1 < Attempts
                                   THEN [call[c] EXCEPT !.tries = @ + 1] ELSE GivenUp(c)]
    /\ UNCHANGED <<asked, row, credited, dedup, tried, acked>>

-----------------------------------------------------------------------------
(* The two handlers of a leg's final status, shared by webhooks and reconciliation *)

PayinHandled(rec, k, good) ==
    CASE rec.seen.payin \in TerminalLeg -> [rec EXCEPT !.at = "commit"]
      [] rec.seen.payin \notin TerminalLeg /\ ~good ->
           [rec EXCEPT !.at = "commit", !.obj.payin = "FAILED", !.obj.status = "FAILED"]
      [] rec.seen.payin \notin TerminalLeg /\ good /\ k = "DEPOSIT" ->
           [rec EXCEPT !.at = "commit", !.obj.payin = "SUCCESS", !.obj.status = "SUCCESS",
                       !.credit = 1]
      [] OTHER -> [rec EXCEPT !.at = "post", !.obj.payin = "SUCCESS"]

PayoutHandled(rec, k, good) ==
    CASE rec.seen.payout \in TerminalLeg -> [rec EXCEPT !.at = "commit"]
      [] rec.seen.payout \notin TerminalLeg /\ good ->
           [rec EXCEPT !.at = "commit", !.obj.payout = "SUCCESS", !.obj.status = "SUCCESS"]
      [] OTHER ->
           [rec EXCEPT !.at = "commit", !.obj.payout = "FAILED", !.credit = 1,
                       !.obj.status = IF k = "TRANSFER" THEN "FAILED_PAYOUT" ELSE "FAILED"]

\* Mutant: every payment is a pay-in.
LegOfType(o) == IF jeko[o].type = "payment" THEN "IN" ELSE "OUT"

\* The suffix of an operation's reference; cash operations have none, and none means OUT.
Leg(o) ==
    IF jeko[o].type = "payment" /\ asked[jeko[o].ref] \notin {"CASH_IN", "CASH_OUT"}
    THEN "IN" ELSE "OUT"

\* Mutant: a final status is taken for a success.
NotPending(o) == jeko[o].status # "pending"

\* A webhook's status is a success or not; reconciliation handles final statuses only.
Good(o) == jeko[o].status = "success"

Handled(rec, o) ==
    LET k == asked[jeko[o].ref]
    IN  IF Leg(o) = "IN" THEN PayinHandled(rec, k, Good(o)) ELSE PayoutHandled(rec, k, Good(o))

-----------------------------------------------------------------------------
(* Webhooks *)

\* The deduplication key is set before anything is read; 200 when it was set already.
Deliver(h, o) ==
    LET c == <<"hook", h>> IN
    /\ o \in DOMAIN jeko
    /\ jeko[o].status # "pending"
    /\ o \notin acked
    /\ tried[o] < Deliveries
    /\ call[c].at = "off"
    /\ \A g \in 1..(h - 1) : call[<<"hook", g>>].at # "off"   \* the first free place
    /\ tried' = [tried EXCEPT ![o] = @ + 1]
    /\ IF o \in dedup
       THEN acked' = acked \cup {o} /\ UNCHANGED <<dedup, call>>
       ELSE /\ dedup' = dedup \cup {o}
            /\ call' = [call EXCEPT ![c].at = "read", ![c].op = o]
            /\ UNCHANGED acked
    /\ UNCHANGED <<asked, row, credited, jeko, doubt, trouble>>

\* process_jeko_webhook: 404 without a row, else the handler of the leg.
ReadRow(c) ==
    LET o == call[c].op
        read == row[jeko[o].ref]
    IN
    /\ call[c].at = "read"
    /\ IF read = NoRow THEN End(c)
       ELSE call' = [call EXCEPT ![c] = Handled([@ EXCEPT !.seen = read, !.obj = read], o)]
    /\ UNCHANGED <<asked, row, credited, jeko, dedup, tried, acked, doubt, trouble>>

-----------------------------------------------------------------------------
(* Reconciliation *)

\* Mutant: only payouts are checked.
PayoutToCheck(k, read) == IF read.payout = "PENDING" THEN read.payoutId ELSE 0

\* The operation whose status JEKO is asked for, 0 when no leg is PENDING with an id.
ToCheck(k, read) ==
    CASE k = "TRANSFER" /\ read.payin = "PENDING" /\ read.payinId # 0 -> read.payinId
      [] read.payout = "PENDING" /\ ~(k = "TRANSFER" /\ read.payin = "PENDING" /\ read.payinId # 0) ->
           read.payoutId
      [] OTHER -> 0

\* One SELECT decides: the second one of the session finds the row loaded already.
Look(c, r) ==
    LET o == ToCheck(asked[r], row[r])
        rec == [call[c] EXCEPT !.wakes = @ + 1]
    IN  call' = [call EXCEPT ![c] =
            IF o # 0 THEN [rec EXCEPT !.at = "get", !.op = o, !.seen = row[r], !.obj = row[r]]
            ELSE IF c[1] = "task" /\ rec.wakes < Wakes THEN rec ELSE Rest("off", rec.wakes)]

\* The task ends with a terminal status.
Wake(r) ==
    LET c == <<"task", r>> IN
    /\ call[c].at = "asleep"
    /\ IF row[r].status \in TerminalStatuses
       THEN call' = [call EXCEPT ![c] = Rest("off", @.wakes)]
       ELSE Look(c, r)
    /\ UNCHANGED <<asked, row, credited, jeko, dedup, tried, acked, doubt, trouble>>

\* The command line looks at any row, at any time.
Manual(r) ==
    LET c == <<"cli", r>> IN
    /\ call[c].at = "off"
    /\ call[c].wakes < MaxManual
    /\ row[r] # NoRow
    /\ Look(c, r)
    /\ UNCHANGED <<asked, row, credited, jeko, dedup, tried, acked, doubt, trouble>>

\* JEKO's status of the leg is handled on the row as it was read before asking.
Check(c) ==
    LET o == call[c].op IN
    /\ call[c].at = "get"
    /\ IF jeko[o].status = "pending"
       THEN End(c) /\ UNCHANGED doubt
       ELSE /\ call' = [call EXCEPT ![c] = Handled(@, o)]
            /\ doubt' = doubt \cup {RefOf(c)}
    /\ UNCHANGED <<asked, row, credited, jeko, dedup, tried, acked, trouble>>

CheckFails(c) ==
    /\ call[c].at = "get"
    /\ Trouble("lost")
    /\ End(c)
    /\ UNCHANGED <<asked, row, credited, jeko, dedup, tried, acked, doubt>>

-----------------------------------------------------------------------------
(* The end of a call *)

\* Mutant: the UPDATE sets every column.
ColumnAnyway(old, read, new) == new

\* The session's UPDATE sets the columns whose value is another than the one read.
Column(old, read, new) == IF new = read THEN old ELSE new
Written(old, read, new) ==
    IF read = NoRow THEN new
    ELSE [payin    |-> Column(old.payin, read.payin, new.payin),
          payout   |-> Column(old.payout, read.payout, new.payout),
          status   |-> Column(old.status, read.status, new.status),
          payinId  |-> Column(old.payinId, read.payinId, new.payinId),
          payoutId |-> Column(old.payoutId, read.payoutId, new.payoutId)]

\* The route of a transfer that JEKO has accepted starts the task.
Schedules(c) == c[1] = "route" /\ asked[c[2]] = "TRANSFER" /\ call[c].obj.payinId # 0

Commit(c) ==
    LET r == RefOf(c) IN
    /\ call[c].at = "commit"
    /\ row' = [row EXCEPT ![r] = Written(@, call[c].seen, call[c].obj)]
    /\ credited' = [credited EXCEPT ![r] = @ + call[c].credit]
    /\ acked' = IF c[1] = "hook" THEN acked \cup {call[c].op} ELSE acked
    /\ call' = IF Schedules(c)
               THEN [call EXCEPT ![c] = Ended(c), ![<<"task", r>>].at = "asleep"]
               ELSE [call EXCEPT ![c] = Ended(c)]
    /\ UNCHANGED <<asked, jeko, dedup, tried, doubt, trouble>>

\* An exception or a killed process: the session is rolled back, the keys in Redis stay.
\* A killed process takes the task with it, an exception only its present look.
Cut(c) ==
    /\ call[c].at # "off"
    /\ Trouble("failures")
    /\ \/ End(c) /\ call[c].at # "asleep"
       \/ call' = [call EXCEPT ![c] = Rest("off", call[c].wakes)]
    /\ UNCHANGED <<asked, row, credited, jeko, dedup, tried, acked, doubt>>

-----------------------------------------------------------------------------
(* JEKO *)

\* The payer confirms or not, the payout reaches its recipient or not.
Complete(o, s) ==
    /\ o \in DOMAIN jeko
    /\ jeko[o].status = "pending"
    /\ jeko' = [jeko EXCEPT ![o].status = s]
    /\ UNCHANGED <<asked, row, credited, dedup, tried, acked, call, doubt, trouble>>

\* A delivery meets a sleeping server.
Miss(o) ==
    /\ o \in DOMAIN jeko
    /\ jeko[o].status # "pending"
    /\ o \notin acked
    /\ tried[o] < Deliveries
    /\ Trouble("missed")
    /\ tried' = [tried EXCEPT ![o] = @ + 1]
    /\ UNCHANGED <<asked, row, credited, jeko, dedup, acked, call, doubt>>

-----------------------------------------------------------------------------

Step(c) == Answered(c) \/ Refused(c) \/ ReadRow(c) \/ Check(c) \/ Commit(c)

Next ==
    \/ \E r \in Refs :
          \/ RequestTransfer(r)
          \/ RequestCashIn(r) \/ RequestCashOut(r)
          \/ \E k \in {"WITHDRAWAL", "DEPOSIT"} : Place(r, k)
          \/ Wake(r) \/ Manual(r)
    \/ \E c \in Callers :
          \/ Step(c)
          \/ \E executed \in BOOLEAN : Unanswered(c, executed)
          \/ CheckFails(c) \/ Cut(c)
    \/ \E o \in Ops :
          \/ \E s \in {"success", "error"} : Complete(o, s)
          \/ \E h \in Hooks : Deliver(h, o)
          \/ Miss(o)

\* The server runs its calls and wakes its tasks; JEKO delivers events until it gets a 200
\* or gives up, and pays out or gives up.  Nobody need confirm a payment.
Fairness ==
    /\ \A c \in Callers : WF_vars(Step(c))
    /\ \A r \in Refs : WF_vars(Wake(r))
    /\ \A o \in Ops : WF_vars(\E h \in Hooks : Deliver(h, o))
    /\ \A o \in Ops : WF_vars(/\ o \in DOMAIN jeko /\ jeko[o].type = "transfer"
                              /\ \E s \in {"success", "error"} : Complete(o, s))

Spec == Init /\ [][Next]_vars /\ Fairness

-----------------------------------------------------------------------------
(* Properties *)

\* Rows, sessions and operations are those of the program.
TypeOK ==
    /\ asked \in [Refs -> Kinds \cup {"NONE"}]
    /\ row \in [Refs -> Row \cup {NoRow}]
    /\ credited \in [Refs -> Nat]
    /\ jeko \in Seq(Operation)
    /\ Len(jeko) <= MaxOps
    /\ dedup \subseteq Ops
    /\ tried \in [Ops -> 0..Deliveries]
    /\ acked \subseteq Ops
    /\ call \in [Callers -> Call]
    /\ \A c \in Callers : call[c].at \in {"off", "asleep"} =>
          call[c] = Rest(call[c].at, call[c].wakes)
    /\ doubt \subseteq Refs
    /\ trouble \in [Troubles -> Nat]

Troubled(T) == \E t \in T : trouble[t] > 0

\* What the payment shows and has moved, for the abstract specification.
Shown(r) == IF row[r] = NoRow THEN "PENDING" ELSE row[r].status

Promise == INSTANCE Settlement WITH
    Moves <- Ops,
    kind <- asked,
    collected <- [r \in Refs |-> Moved(r, "payment")],
    paid <- [r \in Refs |-> Moved(r, "transfer")],
    answer <- [r \in Refs |-> Shown(r)],
    clean <- [r \in Refs |-> r \notin doubt]

\* Whatever is lost, repeated, late or cut off, JEKO payments keep the promise of
\* Settlement: payouts and credits only of collected money, answers backed by moves, and
\* each move once and before the only answer as long as nothing is in doubt.
KeepsPromise == Promise!Spec

\* README.md, "Idempotence des transactions": no double credit is possible, here of a transfer.
CreditedOnce == \A r \in Refs : asked[r] = "TRANSFER" => credited[r] <= 1

\* Money goes out for a transfer, to the recipient or to the wallet, only after a payment
\* of the client has succeeded, whatever is lost, repeated, late or cut off.
MoneyComesFirst ==
    \A r \in Refs :
        (asked[r] = "TRANSFER" /\ (Moved(r, "transfer") # {} \/ credited[r] > 0))
            => Moved(r, "payment") # {}

\* An event that was answered with 200 has given its payment a final status once nobody
\* handles it any more, unless a call was cut off after setting the key.  Left out are the
\* payments of transfers, whose event may overtake the commit of the row.
AckedIsAnswered ==
    \A o \in acked :
        \/ asked[jeko[o].ref] = "TRANSFER" /\ jeko[o].type = "payment"
        \/ \E h \in Hooks : call[<<"hook", h>>].op = o
        \/ trouble["failures"] > 0
        \/ row[jeko[o].ref].status \in TerminalStatuses

Collected(r) == asked[r] = "TRANSFER" /\ Moved(r, "payment") # {}
PayinNoticed(r) == row[r] # NoRow /\ row[r].payin \in TerminalLeg

\* A transfer whose money was collected while the task still had a look left gets its
\* answer, even if the event overtook the commit of the row; and if deliveries were
\* missed, at least the collection is noticed.  Calls cut off and requests without an
\* answer are excepted.
CollectedIsSettled ==
    \A r \in Refs :
        (Collected(r) /\ call[<<"task", r>>].at = "asleep") ~>
            \/ Shown(r) # "PENDING"
            \/ PayinNoticed(r) /\ Troubled({"missed"})
            \/ Troubled({"lost", "failures"})
=============================================================================
