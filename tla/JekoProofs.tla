----------------------------- MODULE JekoProofs -----------------------------
(***************************************************************************)
(* For every number of payments, attempts and deliveries the variables of  *)
(* Jeko keep their types, and money leaves for a transfer only after it    *)
(* has come in.  The invariant speaks of the record of one call at a time  *)
(* (CallOK): a step changes the record of one call, and what the other     *)
(* calls rely on only grows (Grows).                                       *)
(***************************************************************************)
EXTENDS Jeko, TLAPS

\* The payment a call with record v works for.
RefIn(c, v) == IF c[1] = "hook" THEN jeko[v.op].ref ELSE c[2]

\* The ids in a row are those of operations of its payment.
IdsSound(r, v) ==
    /\ v.payinId # 0 => v.payinId \in DOMAIN jeko /\ jeko[v.payinId].ref = r
    /\ v.payoutId # 0 => v.payoutId \in DOMAIN jeko /\ jeko[v.payoutId].ref = r

Transfers(r) == asked[r] \in {"NONE", "TRANSFER"}
MoneyIn(r) == Moved(r, "payment") # {}
Idle(v) == v.at \in {"off", "asleep"}

\* Who may be where, with which operation and which row.
Placed(c, v) ==
    /\ Idle(v) => v = Rest(v.at, v.wakes)
    /\ v.at = "asleep" => c[1] = "task"
    /\ c[1] = "hook" /\ ~Idle(v) => v.op \in DOMAIN jeko
    /\ c[1] = "route" /\ ~Idle(v) => asked[c[2]] # "NONE"
    /\ c[1] = "task" /\ v.at # "off" => row[c[2]] # NoRow
    /\ ~Idle(v) /\ v.seen # NoRow => row[RefIn(c, v)] # NoRow
    /\ v.at \in {"get", "post", "commit"} /\ c[1] # "route" => v.seen # NoRow
    /\ v.at = "read" => c[1] = "hook"
    /\ v.at = "get" => /\ c[1] \in {"task", "cli"}
                       /\ v.op \in DOMAIN jeko /\ jeko[v.op].ref = c[2]
                       /\ v.seen \in Row
    /\ v.at \in {"get", "post", "commit"} => v.obj \in Row /\ IdsSound(RefIn(c, v), v.obj)

\* A call that credits a transfer or posts its payout has seen the money come in.
Covered(c, v) ==
    ~Idle(v) /\ Transfers(RefIn(c, v)) =>
        ((v.credit = 1 \/ (v.at = "post" /\ c[1] # "route")) => MoneyIn(RefIn(c, v)))

CallOK(c, v) == v \in Call /\ Placed(c, v) /\ Covered(c, v)

\* Payouts and credits of transfers that have happened.
PayoutCovered(o) ==
    jeko[o].type = "transfer" /\ Transfers(jeko[o].ref) => MoneyIn(jeko[o].ref)
MoneySound ==
    /\ \A o \in DOMAIN jeko : PayoutCovered(o)
    /\ \A r \in Refs : Transfers(r) /\ credited[r] > 0 => MoneyIn(r)

\* The row of a transfer is committed at the end of its route.
Uncommitted ==
    \A r \in Refs :
        asked[r] = "NONE" \/ (asked[r] = "TRANSFER" /\ ~Idle(call[<<"route", r>>]))
            => row[r] = NoRow

\* The types of everything but the calls.
Typed ==
    /\ asked \in [Refs -> Kinds \cup {"NONE"}]
    /\ row \in [Refs -> Row \cup {NoRow}]
    /\ credited \in [Refs -> Nat]
    /\ jeko \in Seq(Operation)
    /\ Len(jeko) <= MaxOps
    /\ dedup \subseteq Ops
    /\ tried \in [Ops -> 0..Deliveries]
    /\ acked \subseteq Ops
    /\ doubt \subseteq Refs
    /\ trouble \in [Troubles -> Nat]

IInv ==
    /\ Typed
    /\ \A r \in Refs : row[r] # NoRow => IdsSound(r, row[r])
    /\ MoneySound /\ Uncommitted
    /\ call = [c \in Callers |-> call[c]]
    /\ \A c \in Callers : CallOK(c, call[c])

\* What a step never takes back.
Grows ==
    /\ \A o \in DOMAIN jeko :
          /\ o \in DOMAIN jeko'
          /\ jeko'[o].ref = jeko[o].ref /\ jeko'[o].type = jeko[o].type
          /\ jeko[o].status = "success" => jeko'[o].status = "success"
    /\ \A r \in Refs : asked[r] # "NONE" => asked'[r] = asked[r]
    /\ \A r \in Refs : row[r] # NoRow => row'[r] # NoRow

-----------------------------------------------------------------------------

\* An id of the sequence is one of Ops.
LEMMA OpType ==
    ASSUME Typed, NEW o \in DOMAIN jeko
    PROVE  o \in Ops /\ jeko[o] \in Operation
BY BoundsAssumption DEF Typed, Ops

\* A call that is under way works for a payment.
LEMMA RefOfCall ==
    ASSUME Typed, NEW c \in Callers, NEW v \in Call, Placed(c, v), ~Idle(v)
    PROVE  RefIn(c, v) \in Refs
PROOF
<1>1. CASE c[1] = "hook"
  BY <1>1, OpType DEF RefIn, Placed, Operation
<1>2. CASE c[1] # "hook"
  BY <1>2 DEF Callers, RefIn
<1> QED
  BY <1>1, <1>2

\* Collected money stays collected.
LEMMA MoneyStays ==
    ASSUME Grows, NEW r \in Refs
    PROVE  MoneyIn(r) => MoneyIn(r)'
BY DEF Grows, MoneyIn, Moved

\* Ids stay those of their payment.
LEMMA IdsStay ==
    ASSUME Grows, NEW r \in Refs, NEW v, IdsSound(r, v)
    PROVE  IdsSound(r, v)'
BY DEF Grows, IdsSound

\* What holds of a record holds after any step that leaves it alone.
LEMMA CallStays ==
    ASSUME Typed, Grows, NEW c \in Callers, NEW v, CallOK(c, v)
    PROVE  CallOK(c, v)'
PROOF
<1>1. CASE Idle(v)
  BY <1>1 DEF CallOK, Placed, Covered, Idle, Grows, Callers
<1>2. CASE ~Idle(v)
  <2>1. RefIn(c, v) \in Refs /\ RefIn(c, v)' = RefIn(c, v)
    BY <1>2, RefOfCall DEF CallOK, Placed, RefIn, Grows, Callers
  <2>2. Placed(c, v)'
    BY <1>2, <2>1, IdsStay DEF CallOK, Placed, Idle, Grows, Callers
  <2>3. Transfers(RefIn(c, v))' => Transfers(RefIn(c, v))
    BY <2>1 DEF Transfers, Grows
  <2>4. Covered(c, v)'
    BY <1>2, <2>1, <2>3, MoneyStays DEF CallOK, Covered, Idle
  <2> QED
    BY <2>2, <2>4 DEF CallOK
<1> QED
  BY <1>1, <1>2

\* The two handlers write a row with the ids of the one read, then commit or post.
LEMMA PayinRecord ==
    ASSUME NEW rec \in Call, rec.obj \in Row, NEW k, NEW good \in BOOLEAN
    PROVE  LET v == PayinHandled(rec, k, good) IN
           /\ v \in Call /\ v.at \in {"commit", "post"} /\ v.op = rec.op /\ v.seen = rec.seen
           /\ v.obj \in Row
           /\ v.obj.payinId = rec.obj.payinId /\ v.obj.payoutId = rec.obj.payoutId
           /\ ~good => v.credit = rec.credit /\ v.at = "commit"
PROOF
<1> DEFINE v == PayinHandled(rec, k, good)
<1>1. v \in Call
  BY DEF PayinHandled, Call, Row, LegStatus, TerminalStatuses
<1>2. v.at \in {"commit", "post"} /\ v.op = rec.op /\ v.seen = rec.seen
  BY DEF PayinHandled, Call, Row, LegStatus, TerminalStatuses
<1>3. v.obj \in Row
  BY DEF PayinHandled, Call, Row, LegStatus, TerminalStatuses
<1>4. v.obj.payinId = rec.obj.payinId /\ v.obj.payoutId = rec.obj.payoutId
  BY DEF PayinHandled, Call, Row, LegStatus, TerminalStatuses
<1>5. ~good => v.credit = rec.credit /\ v.at = "commit"
  BY DEF PayinHandled, Call, Row, LegStatus, TerminalStatuses
<1> QED
  BY <1>1, <1>2, <1>3, <1>4, <1>5

LEMMA PayoutRecord ==
    ASSUME NEW rec \in Call, rec.obj \in Row, NEW k, NEW good \in BOOLEAN
    PROVE  LET v == PayoutHandled(rec, k, good) IN
           /\ v \in Call /\ v.at \in {"commit", "post"} /\ v.op = rec.op /\ v.seen = rec.seen
           /\ v.obj \in Row
           /\ v.obj.payinId = rec.obj.payinId /\ v.obj.payoutId = rec.obj.payoutId
PROOF
<1> DEFINE v == PayoutHandled(rec, k, good)
<1>1. v \in Call
  BY DEF PayoutHandled, Call, Row, LegStatus, TerminalStatuses
<1>2. v.at \in {"commit", "post"} /\ v.op = rec.op /\ v.seen = rec.seen
  BY DEF PayoutHandled, Call, Row, LegStatus, TerminalStatuses
<1>3. v.obj \in Row
  BY DEF PayoutHandled, Call, Row, LegStatus, TerminalStatuses
<1>4. v.obj.payinId = rec.obj.payinId /\ v.obj.payoutId = rec.obj.payoutId
  BY DEF PayoutHandled, Call, Row, LegStatus, TerminalStatuses
<1> QED
  BY <1>1, <1>2, <1>3, <1>4

\* A call that works for a row it has read handles the status of its operation.
LEMMA HandledOK ==
    ASSUME IInv, NEW c \in Callers, c[1] # "route", NEW rec \in Call, NEW o \in DOMAIN jeko,
           rec.seen \in Row, rec.obj \in Row,
           c[1] = "hook" => rec.op = o, RefIn(c, rec) = jeko[o].ref,
           row[RefIn(c, rec)] # NoRow,
           IdsSound(RefIn(c, rec), rec.obj),
           Transfers(RefIn(c, rec)) /\ rec.credit = 1 => MoneyIn(RefIn(c, rec))
    PROVE  CallOK(c, Handled(rec, o))
PROOF
<1> DEFINE v == Handled(rec, o)
           r == jeko[o].ref
           k == asked[r]
<1>1. r \in Refs /\ k \in Kinds \cup {"NONE"}
  BY OpType DEF IInv, Typed, Operation
<1>0. Good(o) \in BOOLEAN
  BY DEF Good
<1>2. /\ v \in Call /\ v.at \in {"commit", "post"} /\ v.op = rec.op /\ v.seen = rec.seen
      /\ v.obj \in Row
      /\ v.obj.payinId = rec.obj.payinId /\ v.obj.payoutId = rec.obj.payoutId
      /\ Leg(o) = "IN" /\ ~Good(o) => v.credit = rec.credit /\ v.at = "commit"
  <2>1. CASE Leg(o) = "IN"
    <3>1. v = PayinHandled(rec, k, Good(o))
      BY <2>1 DEF Handled
    <3> QED
      BY <2>1, <3>1, <1>0, PayinRecord
  <2>2. CASE Leg(o) # "IN"
    <3>1. v = PayoutHandled(rec, k, Good(o))
      BY <2>2 DEF Handled
    <3> QED
      BY <2>2, <3>1, <1>0, PayoutRecord
  <2> QED
    BY <2>1, <2>2
<1>3. RefIn(c, v) = r
  BY <1>2 DEF RefIn
<1>4. Placed(c, v)
  BY <1>2, <1>3, NoRowAssumption DEF Placed, Idle, IdsSound, RefIn
<1>5. ASSUME Transfers(r), v.credit = 1 \/ v.at = "post"
      PROVE  MoneyIn(r)
  <2>1. CASE Leg(o) = "OUT"
    <3>1. jeko[o].type = "transfer"
      BY <1>5, <2>1, OpType DEF Leg, Transfers, IInv, Typed, Operation
    <3> QED
      BY <1>5, <3>1 DEF IInv, MoneySound, PayoutCovered
  <2>2. CASE Leg(o) = "IN"
    <3>1. jeko[o].type = "payment"
      BY <2>2 DEF Leg
    <3>2. CASE Good(o)
      BY <3>1, <3>2 DEF Good, MoneyIn, Moved
    <3>3. CASE ~Good(o)
      <4>1. v.credit = rec.credit /\ v.at = "commit"
        BY <1>2, <2>2, <3>3
      <4> QED
        BY <1>3, <1>5, <4>1
    <3> QED
      BY <3>2, <3>3
  <2> QED
    BY <2>1, <2>2 DEF Leg
<1>6. Covered(c, v)
  BY <1>3, <1>5 DEF Covered
<1> QED
  BY <1>2, <1>4, <1>6 DEF CallOK

\* A call that is over, and one that a killed process has taken with it.
LEMMA EndedOK ==
    ASSUME IInv, NEW c \in Callers, call[c].at # "off"
    PROVE  CallOK(c, Ended(c)) /\ CallOK(c, Rest("off", call[c].wakes))
PROOF
<1>1. call[c] \in Call /\ Placed(c, call[c])
  BY DEF IInv, CallOK
<1>2. call[c].wakes \in Nat
  BY <1>1 DEF Call
<1>3. ASSUME NEW a \in {"off", "asleep"},
             a = "asleep" => c[1] = "task" /\ row[c[2]] # NoRow
      PROVE  CallOK(c, Rest(a, call[c].wakes))
  <2>1. Rest(a, call[c].wakes) \in Call
    BY <1>2, BoundsAssumption DEF Rest, Call
  <2> QED
    BY <1>3, <2>1 DEF CallOK, Placed, Covered, Idle, Rest
<1>4. CallOK(c, Rest("off", call[c].wakes))
  BY <1>3
<1>5. CASE c[1] = "task" /\ call[c].at # "off" /\ call[c].wakes < Wakes
  BY <1>1, <1>2, <1>3, <1>5 DEF Placed, Ended
<1>6. CASE ~(c[1] = "task" /\ call[c].wakes < Wakes)
  BY <1>2, <1>3, <1>6 DEF Ended
<1> QED
  BY <1>4, <1>5, <1>6

-----------------------------------------------------------------------------

\* JEKO accepts an operation: its id is new.
LEMMA Accepts ==
    ASSUME Typed, NEW op \in Operation, Accept(op)
    PROVE  /\ jeko' \in Seq(Operation) /\ Len(jeko') <= MaxOps
           /\ DOMAIN jeko' = DOMAIN jeko \cup {Len(jeko) + 1}
           /\ \A o \in DOMAIN jeko : jeko'[o] = jeko[o]
           /\ jeko'[Len(jeko) + 1] = op
           /\ Len(jeko) + 1 \in Ops \ DOMAIN jeko
BY BoundsAssumption DEF Typed, Accept, Room, Ops

\* What a call posts is an operation of the payment it works for.
LEMMA PostsType ==
    ASSUME IInv, NEW c \in Callers, call[c].at = "post"
    PROVE  /\ Posts(c) \in Operation /\ Posts(c).ref = RefOf(c) /\ RefOf(c) \in Refs
           /\ RefOf(c) = RefIn(c, call[c])
PROOF
<1>1. RefOf(c) = RefIn(c, call[c])
  BY DEF RefOf, RefIn
<1>2. RefOf(c) \in Refs
  BY <1>1, RefOfCall DEF IInv, CallOK, Idle
<1> QED
  BY <1>1, <1>2 DEF Posts, PaymentRequest, Withdrawal, Operation

\* The payer or JEKO decides: nothing else of an operation changes.
LEMMA Completes ==
    ASSUME Typed, NEW o \in Ops, NEW s \in {"success", "error"}, Complete(o, s)
    PROVE  /\ jeko' \in Seq(Operation) /\ Len(jeko') = Len(jeko)
           /\ DOMAIN jeko' = DOMAIN jeko
           /\ jeko[o].status = "pending"
           /\ \A p \in DOMAIN jeko : /\ jeko'[p].ref = jeko[p].ref
                                     /\ jeko'[p].type = jeko[p].type
                                     /\ p # o => jeko'[p] = jeko[p]
PROOF
<1>1. o \in DOMAIN jeko /\ jeko[o] \in Operation /\ jeko' = [jeko EXCEPT ![o].status = s]
  BY OpType DEF Complete
<1>2. [jeko[o] EXCEPT !.status = s] \in Operation
  BY <1>1 DEF Operation
<1>3. jeko' = [jeko EXCEPT ![o] = [jeko[o] EXCEPT !.status = s]]
  BY <1>1
<1>4. jeko' \in Seq(Operation) /\ Len(jeko') = Len(jeko)
  BY <1>1, <1>2, <1>3 DEF Typed
<1> QED
  BY <1>1, <1>2, <1>3, <1>4 DEF Complete, Operation

\* The columns written are the new ones or those of the committed row.
LEMMA WrittenType ==
    ASSUME NEW old, NEW read \in Row \cup {NoRow}, NEW new \in Row, read # NoRow => old \in Row
    PROVE  LET w == Written(old, read, new) IN
           /\ w \in Row
           /\ w.payinId = new.payinId \/ (read # NoRow /\ w.payinId = old.payinId)
           /\ w.payoutId = new.payoutId \/ (read # NoRow /\ w.payoutId = old.payoutId)
BY DEF Written, Column, Row

\* A new row has no id, or that of the operation just accepted.
LEMMA NewRowType ==
    ASSUME NEW k, NEW o \in Ops \cup {0}
    PROVE  /\ NewRow(k, o) \in Row
           /\ NewRow(k, o).payinId \in {0, o} /\ NewRow(k, o).payoutId \in {0, o}
BY DEF NewRow, Row, LegStatus

\* A commit writes the row of the payment the call works for, with its ids.
LEMMA CommitWrites ==
    ASSUME IInv, NEW c \in Callers, Commit(c)
    PROVE  LET r == RefOf(c) IN
           /\ r \in Refs /\ r = RefIn(c, call[c])
           /\ row' = [row EXCEPT ![r] = row'[r]]
           /\ row'[r] \in Row /\ IdsSound(r, row'[r])
PROOF
<1> DEFINE r == RefOf(c)
           w == Written(row[r], call[c].seen, call[c].obj)
<1>1. call[c] \in Call /\ Placed(c, call[c]) /\ call[c].at = "commit"
  BY DEF IInv, CallOK, Commit
<1>2. r \in Refs /\ r = RefIn(c, call[c])
  BY <1>1, RefOfCall DEF IInv, Idle, RefOf, RefIn
<1>3. /\ call[c].obj \in Row /\ IdsSound(r, call[c].obj)
      /\ call[c].seen \in Row \cup {NoRow}
      /\ call[c].seen # NoRow => row[r] # NoRow
  BY <1>1, <1>2 DEF Placed, Idle, Call
<1>4. row[r] # NoRow => row[r] \in Row /\ IdsSound(r, row[r])
  BY <1>2 DEF IInv, Typed
<1>5. /\ w \in Row
      /\ w.payinId = call[c].obj.payinId \/ (call[c].seen # NoRow /\ w.payinId = row[r].payinId)
      /\ w.payoutId = call[c].obj.payoutId \/ (call[c].seen # NoRow /\ w.payoutId = row[r].payoutId)
  BY <1>3, <1>4, WrittenType
<1>6. IdsSound(r, w)
  BY <1>3, <1>4, <1>5 DEF IdsSound
<1>7. row' = [row EXCEPT ![r] = w]
  BY DEF Commit
<1> QED
  BY <1>2, <1>5, <1>6, <1>7 DEF IInv, Typed

\* Operations are kept and their success is final; so are the kind and the row of a payment.
LEMMA GrowsStep ==
    ASSUME IInv, [Next]_vars
    PROVE  Grows
PROOF
<1>1. ASSUME UNCHANGED <<asked, row, jeko>>
      PROVE  Grows
  BY <1>1 DEF Grows
<1>2. ASSUME NEW op \in Operation, Accept(op), UNCHANGED <<asked, row>>
      PROVE  Grows
  BY <1>2, Accepts DEF Grows, IInv
<1>3. ASSUME NEW r \in Refs, RequestTransfer(r)
      PROVE  Grows
  BY <1>3 DEF Grows, RequestTransfer, IInv, Typed
<1>4. ASSUME NEW r \in Refs, NEW k, Commits(r, k)
      PROVE  Grows
  BY <1>4, NewRowType, NoRowAssumption DEF Grows, Commits, IInv, Typed
<1>5. ASSUME NEW r \in Refs, NEW k \in {"WITHDRAWAL", "DEPOSIT"}, Place(r, k)
      PROVE  Grows
  <2>1. PICK op \in Operation : Accept(op)
    BY <1>5 DEF Place, Withdrawal, PaymentRequest, Operation
  <2>2. NewRow(k, Len(jeko) + 1) \in Row
    BY <2>1, Accepts, NewRowType DEF IInv
  <2> QED
    BY <1>5, <2>1, <2>2, Accepts, NoRowAssumption DEF Grows, Place, IInv, Typed
<1>6. ASSUME NEW c \in Callers, Answered(c)
      PROVE  Grows
  BY <1>2, <1>6, PostsType DEF Answered
<1>7. ASSUME NEW c \in Callers, NEW executed \in BOOLEAN, Unanswered(c, executed)
      PROVE  Grows
  BY <1>1, <1>2, <1>7, PostsType DEF Unanswered
<1>8. ASSUME NEW c \in Callers, Commit(c)
      PROVE  Grows
  BY <1>8, CommitWrites, NoRowAssumption DEF Commit, Grows, IInv, Typed
<1>9. ASSUME NEW o \in Ops, NEW s \in {"success", "error"}, Complete(o, s)
      PROVE  Grows
  <2>1. UNCHANGED <<asked, row>>
    BY <1>9 DEF Complete
  <2> QED
    BY <1>9, <2>1, Completes DEF Grows, IInv
<1>10. ASSUME NEW r \in Refs, Wake(r) \/ Manual(r)
       PROVE  UNCHANGED <<asked, row, jeko>>
  BY <1>10 DEF Wake, Manual
<1>11. ASSUME NEW c \in Callers,
              Refused(c) \/ ReadRow(c) \/ Check(c) \/ CheckFails(c) \/ Cut(c)
       PROVE  UNCHANGED <<asked, row, jeko>>
  BY <1>11 DEF Refused, ReadRow, Check, CheckFails, Cut
<1>12. ASSUME NEW o \in Ops, (\E h \in Hooks : Deliver(h, o)) \/ Miss(o)
       PROVE  UNCHANGED <<asked, row, jeko>>
  BY <1>12 DEF Deliver, Miss
<1>13. CASE UNCHANGED vars
  BY <1>1, <1>13 DEF vars
<1> QED
  BY <1>1, <1>3, <1>4, <1>5, <1>6, <1>7, <1>8, <1>9, <1>10, <1>11, <1>12, <1>13
     DEF Next, Step, RequestCashIn, RequestCashOut

\* A step that replaces the record of one call by a sound one.
LEMMA OneCall ==
    ASSUME IInv, Grows, NEW c \in Callers, NEW v, CallOK(c, v)', call' = [call EXCEPT ![c] = v]
    PROVE  /\ call' = [d \in Callers |-> call'[d]]
           /\ \A d \in Callers : CallOK(d, call[d])'
PROOF
<1>1. \A d \in Callers \ {c} : call'[d] = call[d] /\ CallOK(d, call[d])'
  BY CallStays DEF IInv
<1>2. call'[c] = v /\ call' = [d \in Callers |-> call'[d]]
  BY DEF IInv
<1>3. ASSUME NEW d \in Callers
      PROVE  CallOK(d, call[d])'
  <2>1. CASE d = c
    BY <1>2, <2>1
  <2>2. CASE d # c
    BY <1>1, <2>2
  <2> QED
    BY <2>1, <2>2
<1> QED
  BY <1>2, <1>3

\* A step that moves no call.
LEMMA NoCall ==
    ASSUME IInv, Grows, UNCHANGED call
    PROVE  /\ call' = [d \in Callers |-> call'[d]]
           /\ \A d \in Callers : CallOK(d, call[d])'
BY CallStays DEF IInv

\* Payments, rows, credits and operations stay: one call moves.
LEMMA QuietStep ==
    ASSUME IInv, UNCHANGED <<asked, row, credited, jeko>>,
           dedup' \subseteq Ops, tried' \in [Ops -> 0..Deliveries], acked' \subseteq Ops,
           doubt' \subseteq Refs, trouble' \in [Troubles -> Nat],
           NEW c \in Callers, NEW v, CallOK(c, v), call' = [call EXCEPT ![c] = v],
           c[1] = "route" /\ Idle(call[c]) => Idle(v)
    PROVE  IInv'
PROOF
<1>1. Grows
  BY DEF Grows
<1>2. CallOK(c, v)'
  BY <1>1, CallStays DEF IInv
<1>3. Typed'
  BY DEF IInv, Typed
<1>4. \A r \in Refs : row'[r] # NoRow => IdsSound(r, row[r])'
  BY DEF IInv, IdsSound
<1>5. MoneySound'
  BY DEF IInv, MoneySound, PayoutCovered, MoneyIn, Moved, Transfers
<1>6. Uncommitted'
  <2>1. \A r \in Refs : ~Idle(call'[<<"route", r>>]) => ~Idle(call[<<"route", r>>])
    <3>1. ASSUME NEW r \in Refs, c # <<"route", r>>
          PROVE  call'[<<"route", r>>] = call[<<"route", r>>]
      BY <3>1 DEF IInv, Callers
    <3>2. ASSUME NEW r \in Refs, c = <<"route", r>>, ~Idle(call'[<<"route", r>>])
          PROVE  ~Idle(call[<<"route", r>>])
      <4>1. call'[c] = v
        BY DEF IInv
      <4> QED
        BY <3>2, <4>1
    <3> QED
      BY <3>1, <3>2
  <2> QED
    BY <2>1 DEF IInv, Uncommitted, Idle
<1> QED
  BY <1>1, <1>2, <1>3, <1>4, <1>5, <1>6, OneCall DEF IInv

\* What the invariant says of one call.
LEMMA CallType ==
    ASSUME IInv, NEW c \in Callers
    PROVE  CallOK(c, call[c]) /\ call[c] \in Call /\ Placed(c, call[c])
BY DEF IInv, CallOK

\* The id of the leg that is checked is one of the row's.
LEMMA ToCheckType ==
    ASSUME Typed, NEW r \in Refs, NEW k, NEW v \in Row, IdsSound(r, v),
           NEW o, o = ToCheck(k, v), o # 0
    PROVE  o \in DOMAIN jeko /\ jeko[o].ref = r
BY DEF ToCheck, IdsSound, Row

\* A look at the row of a payment, by the sleeping task or the command line.
LEMMA LookStep ==
    ASSUME IInv, NEW r \in Refs, NEW c \in Callers, c[1] \in {"task", "cli"}, c[2] = r,
           Idle(call[c]), row[r] # NoRow, Look(c, r)
    PROVE  \E v : CallOK(c, v) /\ call' = [call EXCEPT ![c] = v]
PROOF
<1> DEFINE o == ToCheck(asked[r], row[r])
           w == call[c].wakes + 1
           rec == [call[c] EXCEPT !.wakes = @ + 1]
<1>1. row[r] \in Row /\ IdsSound(r, row[r])
  BY DEF IInv, Typed
<1>2. call[c] \in Call /\ w \in Nat /\ rec \in Call /\ rec.at = call[c].at /\ rec.credit = call[c].credit
  BY CallType DEF Call
<1>3. call[c] = Rest(call[c].at, call[c].wakes) /\ (call[c].at = "asleep" => c[1] = "task")
  BY CallType DEF Placed
<1>4. CASE o # 0
  <2> DEFINE v == [rec EXCEPT !.at = "get", !.op = o, !.seen = row[r], !.obj = row[r]]
  <2>1. o \in DOMAIN jeko /\ jeko[o].ref = r /\ o \in Ops
    BY <1>1, <1>4, ToCheckType, OpType DEF IInv
  <2>6. call[c].credit = 0
    BY <1>3 DEF Rest
  <2>7. v \in Call
    BY <1>1, <1>2, <2>1 DEF Call
  <2>2. /\ v \in Call /\ v.at = "get" /\ v.op = o /\ v.seen = row[r] /\ v.obj = row[r]
        /\ v.credit = 0
    BY <1>2, <2>6, <2>7 DEF Call
  <2>3. RefIn(c, v) = r
    BY DEF RefIn
  <2>4. Placed(c, v) /\ Covered(c, v)
    BY <1>1, <2>1, <2>2, <2>3 DEF Placed, Covered, Idle
  <2>5. call' = [call EXCEPT ![c] = v]
    BY <1>4 DEF Look
  <2> QED
    BY <2>2, <2>4, <2>5 DEF CallOK
<1>5. CASE o = 0 /\ c[1] = "task" /\ rec.wakes < Wakes
  <2>1. rec = Rest(rec.at, rec.wakes)
    BY <1>3 DEF Rest
  <2>2. CallOK(c, rec)
    BY <1>2, <1>3, <1>5, <2>1 DEF CallOK, Placed, Covered, Idle, Rest
  <2>3. call' = [call EXCEPT ![c] = rec]
    BY <1>5 DEF Look
  <2> QED
    BY <2>2, <2>3
<1>6. CASE o = 0 /\ ~(c[1] = "task" /\ rec.wakes < Wakes)
  <2> DEFINE v == Rest("off", w)
  <2>1. v \in Call
    BY <1>2, BoundsAssumption DEF Rest, Call
  <2>2. CallOK(c, v)
    BY <2>1 DEF CallOK, Placed, Covered, Idle, Rest
  <2>3. rec.wakes = w
    BY <1>2 DEF Call
  <2>4. call' = [call EXCEPT ![c] = v]
    BY <1>6, <2>3 DEF Look
  <2> QED
    BY <2>2, <2>4
<1> QED
  BY <1>4, <1>5, <1>6

\* The task wakes up, or the command line looks.
LEMMA WakeStep ==
    ASSUME IInv, NEW r \in Refs, Wake(r)
    PROVE  IInv'
PROOF
<1> DEFINE c == <<"task", r>>
<1>1. c \in Callers /\ c[1] = "task" /\ c[2] = r /\ Idle(call[c]) /\ row[r] # NoRow
  <2>1. c \in Callers /\ c[1] = "task" /\ c[2] = r
    BY DEF Callers
  <2> QED
    BY <2>1, CallType DEF Wake, Placed, Idle
<1>2. \E v : CallOK(c, v) /\ call' = [call EXCEPT ![c] = v]
  <2>1. CASE row[r].status \in TerminalStatuses
    BY <1>1, <2>1, EndedOK DEF Wake
  <2>2. CASE row[r].status \notin TerminalStatuses
    BY <1>1, <2>2, LookStep DEF Wake
  <2> QED
    BY <2>1, <2>2
<1> QED
  BY <1>1, <1>2, QuietStep DEF Wake, IInv, Typed

LEMMA ManualStep ==
    ASSUME IInv, NEW r \in Refs, Manual(r)
    PROVE  IInv'
PROOF
<1> DEFINE c == <<"cli", r>>
<1>1. c \in Callers /\ c[1] = "cli" /\ c[2] = r
  BY DEF Callers
<1>2. PICK v : CallOK(c, v) /\ call' = [call EXCEPT ![c] = v]
  BY <1>1, LookStep DEF Manual, Idle
<1> QED
  BY <1>1, <1>2, QuietStep DEF Manual, IInv, Typed

\* JEKO's refusal ends in a write: of a failed leg, of a credit when money has come in.
LEMMA DeclinedOK ==
    ASSUME IInv, NEW c \in Callers, call[c].at = "post"
    PROVE  CallOK(c, Declined(c)) /\ ~Idle(Declined(c))
PROOF
<1> DEFINE rec == Finishing(c)
           v == Declined(c)
<1>1. call[c] \in Call /\ Placed(c, call[c]) /\ Covered(c, call[c])
  BY CallType DEF CallOK
<1>2. call[c].obj \in Row /\ IdsSound(RefIn(c, call[c]), call[c].obj)
  BY <1>1 DEF Placed
<1>3. /\ rec \in Call /\ rec.at = "commit" /\ rec.obj = call[c].obj /\ rec.op = call[c].op
      /\ rec.seen = call[c].seen /\ rec.credit = call[c].credit
  <2>1. 0 \in 0..Attempts
    BY BoundsAssumption
  <2> QED
    BY <1>1, <2>1 DEF Finishing, Call
<1> HIDE DEF rec
<1>4. ASSUME NEW w, w \in {TransferDeclined(rec), CashDeclined(rec), PayoutDeclined(rec)},
             w.credit = rec.credit \/ c[1] # "route"
      PROVE  CallOK(c, w) /\ ~Idle(w)
  <2>1. w \in Call
    <3>1. CASE w = TransferDeclined(rec)
      BY <1>2, <1>3, <3>1 DEF TransferDeclined, Call, Row, LegStatus, TerminalStatuses
    <3>2. CASE w = CashDeclined(rec)
      BY <1>2, <1>3, <3>2 DEF CashDeclined, Call, Row, TerminalStatuses
    <3>3. CASE w = PayoutDeclined(rec)
      BY <1>2, <1>3, <3>3 DEF PayoutDeclined, Call, Row, LegStatus, TerminalStatuses
    <3> QED
      BY <1>4, <3>1, <3>2, <3>3
  <2>2. w.at = "commit" /\ w.op = call[c].op /\ w.seen = call[c].seen
    BY <1>2, <1>3, <1>4 DEF TransferDeclined, CashDeclined, PayoutDeclined, Call
  <2>3. /\ w.obj \in Row
        /\ w.obj.payinId = call[c].obj.payinId /\ w.obj.payoutId = call[c].obj.payoutId
    <3>1. CASE w = TransferDeclined(rec)
      BY <1>2, <1>3, <3>1 DEF TransferDeclined, Call, Row, LegStatus, TerminalStatuses
    <3>2. CASE w = CashDeclined(rec)
      BY <1>2, <1>3, <3>2 DEF CashDeclined, Call, Row, TerminalStatuses
    <3>3. CASE w = PayoutDeclined(rec)
      BY <1>2, <1>3, <3>3 DEF PayoutDeclined, Call, Row, LegStatus, TerminalStatuses
    <3> QED
      BY <1>4, <3>1, <3>2, <3>3
  <2>4. RefIn(c, w) = RefIn(c, call[c])
    BY <2>2 DEF RefIn
  <2>5. Placed(c, w)
    BY <1>1, <1>2, <2>2, <2>3, <2>4 DEF Placed, Idle, IdsSound
  <2>6. Covered(c, w)
    BY <1>1, <1>3, <1>4, <2>2, <2>4 DEF Covered, Idle
  <2> QED
    BY <2>1, <2>2, <2>5, <2>6 DEF CallOK, Idle
<1>5. CASE c[1] # "route"
  BY <1>4, <1>5 DEF Declined, rec
<1>6. CASE c[1] = "route"
  <2>1. TransferDeclined(rec).credit = rec.credit /\ CashDeclined(rec).credit = rec.credit
    BY <1>2, <1>3 DEF TransferDeclined, CashDeclined, Call
  <2> QED
    BY <1>4, <1>6, <2>1 DEF Declined, rec
<1> QED
  BY <1>5, <1>6

\* A refusal by JEKO.
LEMMA RefusedStep ==
    ASSUME IInv, NEW c \in Callers, Refused(c)
    PROVE  IInv'
BY DeclinedOK, QuietStep DEF Refused, IInv, Typed, Idle

\* The counters of what goes wrong.
LEMMA TroubleType ==
    ASSUME Typed, NEW t \in Troubles, Trouble(t)
    PROVE  trouble' \in [Troubles -> Nat]
BY DEF Typed, Trouble

\* Calls that fail or are cut off.
LEMMA EndsStep ==
    ASSUME IInv, NEW c \in Callers, CheckFails(c) \/ Cut(c)
    PROVE  IInv'
PROOF
<1>1. call[c].at # "off"
  BY DEF CheckFails, Cut
<1>2. PICK v : CallOK(c, v) /\ call' = [call EXCEPT ![c] = v] /\ (c[1] = "route" => Idle(v))
  <2>1. c[1] = "route" => Idle(Ended(c))
    BY DEF Ended, Rest, Idle
  <2>2. Idle(Rest("off", call[c].wakes))
    BY DEF Rest, Idle
  <2> QED
    BY <1>1, <2>1, <2>2, EndedOK DEF CheckFails, Cut, End
<1>3. trouble' \in [Troubles -> Nat]
  BY TroubleType DEF CheckFails, Cut, IInv, Troubles
<1> QED
  BY <1>2, <1>3, QuietStep DEF CheckFails, Cut, IInv, Typed

\* The handlers, after a webhook has read the row or JEKO has given a status.
LEMMA ReadRowStep ==
    ASSUME IInv, NEW c \in Callers, ReadRow(c)
    PROVE  IInv'
PROOF
<1> DEFINE o == call[c].op
           r == jeko[o].ref
           rec == [call[c] EXCEPT !.seen = row[r], !.obj = row[r]]
<1>1. /\ call[c] \in Call /\ Placed(c, call[c]) /\ Covered(c, call[c])
      /\ call[c].at = "read" /\ c[1] = "hook"
  BY CallType DEF CallOK, ReadRow, Placed
<1>2. o \in DOMAIN jeko /\ r \in Refs /\ RefIn(c, call[c]) = r
  BY <1>1, RefOfCall DEF Placed, RefIn, Idle, IInv
<1>3. CASE row[r] = NoRow
  <2>1. call' = [call EXCEPT ![c] = Ended(c)]
    BY <1>3 DEF ReadRow, End
  <2> QED
    BY <1>1, <2>1, EndedOK, QuietStep DEF ReadRow, IInv, Typed
<1>4. CASE row[r] # NoRow
  <2>1. row[r] \in Row /\ IdsSound(r, row[r])
    BY <1>2, <1>4 DEF IInv, Typed
  <2>2. /\ rec \in Call /\ rec.at = "read" /\ rec.op = o
        /\ rec.seen = row[r] /\ rec.obj = row[r] /\ rec.credit = call[c].credit
    BY <1>1, <2>1 DEF Call
  <2>3. RefIn(c, rec) = r
    BY <1>2, <2>2 DEF RefIn
  <2>4. Transfers(r) /\ rec.credit = 1 => MoneyIn(r)
    BY <1>1, <1>2, <2>2 DEF Covered, Idle
  <2>5. CallOK(c, Handled(rec, o))
    BY <1>1, <1>2, <1>4, <2>1, <2>2, <2>3, <2>4, HandledOK
  <2>6. call' = [call EXCEPT ![c] = Handled(rec, o)]
    BY <1>4 DEF ReadRow
  <2> QED
    BY <1>1, <2>5, <2>6, QuietStep DEF ReadRow, IInv, Typed
<1> QED
  BY <1>3, <1>4

LEMMA CheckStep ==
    ASSUME IInv, NEW c \in Callers, Check(c)
    PROVE  IInv'
PROOF
<1> DEFINE o == call[c].op
           r == c[2]
<1>1. /\ call[c] \in Call /\ Placed(c, call[c]) /\ Covered(c, call[c])
      /\ call[c].at = "get" /\ c[1] \in {"task", "cli"}
  BY CallType DEF CallOK, Check, Placed
<1>2. /\ o \in DOMAIN jeko /\ r \in Refs /\ jeko[o].ref = r
      /\ RefIn(c, call[c]) = r /\ RefOf(c) = r
  BY <1>1, RefOfCall DEF Placed, RefIn, RefOf, Idle, IInv
<1>3. doubt' \subseteq Refs
  BY <1>2 DEF Check, IInv, Typed
<1>4. CASE jeko[o].status = "pending"
  <2>1. call' = [call EXCEPT ![c] = Ended(c)]
    BY <1>4 DEF Check, End
  <2> QED
    BY <1>1, <1>3, <2>1, EndedOK, QuietStep DEF Check, IInv, Typed
<1>5. CASE jeko[o].status # "pending"
  <2>1. /\ call[c].seen \in Row /\ call[c].obj \in Row /\ IdsSound(r, call[c].obj)
        /\ row[r] # NoRow
    BY <1>1, <1>2, NoRowAssumption DEF Placed, Idle
  <2>2. Transfers(r) /\ call[c].credit = 1 => MoneyIn(r)
    BY <1>1, <1>2 DEF Covered, Idle
  <2>3. CallOK(c, Handled(call[c], o))
    BY <1>1, <1>2, <1>5, <2>1, <2>2, HandledOK
  <2>4. call' = [call EXCEPT ![c] = Handled(call[c], o)]
    BY <1>5 DEF Check
  <2> QED
    BY <1>1, <1>3, <2>3, <2>4, QuietStep DEF Check, IInv, Typed
<1> QED
  BY <1>4, <1>5

\* Deliveries, handled or missed.
LEMMA DeliverStep ==
    ASSUME IInv, NEW o \in Ops, NEW h \in Hooks, Deliver(h, o)
    PROVE  IInv'
PROOF
<1> DEFINE c == <<"hook", h>>
           v == [call[c] EXCEPT !.at = "read", !.op = o]
<1>1. c \in Callers /\ c[1] = "hook" /\ call[c].at = "off" /\ o \in DOMAIN jeko
  BY DEF Callers, Deliver
<1>2. call[c] \in Call /\ call[c] = Rest("off", call[c].wakes)
  BY <1>1, CallType DEF Placed, Idle
<1>3. v \in Call /\ v.at = "read" /\ v.op = o /\ v.seen = NoRow /\ v.credit = 0
  <2>1. v \in Call /\ v.at = "read" /\ v.op = o /\ v.seen = call[c].seen /\ v.credit = call[c].credit
    BY <1>2 DEF Call
  <2>2. call[c].seen = NoRow /\ call[c].credit = 0
    BY <1>2 DEF Rest
  <2> QED
    BY <2>1, <2>2
<1>4. CallOK(c, v)
  BY <1>1, <1>3 DEF CallOK, Placed, Covered, Idle
<1>5. tried' \in [Ops -> 0..Deliveries] /\ dedup' \subseteq Ops /\ acked' \subseteq Ops
  BY BoundsAssumption DEF Deliver, IInv, Typed, Ops
<1>6. CallOK(c, call[c])
  BY <1>1, CallType
<1>7. \E w : CallOK(c, w) /\ call' = [call EXCEPT ![c] = w]
  <2>1. CASE o \in dedup
    <3>1. call' = [call EXCEPT ![c] = call[c]]
      BY <2>1 DEF Deliver, IInv
    <3> QED
      BY <1>6, <3>1
  <2>2. CASE o \notin dedup
    <3>1. call' = [call EXCEPT ![c] = v]
      BY <2>2 DEF Deliver
    <3> QED
      BY <1>4, <3>1
  <2> QED
    BY <2>1, <2>2
<1> QED
  BY <1>1, <1>5, <1>7, QuietStep DEF Deliver, IInv, Typed

LEMMA MissStep ==
    ASSUME IInv, NEW o \in Ops, Miss(o)
    PROVE  IInv'
PROOF
<1>1. Grows
  BY DEF Miss, Grows
<1>2. tried' \in [Ops -> 0..Deliveries] /\ trouble' \in [Troubles -> Nat]
  BY BoundsAssumption, TroubleType DEF Miss, IInv, Typed, Troubles
<1>3. Typed'
  BY <1>2 DEF Miss, IInv, Typed
<1>5. MoneySound'
  BY DEF Miss, IInv, MoneySound, PayoutCovered, MoneyIn, Moved, Transfers
<1>6. Uncommitted'
  BY DEF Miss, IInv, Uncommitted, Idle
<1>4. \A r \in Refs : row'[r] # NoRow => IdsSound(r, row[r])'
  BY DEF Miss, IInv, IdsSound
<1> QED
  BY <1>1, <1>3, <1>4, <1>5, <1>6, NoCall DEF Miss, IInv

-----------------------------------------------------------------------------

\* What may be a transfer after a step might have been one before.
LEMMA FewerTransfers ==
    ASSUME Typed, Grows, NEW r \in Refs, Transfers(r)'
    PROVE  Transfers(r)
BY DEF Grows, Transfers, Typed

\* A payout that JEKO accepts is one of collected money.
LEMMA AcceptMoney ==
    ASSUME IInv, Grows, NEW op \in Operation, Accept(op), UNCHANGED credited,
           op.type = "transfer" /\ Transfers(op.ref)' => MoneyIn(op.ref)
    PROVE  MoneySound'
PROOF
<1>1. ASSUME NEW o \in DOMAIN jeko'
      PROVE  PayoutCovered(o)'
  <2>1. CASE o \in DOMAIN jeko
    <3>1. PICK r \in Refs : jeko[o].ref = r /\ jeko'[o] = jeko[o]
      BY <2>1, Accepts, OpType DEF IInv, Operation
    <3> QED
      BY <2>1, <3>1, FewerTransfers, MoneyStays DEF IInv, MoneySound, PayoutCovered
  <2>2. CASE o \notin DOMAIN jeko
    <3>1. PICK r \in Refs : op.ref = r /\ jeko'[o] = op
      BY <1>1, <2>2, Accepts DEF IInv, Operation
    <3> QED
      BY <3>1, MoneyStays DEF PayoutCovered
  <2> QED
    BY <2>1, <2>2
<1>2. ASSUME NEW r \in Refs, Transfers(r)', credited'[r] > 0
      PROVE  MoneyIn(r)'
  BY <1>2, FewerTransfers, MoneyStays DEF IInv, MoneySound
<1> QED
  BY <1>1, <1>2 DEF MoneySound

\* No operation and no credit: the money stays sound.
LEMMA SameMoney ==
    ASSUME IInv, Grows, UNCHANGED <<jeko, credited>>
    PROVE  MoneySound'
PROOF
<1>1. ASSUME NEW o \in DOMAIN jeko
      PROVE  PayoutCovered(o)'
  <2>1. PICK r \in Refs : jeko[o].ref = r
    BY OpType DEF IInv, Operation
  <2> QED
    BY <2>1, FewerTransfers, MoneyStays DEF IInv, MoneySound, PayoutCovered
<1>2. ASSUME NEW r \in Refs, Transfers(r)', credited[r] > 0
      PROVE  MoneyIn(r)'
  BY <1>2, FewerTransfers, MoneyStays DEF IInv, MoneySound
<1> QED
  BY <1>1, <1>2 DEF MoneySound

\* The record of a route that has not been called.
LEMMA RouteOff ==
    ASSUME IInv, NEW r \in Refs, asked[r] = "NONE", NEW c, c = <<"route", r>>
    PROVE  /\ c \in Callers /\ c[1] = "route" /\ c[2] = r /\ c # <<"task", r>>
           /\ call[c] \in Call /\ call[c] = Rest("off", call[c].wakes)
           /\ row[r] = NoRow
PROOF
<1>1. c \in Callers /\ c[1] = "route" /\ c[2] = r
  BY DEF Callers
<1> QED
  BY <1>1, CallType DEF Placed, Idle, IInv, Uncommitted

\* The routes: of transfers, then of agents.
LEMMA RequestTransferStep ==
    ASSUME IInv, Grows, NEW r \in Refs, RequestTransfer(r)
    PROVE  IInv'
PROOF
<1> DEFINE c == <<"route", r>>
           new == NewRow("TRANSFER", 0)
<1>1. /\ c \in Callers /\ c[1] = "route" /\ c[2] = r
      /\ call[c] \in Call /\ call[c] = Rest("off", call[c].wakes) /\ row[r] = NoRow
  BY RouteOff DEF RequestTransfer
<1>2. new \in Row /\ new.payinId = 0 /\ new.payoutId = 0
  BY NewRowType
<1> HIDE DEF new
<1>0. PICK v : v = [call[c] EXCEPT !.at = "post", !.obj = new]
  OBVIOUS
<1>3. v \in Call /\ v.at = "post" /\ v.obj = new /\ v.seen = call[c].seen /\ v.credit = call[c].credit
  BY <1>0, <1>1, <1>2 DEF Call
<1>4. call[c].seen = NoRow /\ call[c].credit = 0
  BY <1>1 DEF Rest
<1>5. asked'[r] = "TRANSFER"
  BY DEF RequestTransfer, IInv, Typed
<1>6. CallOK(c, v)'
  <2>1. Placed(c, v)'
    BY <1>1, <1>2, <1>3, <1>4, <1>5 DEF Placed, Idle, IdsSound
  <2>2. Covered(c, v)'
    BY <1>1, <1>3, <1>4 DEF Covered
  <2> QED
    BY <1>3, <2>1, <2>2 DEF CallOK
<1>7. call' = [call EXCEPT ![c] = v]
  BY <1>0 DEF RequestTransfer, new
<1>8. Typed'
  BY DEF RequestTransfer, IInv, Typed, Kinds
<1>9. \A p \in Refs : row'[p] # NoRow => IdsSound(p, row[p])'
  BY DEF RequestTransfer, IInv, IdsSound
<1>10. MoneySound'
  BY SameMoney DEF RequestTransfer
<1>11. Uncommitted'
  <2>1. \A p \in Refs \ {r} : asked'[p] = asked[p] /\ call'[<<"route", p>>] = call[<<"route", p>>]
    BY <1>7 DEF RequestTransfer, IInv, Typed, Callers
  <2> QED
    BY <1>1, <2>1 DEF RequestTransfer, IInv, Uncommitted, Idle
<1> QED
  BY <1>1, <1>6, <1>7, <1>8, <1>9, <1>10, <1>11, OneCall DEF IInv

LEMMA CommitsStep ==
    ASSUME IInv, Grows, NEW r \in Refs, NEW k \in {"CASH_IN", "CASH_OUT"}, Commits(r, k)
    PROVE  IInv'
PROOF
<1> DEFINE c == <<"route", r>>
           new == NewRow(k, 0)
<1>1. /\ c \in Callers /\ c[1] = "route" /\ c[2] = r
      /\ call[c] \in Call /\ call[c] = Rest("off", call[c].wakes) /\ row[r] = NoRow
  BY RouteOff DEF Commits
<1>2. new \in Row /\ new.payinId = 0 /\ new.payoutId = 0
  BY NewRowType
<1> HIDE DEF new
<1>0. PICK v : v = [call[c] EXCEPT !.at = "post", !.seen = new, !.obj = new]
  OBVIOUS
<1>3. v \in Call /\ v.at = "post" /\ v.obj = new /\ v.seen = new /\ v.credit = call[c].credit
  BY <1>0, <1>1, <1>2 DEF Call
<1>4. call[c].credit = 0
  BY <1>1 DEF Rest
<1>5. asked'[r] = k /\ row'[r] = new /\ new # NoRow
  BY <1>2, NoRowAssumption DEF Commits, IInv, Typed, new
<1>6. CallOK(c, v)'
  <2>1. RefIn(c, v)' = r
    BY <1>1 DEF RefIn
  <2>2. Placed(c, v)'
    BY <1>1, <1>2, <1>3, <1>5, <2>1 DEF Placed, Idle, IdsSound
  <2>3. Covered(c, v)'
    BY <1>1, <1>3, <1>4 DEF Covered
  <2> QED
    BY <1>3, <2>2, <2>3 DEF CallOK
<1>7. call' = [call EXCEPT ![c] = v]
  BY <1>0 DEF Commits, new
<1>8. Typed'
  BY <1>2 DEF Commits, IInv, Typed, Kinds, new
<1>9. \A p \in Refs : row'[p] # NoRow => IdsSound(p, row[p])'
  BY <1>2, <1>5 DEF Commits, IInv, Typed, IdsSound
<1>10. MoneySound'
  BY SameMoney DEF Commits
<1>11. Uncommitted'
  <2>1. \A p \in Refs \ {r} : /\ asked'[p] = asked[p] /\ row'[p] = row[p]
                              /\ call'[<<"route", p>>] = call[<<"route", p>>]
    BY <1>7 DEF Commits, IInv, Typed, Callers
  <2> QED
    BY <1>5, <2>1 DEF IInv, Uncommitted, Idle
<1> QED
  BY <1>1, <1>6, <1>7, <1>8, <1>9, <1>10, <1>11, OneCall DEF IInv

\* Withdrawals and deposits, committed by code that is not in the repository.
LEMMA PlaceStep ==
    ASSUME IInv, Grows, NEW r \in Refs, NEW k \in {"WITHDRAWAL", "DEPOSIT"}, Place(r, k)
    PROVE  IInv'
PROOF
<1> DEFINE c == <<"task", r>>
<1>1. PICK op \in Operation : Accept(op) /\ op.ref = r
  BY DEF Place, Withdrawal, PaymentRequest, Operation
<1>2. PICK id : id = Len(jeko) + 1
  OBVIOUS
<1>3. /\ id \in Ops /\ id \in DOMAIN jeko' /\ jeko'[id].ref = r
      /\ jeko' \in Seq(Operation) /\ Len(jeko') <= MaxOps
  BY <1>1, <1>2, Accepts DEF IInv
<1>4. PICK new : new = NewRow(k, id)
  OBVIOUS
<1>5. new \in Row /\ new # NoRow /\ new.payinId \in {0, id} /\ new.payoutId \in {0, id}
  BY <1>3, <1>4, NewRowType, NoRowAssumption
<1>6. /\ row' = [row EXCEPT ![r] = new] /\ row'[r] = new
      /\ asked'[r] = k /\ \A p \in Refs \ {r} : asked'[p] = asked[p] /\ row'[p] = row[p]
  BY <1>2, <1>4 DEF Place, IInv, Typed
<1>7. Typed'
  BY <1>3, <1>5, <1>6 DEF Place, IInv, Typed, Kinds
<1>8. \A p \in Refs : row'[p] # NoRow => IdsSound(p, row[p])'
  <2>1. IdsSound(r, row[r])'
    BY <1>3, <1>5, <1>6 DEF IdsSound
  <2> QED
    BY <2>1, <1>6, IdsStay DEF IInv
<1>9. MoneySound'
  BY <1>1, <1>6, AcceptMoney DEF Place, Transfers
<1>10. \A p \in Refs : call'[<<"route", p>>] = call[<<"route", p>>]
  BY DEF Place, IInv, Callers
<1>11. Uncommitted'
  BY <1>6, <1>10 DEF IInv, Uncommitted, Idle
<1>12. /\ call' = [d \in Callers |-> call'[d]]
       /\ \A d \in Callers : CallOK(d, call[d])'
  <2>1. CASE k = "WITHDRAWAL"
    <3>1. c \in Callers /\ c[1] = "task" /\ c[2] = r
      BY DEF Callers
    <3>2. row[r] = NoRow
      BY DEF Place, IInv, Uncommitted
    <3>3. call[c] \in Call /\ call[c] = Rest("off", call[c].wakes)
      BY <3>1, <3>2, CallType DEF Placed, Idle, Call
    <3>4. PICK v : v = Rest("asleep", call[c].wakes)
      OBVIOUS
    <3>5. v \in Call /\ v.at = "asleep" /\ v = Rest(v.at, v.wakes)
      BY <3>3, <3>4, BoundsAssumption DEF Rest, Call
    <3>6. CallOK(c, v)'
      BY <1>5, <1>6, <3>1, <3>5 DEF CallOK, Placed, Covered, Idle
    <3>7. v = [call[c] EXCEPT !.at = "asleep"]
      BY <3>3, <3>4 DEF Rest
    <3>8. call' = [call EXCEPT ![c] = v]
      BY <2>1, <3>7 DEF Place
    <3> QED
      BY <3>1, <3>6, <3>8, OneCall
  <2>2. CASE k = "DEPOSIT"
    BY <2>2, NoCall DEF Place
  <2> QED
    BY <2>1, <2>2
<1> QED
  BY <1>7, <1>8, <1>9, <1>11, <1>12 DEF IInv

-----------------------------------------------------------------------------

\* JEKO accepts what a call has posted.
LEMMA PostedStep ==
    ASSUME IInv, Grows, NEW c \in Callers, call[c].at = "post", Accept(Posts(c)),
           UNCHANGED <<asked, row, credited, dedup, tried, acked>>,
           doubt' \subseteq Refs, trouble' \in [Troubles -> Nat],
           NEW v, CallOK(c, v)', call' = [call EXCEPT ![c] = v]
    PROVE  IInv'
PROOF
<1>0. PICK op, r : op = Posts(c) /\ r = RefOf(c)
  OBVIOUS
<1>1. /\ op \in Operation /\ Accept(op) /\ op.ref = r /\ r \in Refs
      /\ r = RefIn(c, call[c])
  BY <1>0, PostsType
<1>2. op.type = "transfer" /\ Transfers(r) => MoneyIn(r)
  <2>1. CASE c[1] = "route"
    BY <1>0, <1>1, <2>1, CallType DEF Posts, PaymentRequest, RefIn, Transfers, Placed, Idle
  <2>2. CASE c[1] # "route"
    BY <1>1, <2>2, CallType DEF CallOK, Covered, Idle
  <2> QED
    BY <2>1, <2>2
<1>3. MoneySound'
  BY <1>1, <1>2, FewerTransfers, AcceptMoney DEF IInv
<1>4. Typed'
  BY <1>1, Accepts DEF IInv, Typed
<1>5. \A p \in Refs : row'[p] # NoRow => IdsSound(p, row[p])'
  BY IdsStay DEF IInv
<1>6. Uncommitted'
  <2>1. \A p \in Refs : ~Idle(call'[<<"route", p>>]) => ~Idle(call[<<"route", p>>])
    BY DEF IInv, Callers, Idle
  <2> QED
    BY <2>1 DEF IInv, Uncommitted, Idle
<1> QED
  BY <1>3, <1>4, <1>5, <1>6, OneCall DEF IInv

\* The id JEKO answers with is recorded by the call.
LEMMA AnsweredStep ==
    ASSUME IInv, Grows, NEW c \in Callers, Answered(c)
    PROVE  IInv'
PROOF
<1>0. PICK r : r = RefOf(c)
  OBVIOUS
<1> DEFINE rec == Finishing(c)
<1>1. /\ call[c].at = "post" /\ Posts(c) \in Operation /\ Posts(c).ref = r
      /\ r \in Refs /\ r = RefIn(c, call[c])
  BY <1>0, PostsType DEF Answered
<1>2. PICK id : id = Len(jeko) + 1
  OBVIOUS
<1>3. id \in Ops /\ id \in DOMAIN jeko' /\ jeko'[id].ref = r
  BY <1>1, <1>2, Accepts DEF Answered, IInv
<1>4. PICK v : v = Accepted(c, id)
  OBVIOUS
<1>5. call[c] \in Call /\ Placed(c, call[c]) /\ call[c].obj \in Row
  BY <1>1, CallType DEF Placed
<1>6. /\ rec \in Call /\ rec.at = "commit" /\ rec.obj = call[c].obj /\ rec.op = call[c].op
      /\ rec.seen = call[c].seen /\ rec.credit = call[c].credit
  <2>1. 0 \in 0..Attempts
    BY BoundsAssumption
  <2> QED
    BY <1>5, <2>1 DEF Finishing, Call
<1> HIDE DEF rec
<1>7. v \in {rec, TransferAccepted(rec, id), PayoutAccepted(rec, id)}
  BY <1>4 DEF Accepted, rec
<1>8. v \in Call
  <2>1. CASE v = TransferAccepted(rec, id)
    BY <1>3, <1>5, <1>6, <2>1 DEF TransferAccepted, Call, Row
  <2>2. CASE v = PayoutAccepted(rec, id)
    BY <1>3, <1>5, <1>6, <2>2 DEF PayoutAccepted, Call, Row, LegStatus
  <2> QED
    BY <1>6, <1>7, <2>1, <2>2
<1>9. v.at = "commit" /\ v.op = call[c].op /\ v.seen = call[c].seen /\ v.credit = call[c].credit
  BY <1>5, <1>6, <1>7 DEF TransferAccepted, PayoutAccepted, Call
<1>10. /\ v.obj \in Row
       /\ v.obj.payinId \in {call[c].obj.payinId, id}
       /\ v.obj.payoutId \in {call[c].obj.payoutId, id}
  <2>1. CASE v = TransferAccepted(rec, id)
    BY <1>3, <1>5, <1>6, <2>1 DEF TransferAccepted, Call, Row
  <2>2. CASE v = PayoutAccepted(rec, id)
    BY <1>3, <1>5, <1>6, <2>2 DEF PayoutAccepted, Call, Row, LegStatus
  <2> QED
    BY <1>5, <1>6, <1>7, <2>1, <2>2
<1>11. PICK u : u = call[c]
  OBVIOUS
<1>12. Placed(c, u)' /\ Covered(c, u)'
  BY <1>11, CallType, CallStays DEF CallOK, IInv
<1>13. RefIn(c, u)' = r /\ RefIn(c, v)' = r
  BY <1>1, <1>5, <1>9, <1>11 DEF RefIn, Answered, Placed, Idle, Grows
<1>14. IdsSound(r, v.obj)'
  <2>1. IdsSound(r, u.obj)'
    BY <1>1, <1>11, <1>12, <1>13 DEF Placed
  <2> QED
    BY <1>3, <1>10, <1>11, <2>1 DEF IdsSound
<1>15. CallOK(c, v)'
  <2>1. Placed(c, v)'
    BY <1>1, <1>8, <1>9, <1>10, <1>11, <1>12, <1>13, <1>14 DEF Placed, Idle
  <2>2. Covered(c, v)'
    BY <1>1, <1>9, <1>11, <1>12, <1>13 DEF Covered, Idle
  <2> QED
    BY <1>8, <2>1, <2>2 DEF CallOK
<1> QED
  BY <1>1, <1>2, <1>4, <1>15, PostedStep DEF Answered, IInv, Typed

\* A POST that is repeated, or given up.
LEMMA UnansweredOK ==
    ASSUME IInv, NEW c \in Callers, NEW executed, Unanswered(c, executed)
    PROVE  \E v : CallOK(c, v) /\ call' = [call EXCEPT ![c] = v]
PROOF
<1>1. call[c].at = "post" /\ call[c] \in Call /\ Placed(c, call[c]) /\ Covered(c, call[c])
  BY CallType DEF Unanswered, CallOK
<1>2. CASE call[c].tries + 1 < Attempts
  <2> DEFINE v == [call[c] EXCEPT !.tries = @ + 1]
  <2>1. call[c].tries + 1 \in 0..Attempts
    BY <1>1, <1>2, BoundsAssumption DEF Call
  <2>2. /\ v \in Call /\ v.at = "post" /\ v.op = call[c].op /\ v.seen = call[c].seen
        /\ v.obj = call[c].obj /\ v.credit = call[c].credit
    BY <1>1, <2>1 DEF Call
  <2>3. Placed(c, v) /\ Covered(c, v)
    BY <1>1, <2>2 DEF Placed, Covered, Idle, RefIn
  <2>4. call' = [call EXCEPT ![c] = v]
    BY <1>2 DEF Unanswered
  <2> QED
    BY <2>2, <2>3, <2>4 DEF CallOK
<1>3. CASE ~(call[c].tries + 1 < Attempts)
  <2>1. CallOK(c, Off)
    <3>1. Off \in Call
      BY BoundsAssumption DEF Off, Rest, Call
    <3> QED
      BY <3>1 DEF CallOK, Placed, Covered, Idle, Off, Rest
  <2>2. CallOK(c, GivenUp(c))
    BY <1>1, <2>1, DeclinedOK DEF GivenUp
  <2>3. call' = [call EXCEPT ![c] = GivenUp(c)]
    BY <1>3 DEF Unanswered
  <2> QED
    BY <2>2, <2>3
<1> QED
  BY <1>2, <1>3

\* JEKO may have acted on a request it has not answered.
LEMMA UnansweredStep ==
    ASSUME IInv, Grows, NEW c \in Callers, NEW executed \in BOOLEAN, Unanswered(c, executed)
    PROVE  IInv'
PROOF
<1>1. PICK v : CallOK(c, v) /\ call' = [call EXCEPT ![c] = v]
  BY UnansweredOK
<1>2. call[c].at = "post" /\ UNCHANGED <<asked, row, credited, dedup, tried, acked>>
  BY DEF Unanswered
<1>3. trouble' \in [Troubles -> Nat]
  BY TroubleType DEF Unanswered, IInv, Troubles
<1>4. CASE executed
  <2>1. Accept(Posts(c)) /\ doubt' \subseteq Refs
    BY <1>2, <1>4, PostsType DEF Unanswered, IInv, Typed
  <2>2. CallOK(c, v)'
    BY <1>1, CallStays DEF IInv
  <2> QED
    BY <1>1, <1>2, <1>3, <2>1, <2>2, PostedStep
<1>5. CASE ~executed
  BY <1>1, <1>2, <1>3, <1>5, QuietStep DEF Unanswered, IInv, Typed, Idle
<1> QED
  BY <1>4, <1>5

-----------------------------------------------------------------------------

\* The end of a transaction: its row, its credit, and for a transfer its task.
LEMMA CommitCalls ==
    ASSUME IInv, Grows, NEW c \in Callers, Commit(c)
    PROVE  /\ call' = [d \in Callers |-> call'[d]]
           /\ \A d \in Callers : CallOK(d, call[d])'
           /\ \A p \in Refs : \/ call'[<<"route", p>>] = call[<<"route", p>>]
                              \/ Idle(call'[<<"route", p>>])
PROOF
<1>1. PICK v : v = Ended(c) /\ CallOK(c, v)'
  BY EndedOK, CallStays DEF Commit, IInv
<1>2. c[1] = "route" => Idle(v)
  BY <1>1 DEF Ended, Rest, Idle
<1>3. CASE ~Schedules(c)
  <2>1. call' = [call EXCEPT ![c] = v]
    BY <1>1, <1>3 DEF Commit
  <2>2. \A p \in Refs : \/ call'[<<"route", p>>] = call[<<"route", p>>]
                        \/ Idle(call'[<<"route", p>>])
    BY <1>2, <2>1 DEF IInv, Callers, Idle
  <2> QED
    BY <1>1, <2>1, <2>2, OneCall
<1>4. CASE Schedules(c)
  <2>1. PICK r \in Refs : c = <<"route", r>> /\ asked[r] = "TRANSFER" /\ RefOf(c) = r
    BY <1>4 DEF Schedules, RefOf, Callers
  <2>2. PICK t : t = <<"task", r>>
    OBVIOUS
  <2>3. t \in Callers /\ t[1] = "task" /\ t[2] = r /\ t # c
    BY <2>1, <2>2 DEF Callers
  <2>4. row[r] = NoRow /\ row'[r] # NoRow
    BY <2>1, CommitWrites, NoRowAssumption DEF IInv, Uncommitted, Commit, Idle
  <2>5. call[t] \in Call /\ call[t] = Rest("off", call[t].wakes)
    BY <2>3, <2>4, CallType DEF Placed, Idle, Call
  <2>6. PICK u : u = Rest("asleep", call[t].wakes)
    OBVIOUS
  <2>7. u \in Call /\ u.at = "asleep" /\ u = Rest(u.at, u.wakes)
    BY <2>5, <2>6, BoundsAssumption DEF Rest, Call
  <2>8. CallOK(t, u)'
    BY <2>3, <2>4, <2>7 DEF CallOK, Placed, Covered, Idle
  <2>9. u = [call[t] EXCEPT !.at = "asleep"]
    BY <2>5, <2>6 DEF Rest
  <2>10. call' = [call EXCEPT ![c] = v, ![t] = u]
    BY <1>1, <1>4, <2>1, <2>2, <2>3, <2>9 DEF Commit, IInv
  <2>11. call'[c] = v /\ call'[t] = u /\ \A d \in Callers \ {c, t} : call'[d] = call[d]
    BY <2>3, <2>10 DEF IInv
  <2>12. \A d \in Callers \ {c, t} : CallOK(d, call[d])'
    BY <2>11, CallStays DEF IInv
  <2>13. \A d \in Callers : CallOK(d, call[d])'
    <3>1. CallOK(c, call[c])' /\ CallOK(t, call[t])'
      BY <1>1, <2>8, <2>11
    <3> QED
      BY <2>12, <3>1
  <2>14. \A p \in Refs : \/ call'[<<"route", p>>] = call[<<"route", p>>]
                         \/ Idle(call'[<<"route", p>>])
    BY <1>2, <2>1, <2>2, <2>11 DEF Callers, Idle
  <2> QED
    BY <2>10, <2>13, <2>14 DEF IInv
<1> QED
  BY <1>3, <1>4

\* The commit writes the row and the credit together.
LEMMA CommitStep ==
    ASSUME IInv, Grows, NEW c \in Callers, Commit(c)
    PROVE  IInv'
PROOF
<1>0. PICK r : r = RefOf(c)
  OBVIOUS
<1>1. /\ r \in Refs /\ r = RefIn(c, call[c])
      /\ row' = [row EXCEPT ![r] = row'[r]]
      /\ row'[r] \in Row /\ IdsSound(r, row'[r])
  BY <1>0, CommitWrites
<1>2. /\ call[c] \in Call /\ Placed(c, call[c]) /\ Covered(c, call[c]) /\ call[c].at = "commit"
  BY CallType DEF CallOK, Commit
<1>3. Typed'
  <2>1. call[c].credit \in Nat
    BY <1>2 DEF Call
  <2>2. credited' \in [Refs -> Nat]
    BY <1>0, <1>1, <2>1 DEF Commit, IInv, Typed
  <2>3. acked' \subseteq Ops
    BY <1>2, OpType DEF Commit, IInv, Typed, Placed, Idle
  <2>4. row' \in [Refs -> Row \cup {NoRow}]
    BY <1>1 DEF IInv, Typed
  <2> QED
    BY <2>2, <2>3, <2>4 DEF Commit, IInv, Typed
<1>4. \A p \in Refs : row'[p] # NoRow => IdsSound(p, row[p])'
  <2>1. \A p \in Refs \ {r} : row'[p] = row[p]
    BY <1>1 DEF IInv, Typed
  <2>2. jeko' = jeko
    BY DEF Commit
  <2> QED
    BY <1>1, <2>1, <2>2 DEF IInv, IdsSound
<1>5. MoneySound'
  <2>1. UNCHANGED <<jeko, asked>> /\ credited' = [credited EXCEPT ![r] = @ + call[c].credit]
    BY <1>0 DEF Commit
  <2>2. \A o \in DOMAIN jeko : PayoutCovered(o)'
    BY <2>1 DEF IInv, MoneySound, PayoutCovered, MoneyIn, Moved, Transfers
  <2>3. ASSUME NEW p \in Refs, Transfers(p), credited'[p] > 0
        PROVE  MoneyIn(p)
    <3>1. CASE credited[p] > 0
      BY <2>3, <3>1 DEF IInv, MoneySound
    <3>2. CASE ~(credited[p] > 0)
      <4>1. p = r /\ call[c].credit = 1
        BY <1>1, <1>2, <2>1, <2>3, <3>2 DEF IInv, Typed, Call
      <4> QED
        BY <1>1, <1>2, <2>3, <4>1 DEF Covered, Idle
    <3> QED
      BY <3>1, <3>2
  <2> QED
    BY <2>1, <2>2, <2>3 DEF MoneySound, MoneyIn, Moved, Transfers
<1>6. Uncommitted'
  <2>1. ASSUME NEW p \in Refs,
               asked[p] = "NONE" \/ (asked[p] = "TRANSFER" /\ ~Idle(call'[<<"route", p>>]))
        PROVE  row'[p] = NoRow
    <3>1. row[p] = NoRow
      BY <2>1, CommitCalls DEF IInv, Uncommitted
    <3>2. p # r
      <4>1. CASE c[1] = "route"
        <5>1. c = <<"route", r>> /\ asked[r] # "NONE"
          BY <1>1, <1>2, <4>1 DEF RefIn, Placed, Idle, Callers
        <5>2. c \in Callers /\ Idle(call'[c])
          <6>1. Idle(Ended(c))
            BY <4>1 DEF Ended, Rest, Idle
          <6>2. call'[c] = Ended(c)
            BY <5>1 DEF Commit, IInv, Callers
          <6> QED
            BY <6>1, <6>2
        <5> QED
          BY <2>1, <5>1, <5>2
      <4>2. CASE c[1] # "route"
        BY <1>1, <1>2, <3>1, <4>2 DEF Placed, Idle
      <4> QED
        BY <4>1, <4>2
    <3> QED
      BY <1>1, <3>1, <3>2 DEF IInv, Typed
  <2>2. asked' = asked
    BY DEF Commit
  <2> QED
    BY <2>1, <2>2 DEF Uncommitted, Idle
<1> QED
  BY <1>3, <1>4, <1>5, <1>6, CommitCalls DEF IInv

\* The payer or JEKO decides.
LEMMA CompleteStep ==
    ASSUME IInv, Grows, NEW o \in Ops, NEW s \in {"success", "error"}, Complete(o, s)
    PROVE  IInv'
PROOF
<1>1. UNCHANGED <<asked, row, credited, dedup, tried, acked, call, doubt, trouble>>
  BY DEF Complete
<1>2. Typed'
  BY <1>1, Completes DEF IInv, Typed
<1>3. \A p \in Refs : row'[p] # NoRow => IdsSound(p, row[p])'
  BY <1>1, IdsStay DEF IInv
<1>4. MoneySound'
  <2>1. \A p \in Refs : MoneyIn(p) => MoneyIn(p)'
    BY MoneyStays
  <2>2. ASSUME NEW q \in DOMAIN jeko'
        PROVE  PayoutCovered(q)'
    <3>1. /\ q \in DOMAIN jeko /\ jeko'[q].ref = jeko[q].ref /\ jeko'[q].type = jeko[q].type
          /\ jeko[q].ref \in Refs
      BY <2>2, Completes, OpType DEF IInv, Operation
    <3> QED
      BY <1>1, <2>1, <3>1 DEF IInv, MoneySound, PayoutCovered, Transfers
  <2> QED
    BY <1>1, <2>1, <2>2 DEF IInv, MoneySound, Transfers
<1>5. Uncommitted'
  BY <1>1 DEF IInv, Uncommitted, Idle
<1> QED
  BY <1>1, <1>2, <1>3, <1>4, <1>5, NoCall DEF IInv

-----------------------------------------------------------------------------

\* The initial state, then every step.
LEMMA Initially ==
    Init => IInv
PROOF
<1> SUFFICES ASSUME Init
             PROVE  IInv
  OBVIOUS
<1>1. Typed
  BY BoundsAssumption DEF Init, Typed, Troubles, Kinds, Ops
<1>2. \A c \in Callers : CallOK(c, call[c])
  <2>1. Off \in Call
    BY BoundsAssumption DEF Off, Rest, Call
  <2> QED
    BY <2>1 DEF Init, CallOK, Placed, Covered, Idle, Off, Rest
<1>3. MoneySound /\ Uncommitted
  BY DEF Init, MoneySound, Uncommitted
<1> QED
  BY <1>1, <1>2, <1>3 DEF Init, IInv

LEMMA Inductive ==
    ASSUME IInv, [Next]_vars
    PROVE  IInv'
PROOF
<1>1. Grows
  BY GrowsStep
<1>2. ASSUME NEW c \in Callers, Step(c)
      PROVE  IInv'
  BY <1>1, <1>2, AnsweredStep, RefusedStep, ReadRowStep, CheckStep, CommitStep DEF Step
<1>3. CASE UNCHANGED vars
  <2>1. Typed' /\ \A p \in Refs : row'[p] # NoRow => IdsSound(p, row[p])'
    BY <1>3, IdsStay, <1>1 DEF vars, IInv, Typed
  <2>2. MoneySound' /\ Uncommitted'
    BY <1>1, <1>3, SameMoney DEF vars, IInv, Uncommitted, Idle
  <2> QED
    BY <1>1, <1>3, <2>1, <2>2, NoCall DEF vars, IInv
<1> QED
  BY <1>1, <1>2, <1>3, RequestTransferStep, CommitsStep, PlaceStep, WakeStep, ManualStep,
     UnansweredStep, EndsStep, CompleteStep, DeliverStep, MissStep
     DEF Next, RequestCashIn, RequestCashOut

\* The invariant behind the results: every record of a call is sound, and so is the money.
THEOREM Invariance == Spec => []IInv
PROOF
<1>1. Init => IInv
  BY Initially
<1>2. IInv /\ [Next]_vars => IInv'
  BY Inductive
<1> QED
  BY <1>1, <1>2, PTL DEF Spec

\* Rows, sessions and operations keep their types, and a call that is over keeps nothing.
THEOREM TypeCorrect == Spec => []TypeOK
PROOF
<1>1. IInv => TypeOK
  <2> SUFFICES ASSUME IInv
               PROVE  TypeOK
    OBVIOUS
  <2>1. call \in [Callers -> Call]
    BY CallType DEF IInv
  <2>2. \A c \in Callers : call[c].at \in {"off", "asleep"} => call[c] = Rest(call[c].at, call[c].wakes)
    BY CallType DEF Placed, Idle
  <2> QED
    BY <2>1, <2>2 DEF TypeOK, IInv, Typed
<1> QED
  BY <1>1, Invariance, PTL

\* No payout and no credit of a transfer before its payment has succeeded at JEKO, for any
\* number of lost answers, repeated POSTs, missed events and processes killed.
THEOREM PaidFromCollected == Spec => []MoneyComesFirst
PROOF
<1>1. IInv => MoneyComesFirst
  <2> SUFFICES ASSUME IInv, NEW r \in Refs, asked[r] = "TRANSFER",
                      Moved(r, "transfer") # {} \/ credited[r] > 0
               PROVE  MoneyIn(r)
    BY DEF MoneyComesFirst, MoneyIn
  <2>1. CASE credited[r] > 0
    BY <2>1 DEF IInv, MoneySound, Transfers
  <2>2. CASE Moved(r, "transfer") # {}
    BY <2>2 DEF Moved, IInv, MoneySound, PayoutCovered, Transfers
  <2> QED
    BY <2>1, <2>2
<1> QED
  BY <1>1, Invariance, PTL
=============================================================================
