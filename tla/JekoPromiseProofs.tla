-------------------------- MODULE JekoPromiseProofs --------------------------
(***************************************************************************)
(* Jeko keeps the promise of Settlement, for every number of payments,     *)
(* attempts, deliveries and failures; an answered event has its effect;    *)
(* and nothing moves twice unless in doubt. To JekoProofs the invariant    *)
(* adds what a session has made of the row it read and how its call may    *)
(* end (Sound), and that, as long as a payment is not in doubt, one thing  *)
(* at most may still answer it or move its money: an event not yet         *)
(* handled, the call that handles one, or the route that asked for the     *)
(* payment (Awaited, Alone).                                               *)
(***************************************************************************)
EXTENDS JekoProofs

-----------------------------------------------------------------------------
(* The invariant *)

\* What an operation is for, and whether its event may overtake the commit of the row.
OpKind(o) ==
    asked[jeko[o].ref] \in IF jeko[o].type = "payment" THEN Promise!Collecting ELSE Promise!Paying
Early(o) == asked[jeko[o].ref] = "TRANSFER" /\ jeko[o].type = "payment"

OpsSound ==
    /\ \A o \in DOMAIN jeko : OpKind(o) /\ (Early(o) \/ row[jeko[o].ref] # NoRow)
    /\ \A o \in dedup : o \in DOMAIN jeko /\ jeko[o].status # "pending"
    /\ acked \subseteq dedup

\* A leg with a final status gives the row one: a payout always, the payment of a deposit.
Final(v) == v.status \in TerminalStatuses
LegsSound(k, v) ==
    /\ v.payout \in TerminalLeg => Final(v)
    /\ k = "DEPOSIT" => (v.payin \in TerminalLeg <=> Final(v))
RowsSound == \A r \in Refs : row[r] # NoRow => LegsSound(asked[r], row[r])

\* The session of a call against the row it read, and that against the row as it is.
Changed(v, r) ==
    /\ LegsSound(asked[r], v.obj)
    /\ v.seen # NoRow =>
          /\ v.obj.status = v.seen.status \/ Final(v.obj)
          /\ Final(v.seen) => Final(row[r])
          /\ asked[r] = "DEPOSIT" =>
                \/ v.obj = v.seen
                \/ ~Final(v.seen) /\ v.seen.payin \notin TerminalLeg /\ Final(v.obj)

Backed(r) ==
    IF asked[r] \in Promise!Paying THEN Moved(r, "transfer") # {} ELSE Moved(r, "payment") # {}

\* The four ways in which a call may end.
Keeping(v) == v.credit = 0 /\ v.obj.status = IF v.seen = NoRow THEN "PENDING" ELSE v.seen.status
Failing(c, v) ==
    /\ v.credit = 0 /\ v.obj.status = "FAILED"
    /\ c[1] = "hook" => jeko[v.op].type = "payment" /\ jeko[v.op].status = "error"
Succeeding(v, r) ==
    /\ v.obj.status = "SUCCESS" /\ Backed(r)
    /\ v.credit = IF asked[r] = "DEPOSIT" THEN 1 ELSE 0
    /\ asked[r] = "DEPOSIT" => v.seen # NoRow /\ v.seen.status # "SUCCESS"
Returning(c, v, r) ==
    /\ v.credit = 1 /\ asked[r] # "DEPOSIT" /\ v.seen # NoRow
    /\ v.obj.status = IF asked[r] = "TRANSFER" THEN "FAILED_PAYOUT" ELSE "FAILED"
    /\ c[1] = "hook" => jeko[v.op].type = "payment" \/ jeko[v.op].status = "error"
Ending(c, v, r) == Keeping(v) \/ Failing(c, v) \/ Succeeding(v, r) \/ Returning(c, v, r)

\* A call under way, for payment r.
Serving(c, v, r) ==
    /\ c[1] = "route" =>
          /\ asked[r] \in {"TRANSFER", "CASH_IN", "CASH_OUT"} /\ v.at \in {"post", "commit"}
          /\ asked[r] = "TRANSFER" <=> v.seen = NoRow
    /\ c[1] = "hook" => v.op \in dedup
    /\ c[1] \in {"task", "cli"} /\ v.at \in {"post", "commit"} => r \in doubt
    /\ v.at \in {"read", "get"} => v.credit = 0
    /\ v.at \in {"get", "post", "commit"} => Changed(v, r)
    /\ v.at = "get" => v.obj = v.seen
    /\ v.at = "post" => Keeping(v)
    /\ v.at = "post" /\ c[1] # "route" => asked[r] = "TRANSFER"
    /\ v.at = "post" /\ c[1] = "hook" => jeko[v.op].type = "payment"
    /\ v.at = "commit" => Ending(c, v, r)
    /\ v.at = "commit" /\ c[1] = "hook" => Early(v.op) \/ Final(v.obj)
    /\ v.at \in {"post", "commit"} /\ r \notin doubt /\ v.seen # NoRow => v.seen.status = "PENDING"
Sound(c, v) == ~Idle(v) => Serving(c, v, RefIn(c, v))

\* A call that may still answer a payment or move its money.
Open(v) ==
    \/ v.at \in {"read", "post"}
    \/ v.at = "commit" /\ (v.credit = 1 \/ v.obj.status # "PENDING")

Unsettled(r) == Shown(r) = "PENDING" /\ credited[r] = 0

\* The only operation of its payment, but for the collection before a payout.
Latest(o) ==
    \A p \in DOMAIN jeko : jeko[p].ref = jeko[o].ref =>
        p = o \/ (jeko[p].type = "payment" /\ jeko[o].type = "transfer")

Awaited(o) == jeko[o].ref \notin doubt => Unsettled(jeko[o].ref) /\ Latest(o)
NoOps(r) == \A o \in DOMAIN jeko : jeko[o].ref # r
Alone(c, v) ==
    ~Idle(v) /\ Open(v) =>
        /\ c[1] = "hook" => Awaited(v.op)
        /\ c[1] = "route" /\ c[2] \notin doubt => Unsettled(c[2]) /\ NoOps(c[2])

\* An event is handled by one webhook.
HooksApart ==
    \A g, h \in Hooks :
        call[<<"hook", g>>].op = call[<<"hook", h>>].op /\ call[<<"hook", g>>].op # 0 => g = h

HasAnswer(r) == row[r] # NoRow /\ Final(row[r])
EventSound(o) ==
    \/ Early(o)
    \/ \E h \in Hooks : call[<<"hook", h>>].op = o
    \/ trouble["failures"] > 0
    \/ HasAnswer(jeko[o].ref)

PInv ==
    /\ OpsSound /\ RowsSound /\ HooksApart
    /\ \A o \in dedup : EventSound(o)
    /\ \A o \in (DOMAIN jeko) \ dedup : Awaited(o)
    /\ \A c \in Callers : Sound(c, call[c]) /\ Alone(c, call[c])

\* What no step takes back, beyond Grows.
Settles ==
    /\ Grows
    /\ \A o \in DOMAIN jeko : jeko[o].status # "pending" => jeko'[o] = jeko[o]
    /\ \A r \in Refs : HasAnswer(r) => HasAnswer(r)'
    /\ dedup \subseteq dedup' /\ doubt \subseteq doubt'
    /\ trouble["failures"] > 0 => trouble'["failures"] > 0

\* A step that neither answers a payment nor adds an operation to it, or leaves it in doubt.
Quiet(r) ==
    \/ r \in doubt'
    \/ /\ Unsettled(r) => Unsettled(r)'
       /\ \A o \in DOMAIN jeko' : jeko'[o].ref = r => o \in DOMAIN jeko

-----------------------------------------------------------------------------
(* What holds of a record, an operation or an event goes on holding *)

\* A call under way works for a payment that was asked for.
LEMMA CallAsked ==
    ASSUME IInv, PInv, NEW c \in Callers, NEW v, CallOK(c, v), Sound(c, v), ~Idle(v)
    PROVE  RefIn(c, v) \in Refs /\ asked[RefIn(c, v)] # "NONE"
PROOF
<1>1. v \in Call /\ Placed(c, v) /\ Serving(c, v, RefIn(c, v))
    BY DEF CallOK, Sound
<1>2. RefIn(c, v) \in Refs
    BY <1>1, RefOfCall DEF IInv
<1>3. CASE c[1] = "hook"
  <2>1. v.op \in DOMAIN jeko /\ RefIn(c, v) = jeko[v.op].ref
    BY <1>1, <1>3 DEF Placed, RefIn
  <2> QED
    BY <1>2, <2>1 DEF PInv, OpsSound, OpKind, Promise!Collecting, Promise!Paying
<1>4. CASE c[1] = "route"
    BY <1>1, <1>2, <1>4 DEF Serving
<1>5. CASE c[1] \in {"task", "cli"}
  <2>1. row[RefIn(c, v)] # NoRow
    BY <1>1, <1>5 DEF Placed, RefIn, Call, Idle
  <2> QED
    BY <1>2, <2>1 DEF IInv, Uncommitted
<1> QED
    BY <1>2, <1>3, <1>4, <1>5 DEF Callers

\* An operation belongs to a payment that was asked for.
LEMMA OpAsked ==
    ASSUME IInv, PInv, NEW o \in DOMAIN jeko
    PROVE  jeko[o].ref \in Refs /\ asked[jeko[o].ref] # "NONE" /\ o \in Ops
PROOF
<1>1. jeko[o].ref \in Refs /\ o \in Ops
    BY OpType DEF IInv, Operation
<1> QED
    BY <1>1 DEF PInv, OpsSound, OpKind, Promise!Collecting, Promise!Paying

\* Money that has moved stays moved.
LEMMA BackedStays ==
    ASSUME Grows, NEW r \in Refs, asked[r] # "NONE", Backed(r)
    PROVE  Backed(r)'
PROOF
<1>1. asked'[r] = asked[r]
    BY DEF Grows
<1>2. \A t : Moved(r, t) \subseteq Moved(r, t)'
    BY DEF Grows, Moved
<1> QED
    BY <1>1, <1>2 DEF Backed, Promise!Paying

LEMMA OpStays ==
    ASSUME IInv, PInv, Settles, NEW o \in DOMAIN jeko
    PROVE  /\ o \in DOMAIN jeko' /\ jeko'[o].ref = jeko[o].ref /\ jeko'[o].type = jeko[o].type
           /\ jeko[o].status # "pending" => jeko'[o].status = jeko[o].status
           /\ asked'[jeko[o].ref] = asked[jeko[o].ref]
           /\ OpKind(o)' = OpKind(o) /\ Early(o)' = Early(o)
PROOF
<1>1. /\ o \in DOMAIN jeko' /\ jeko'[o].ref = jeko[o].ref /\ jeko'[o].type = jeko[o].type
      /\ jeko[o].status # "pending" => jeko'[o].status = jeko[o].status
    BY DEF Settles, Grows
<1>2. asked'[jeko[o].ref] = asked[jeko[o].ref]
    BY OpAsked DEF Settles, Grows
<1> QED
    BY <1>1, <1>2 DEF OpKind, Early, Promise!Collecting, Promise!Paying

\* A record stays sound through any step that leaves it alone.
LEMMA SoundStays ==
    ASSUME IInv, PInv, Settles, NEW c \in Callers, NEW v, CallOK(c, v), Sound(c, v)
    PROVE  Sound(c, v)'
PROOF
<1>1. CASE Idle(v)
    BY <1>1 DEF Sound, Idle
<1>2. CASE ~Idle(v)
  <2>1. PICK r \in Refs : r = RefIn(c, v) /\ asked[r] # "NONE"
    BY <1>2, CallAsked
  <2>2. v \in Call /\ Placed(c, v) /\ Serving(c, v, r)
    BY <1>2, <2>1 DEF CallOK, Sound
  <2>3. c[1] = "hook" => v.op \in dedup /\ v.op \in DOMAIN jeko /\ jeko[v.op].status # "pending"
    BY <2>2 DEF Serving, PInv, OpsSound
  <2>4. c[1] = "hook" => /\ jeko'[v.op].ref = jeko[v.op].ref /\ jeko'[v.op].type = jeko[v.op].type
                         /\ jeko'[v.op].status = jeko[v.op].status
                         /\ Early(v.op)' = Early(v.op)
    BY <2>3, OpStays
  <2>5. RefIn(c, v)' = r
    BY <2>1, <2>4 DEF RefIn
  <2>6. asked'[r] = asked[r] /\ dedup \subseteq dedup' /\ doubt \subseteq doubt'
    BY <2>1 DEF Settles, Grows
  <2>7. Backed(r) => Backed(r)'
    BY <2>1, BackedStays DEF Settles
  <2>8. v.at \in {"get", "post", "commit"} => Changed(v, r)'
    <3>1. v.seen # NoRow /\ Final(v.seen) /\ v.at \in {"get", "post", "commit"} => HasAnswer(r)
      BY <1>2, <2>1, <2>2 DEF Serving, Changed, Placed, HasAnswer
    <3>2. v.seen # NoRow /\ Final(v.seen) /\ v.at \in {"get", "post", "commit"} => Final(row[r])'
      BY <3>1 DEF Settles, HasAnswer
    <3>3. v.at \in {"get", "post", "commit"} => Changed(v, r)
      BY <2>2 DEF Serving
    <3> QED
      BY <2>6, <3>2, <3>3 DEF Changed, LegsSound, Final
  <2>9. v.at = "commit" => Ending(c, v, r)'
    <3>1. v.at = "commit" => Ending(c, v, r)
      BY <2>2 DEF Serving
    <3> QED
      BY <2>4, <2>6, <2>7, <3>1 DEF Ending, Keeping, Failing, Succeeding, Returning
  <2>10. Serving(c, v, r)'
    BY <2>2, <2>3, <2>4, <2>6, <2>8, <2>9 DEF Serving, Keeping, Final
  <2> QED
    BY <2>5, <2>10 DEF Sound
<1> QED
    BY <1>1, <1>2

\* So does what is said of an event still to be handled, and of the call that handles it.
LEMMA AwaitedStays ==
    ASSUME IInv, PInv, Settles, NEW o \in DOMAIN jeko, Awaited(o),
           NEW r \in Refs, r = jeko[o].ref, Quiet(r)
    PROVE  Awaited(o)'
PROOF
<1>1. r = jeko[o].ref
    OBVIOUS
<1>2. jeko'[o].ref = r /\ jeko'[o].type = jeko[o].type /\ doubt \subseteq doubt'
    BY <1>1, OpStays DEF Settles
<1>3. ASSUME r \notin doubt'
      PROVE  Unsettled(r)' /\ Latest(o)'
  <2>1. Unsettled(r) /\ Latest(o)
    BY <1>1, <1>2, <1>3 DEF Awaited
  <2>2. /\ Unsettled(r)'
        /\ \A p \in DOMAIN jeko' : jeko'[p].ref = r => p \in DOMAIN jeko
    BY <1>1, <1>3, <2>1 DEF Quiet
  <2>3. \A p \in DOMAIN jeko : jeko'[p].ref = jeko[p].ref /\ jeko'[p].type = jeko[p].type
    BY OpStays
  <2> QED
    BY <1>1, <1>2, <2>1, <2>2, <2>3 DEF Latest
<1> QED
    BY <1>2, <1>3 DEF Awaited

LEMMA AloneStays ==
    ASSUME IInv, PInv, Settles, NEW c \in Callers, NEW v, CallOK(c, v), Sound(c, v), Alone(c, v),
           \A r \in Refs :
              ~Idle(v) /\ Open(v) /\ c[1] \in {"route", "hook"} /\ r = RefIn(c, v) => Quiet(r)
    PROVE  Alone(c, v)'
PROOF
<1> SUFFICES ASSUME ~Idle(v), Open(v)
             PROVE  /\ c[1] = "hook" => Awaited(v.op)'
                    /\ c[1] = "route" /\ c[2] \notin doubt' => Unsettled(c[2])' /\ NoOps(c[2])'
    BY DEF Alone, Idle, Open
<1>1. CASE c[1] = "hook"
  <2>1. PICK r \in Refs : r = RefIn(c, v) /\ Quiet(r)
    BY <1>1, CallAsked
  <2>2. v.op \in DOMAIN jeko /\ r = jeko[v.op].ref
    BY <1>1, <2>1 DEF CallOK, Placed, RefIn
  <2> QED
    BY <1>1, <2>1, <2>2, AwaitedStays DEF Alone
<1>2. CASE c[1] = "route"
  <2>1. c[2] \in Refs /\ c[2] = RefIn(c, v) /\ doubt \subseteq doubt' /\ Quiet(c[2])
    BY <1>2, CallAsked DEF RefIn, Settles
  <2>2. ASSUME c[2] \notin doubt'
        PROVE  Unsettled(c[2])' /\ NoOps(c[2])'
    <3>1. Unsettled(c[2]) /\ NoOps(c[2])
      BY <1>2, <2>1, <2>2 DEF Alone
    <3>2. /\ Unsettled(c[2])'
          /\ \A p \in DOMAIN jeko' : jeko'[p].ref = c[2] => p \in DOMAIN jeko
      BY <1>2, <2>1, <2>2, <3>1 DEF Quiet
    <3>3. \A p \in DOMAIN jeko : jeko'[p].ref = jeko[p].ref
      BY OpStays
    <3> QED
      BY <3>1, <3>2, <3>3 DEF NoOps
  <2> QED
    BY <1>2, <2>2
<1> QED
    BY <1>1, <1>2

-----------------------------------------------------------------------------
(* One thing at a time may answer a payment *)

\* The event a webhook handles.
LEMMA HookOp ==
    ASSUME IInv, PInv, NEW c \in Callers, c[1] = "hook", ~Idle(call[c])
    PROVE  /\ call[c].op \in dedup /\ call[c].op \in DOMAIN jeko /\ call[c].op # 0
           /\ jeko[call[c].op].status # "pending"
           /\ RefIn(c, call[c]) = jeko[call[c].op].ref
           /\ c[2] \in Hooks /\ c = <<"hook", c[2]>>
PROOF
<1>1. call[c].op \in dedup
    BY DEF PInv, Sound, Serving
<1>2. call[c].op \in DOMAIN jeko /\ jeko[call[c].op].status # "pending"
    BY <1>1 DEF PInv, OpsSound
<1>3. call[c].op # 0
    BY <1>2, OpType DEF IInv, Ops
<1> QED
    BY <1>1, <1>2, <1>3 DEF RefIn, Callers

\* While an open call serves a payment that is not in doubt, no other does, and no other event
\* of the payment is awaited.
LEMMA Exclusive ==
    ASSUME IInv, PInv, NEW c \in Callers, c[1] \in {"route", "hook"}, ~Idle(call[c]), Open(call[c]),
           NEW r \in Refs, r = RefIn(c, call[c]), r \notin doubt
    PROVE  /\ Unsettled(r)
           /\ c[1] = "route" => NoOps(r)
           /\ c[1] = "hook" => Latest(call[c].op)
           /\ \A d \in Callers \ {c} :
                 d[1] \in {"route", "hook"} /\ ~Idle(call[d]) /\ Open(call[d]) =>
                     RefIn(d, call[d]) # r
           /\ \A o \in (DOMAIN jeko) \ dedup : jeko[o].ref # r
PROOF
<1>1. \A d \in Callers : d[1] = "hook" /\ ~Idle(call[d]) /\ Open(call[d]) => Awaited(call[d].op)
    BY DEF PInv, Alone
<1>2. \A d \in Callers : d[1] = "route" /\ ~Idle(call[d]) /\ Open(call[d]) /\ d[2] \notin doubt =>
                            Unsettled(d[2]) /\ NoOps(d[2])
    BY DEF PInv, Alone
<1>3. CASE c[1] = "route"
  <2>1. c[2] = r /\ c = <<"route", r>>
    BY <1>3 DEF RefIn, Callers
  <2>2. Unsettled(r) /\ NoOps(r)
    BY <1>2, <1>3, <2>1
  <2>3. ASSUME NEW d \in Callers \ {c}, d[1] \in {"route", "hook"}, ~Idle(call[d]),
               RefIn(d, call[d]) = r
        PROVE  FALSE
    <3>1. CASE d[1] = "route"
      BY <2>1, <2>3, <3>1 DEF RefIn, Callers
    <3>2. CASE d[1] = "hook"
      BY <2>2, <2>3, <3>2, HookOp DEF NoOps
    <3> QED
      BY <2>3, <3>1, <3>2
  <2> QED
    BY <1>3, <2>2, <2>3 DEF NoOps
<1>4. CASE c[1] = "hook"
  <2>1. PICK o : o = call[c].op
    OBVIOUS
  <2>2. o \in dedup /\ o \in DOMAIN jeko /\ o # 0 /\ jeko[o].ref = r
    BY <1>4, <2>1, HookOp
  <2>3. Unsettled(r) /\ Latest(o)
    BY <1>1, <1>4, <2>1, <2>2 DEF Awaited
  <2>4. ASSUME NEW p \in DOMAIN jeko, jeko[p].ref = r, Awaited(p)
        PROVE  p = o
    BY <2>2, <2>3, <2>4 DEF Awaited, Latest
  <2>5. ASSUME NEW d \in Callers \ {c}, d[1] \in {"route", "hook"}, ~Idle(call[d]), Open(call[d]),
               RefIn(d, call[d]) = r
        PROVE  FALSE
    <3>1. CASE d[1] = "route"
      <4>1. NoOps(r)
        BY <1>2, <2>5, <3>1 DEF RefIn
      <4> QED
        BY <2>2, <4>1 DEF NoOps
    <3>2. CASE d[1] = "hook"
      <4>1. /\ call[d].op \in DOMAIN jeko /\ jeko[call[d].op].ref = r
            /\ c = <<"hook", c[2]>> /\ d = <<"hook", d[2]>> /\ c[2] \in Hooks /\ d[2] \in Hooks
        BY <1>4, <2>5, <3>2, HookOp
      <4>2. call[d].op = o
        BY <1>1, <2>4, <2>5, <3>2, <4>1
      <4> QED
        BY <2>1, <2>2, <2>5, <4>1, <4>2 DEF PInv, HooksApart
    <3> QED
      BY <2>5, <3>1, <3>2
  <2>6. ASSUME NEW p \in (DOMAIN jeko) \ dedup, jeko[p].ref = r
        PROVE  FALSE
    BY <2>2, <2>4, <2>6 DEF PInv
  <2> QED
    BY <1>4, <2>1, <2>3, <2>5, <2>6
<1> QED
    BY <1>3, <1>4

\* A step that replaces one record by a sound one, and is quiet to the payments of the others.
LEMMA OtherCalls ==
    ASSUME IInv, PInv, Settles, NEW c \in Callers, NEW v, Sound(c, v)', Alone(c, v)',
           call' = [call EXCEPT ![c] = v],
           \A d \in Callers \ {c}, r \in Refs :
              ~Idle(call[d]) /\ Open(call[d]) /\ d[1] \in {"route", "hook"} /\ r = RefIn(d, call[d])
                  => Quiet(r)
    PROVE  \A d \in Callers : Sound(d, call[d])' /\ Alone(d, call[d])'
PROOF
<1>1. call'[c] = v /\ \A d \in Callers \ {c} : call'[d] = call[d]
    BY DEF IInv
<1>2. ASSUME NEW d \in Callers \ {c}
      PROVE  Sound(d, call[d])' /\ Alone(d, call[d])'
  <2>1. PICK u : u = call[d]
    OBVIOUS
  <2>2. CallOK(d, u) /\ Sound(d, u) /\ Alone(d, u)
    BY <2>1 DEF IInv, PInv
  <2>3. Sound(d, u)' /\ Alone(d, u)'
    BY <2>1, <2>2, SoundStays, AloneStays
  <2> QED
    BY <1>1, <2>1, <2>3
<1>3. Sound(c, call[c])' /\ Alone(c, call[c])'
    BY <1>1
<1> QED
    BY <1>2, <1>3

\* A webhook that goes on keeps its event; one that is over has none.
LEMMA HooksStay ==
    ASSUME IInv, PInv, NEW c \in Callers, NEW v, call' = [call EXCEPT ![c] = v],
           c[1] = "hook" => v.op \in {0, call[c].op}
    PROVE  HooksApart'
PROOF
<1>1. call'[c] = v /\ \A d \in Callers \ {c} : call'[d] = call[d]
    BY DEF IInv
<1>2. ASSUME NEW h \in Hooks
      PROVE  call'[<<"hook", h>>].op \in {0, call[<<"hook", h>>].op}
  <2>1. <<"hook", h>> \in Callers
    BY DEF Callers
  <2>2. CASE c = <<"hook", h>>
    <3>1. c[1] = "hook"
      BY <2>2
    <3> QED
      BY <1>1, <2>2, <3>1
  <2>3. CASE c # <<"hook", h>>
    BY <1>1, <2>1, <2>3
  <2> QED
    BY <2>2, <2>3
<1> QED
    BY <1>2 DEF PInv, HooksApart

\* An event stays accounted for as long as its webhook goes on; when that ends it must have
\* its effect, or an exception on record, or be one that may come too early.
LEMMA EventsStay ==
    ASSUME IInv, PInv, Settles, NEW c \in Callers, NEW v, call' = [call EXCEPT ![c] = v],
           NEW o \in dedup,
           c[1] = "hook" /\ call[c].op = o /\ v.op # o =>
              \/ Early(o) \/ trouble'["failures"] > 0
              \/ \E r \in Refs : r = jeko[o].ref /\ HasAnswer(r)'
    PROVE  EventSound(o)'
PROOF
<1>1. o \in DOMAIN jeko
    BY DEF PInv, OpsSound
<1>2. PICK r \in Refs : r = jeko[o].ref
    BY <1>1, OpAsked
<1>3. jeko'[o].ref = r /\ Early(o)' = Early(o)
    BY <1>1, <1>2, OpStays
<1>4. EventSound(o)
    BY DEF PInv
<1>5. (Early(o) \/ trouble'["failures"] > 0 \/ HasAnswer(r)') => EventSound(o)'
    BY <1>3 DEF EventSound
<1>6. (Early(o) \/ trouble["failures"] > 0 \/ HasAnswer(r)) => EventSound(o)'
    BY <1>2, <1>5 DEF Settles
<1>7. ASSUME NEW h \in Hooks, call[<<"hook", h>>].op = o
      PROVE  EventSound(o)'
  <2>1. <<"hook", h>> \in Callers
    BY DEF Callers
  <2>2. CASE call'[<<"hook", h>>].op = o
    BY <2>2 DEF EventSound
  <2>3. CASE call'[<<"hook", h>>].op # o
    <3>1. c = <<"hook", h>> /\ v.op # o
      BY <1>7, <2>1, <2>3 DEF IInv
    <3> QED
      BY <1>2, <1>5, <1>7, <3>1
  <2> QED
    BY <2>2, <2>3
<1> QED
    BY <1>2, <1>4, <1>6, <1>7 DEF EventSound

\* Payments, rows, credits, operations and events stay: one call moves.
LEMMA QuietMove ==
    ASSUME IInv, PInv, UNCHANGED <<asked, row, credited, jeko, dedup, acked>>,
           doubt \subseteq doubt', trouble["failures"] > 0 => trouble'["failures"] > 0,
           NEW c \in Callers, NEW v, Sound(c, v)', Alone(c, v)',
           call' = [call EXCEPT ![c] = v],
           c[1] = "hook" => \/ v.op = call[c].op
                            \/ v.op = 0 /\ (Early(call[c].op) \/ trouble'["failures"] > 0)
    PROVE  PInv'
PROOF
<1>1. Settles
    BY DEF Settles, Grows, HasAnswer, Final
<1>2. \A r \in Refs : Quiet(r)
    BY DEF Quiet, Unsettled, Shown
<1>3. OpsSound'
    BY DEF PInv, OpsSound, OpKind, Early, Promise!Collecting, Promise!Paying
<1>4. RowsSound'
    BY DEF PInv, RowsSound, LegsSound, Final
<1>5. HooksApart'
    BY HooksStay
<1>6. \A o \in dedup : EventSound(o)'
    BY <1>1, EventsStay
<1>7. \A o \in (DOMAIN jeko) \ dedup : Awaited(o)'
    BY <1>1, <1>2, AwaitedStays, OpAsked DEF PInv
<1>8. \A d \in Callers : Sound(d, call[d])' /\ Alone(d, call[d])'
    BY <1>1, <1>2, OtherCalls
<1> QED
    BY <1>3, <1>4, <1>5, <1>6, <1>7, <1>8 DEF PInv

\* Nothing that a record relies on has changed.
LEMMA SameSound ==
    ASSUME UNCHANGED <<asked, row, credited, jeko, dedup, doubt>>, NEW c, NEW v
    PROVE  /\ Sound(c, v) => Sound(c, v)'
           /\ Alone(c, v) => Alone(c, v)'
PROOF
<1>1. \A r : Changed(v, r)' = Changed(v, r)
    BY DEF Changed, LegsSound, Final
<1>2. \A r : Ending(c, v, r)' = Ending(c, v, r)
    BY DEF Ending, Keeping, Failing, Succeeding, Returning, Backed, Moved, Promise!Paying
<1>3. \A r : Serving(c, v, r)' = Serving(c, v, r)
    BY <1>1, <1>2 DEF Serving, Keeping, Early, Final
<1>4. PICK r : r = RefIn(c, v)
    OBVIOUS
<1>5. RefIn(c, v)' = r
    BY <1>4 DEF RefIn
<1>6. Sound(c, v) => Sound(c, v)'
    BY <1>3, <1>4, <1>5 DEF Sound, Idle
<1>7. Awaited(v.op)' = Awaited(v.op)
    BY DEF Awaited, Latest, Unsettled, Shown
<1> QED
    BY <1>6, <1>7 DEF Alone, NoOps, Unsettled, Shown, Idle, Open

\* No call is under way in a record that is at rest.
LEMMA AtRest ==
    ASSUME NEW c, NEW v, Idle(v)
    PROVE  Sound(c, v) /\ Alone(c, v) /\ Sound(c, v)' /\ Alone(c, v)'
BY DEF Sound, Alone, Idle

LEMMA EndsAtRest ==
    ASSUME NEW c, NEW w
    PROVE  /\ Idle(Ended(c)) /\ Ended(c).op = 0
           /\ Idle(Rest("off", w)) /\ Rest("off", w).op = 0
BY DEF Ended, Rest, Idle

\* The record of a call that waits for the answer to its POST, and when it has got one.
LEMMA PostRecord ==
    ASSUME IInv, PInv, NEW c \in Callers, call[c].at = "post"
    PROVE  /\ call[c] \in Call /\ call[c].obj \in Row /\ ~Idle(call[c]) /\ Open(call[c])
           /\ RefIn(c, call[c]) \in Refs /\ RefOf(c) = RefIn(c, call[c])
           /\ Serving(c, call[c], RefIn(c, call[c])) /\ Alone(c, call[c])
           /\ c[1] # "route" => call[c].seen # NoRow
           /\ call[c].seen # NoRow => call[c].seen \in Row /\ row[RefIn(c, call[c])] # NoRow
           /\ Finishing(c) = [call[c] EXCEPT !.at = "commit", !.tries = 0]
           /\ Finishing(c) \in Call
PROOF
<1>1. call[c] \in Call /\ Placed(c, call[c]) /\ Sound(c, call[c]) /\ Alone(c, call[c])
    BY CallType DEF PInv
<1>2. ~Idle(call[c]) /\ Open(call[c])
    BY DEF Idle, Open
<1>3. 0 \in 0..Attempts
    BY BoundsAssumption
<1>4. Finishing(c) \in Call
    BY <1>1, <1>3 DEF Finishing, Call
<1>5. RefIn(c, call[c]) \in Refs
    BY <1>1, <1>2, RefOfCall DEF IInv
<1> QED
    BY <1>1, <1>2, <1>4, <1>5 DEF Finishing, Placed, Sound, RefOf, RefIn, Call

\* JEKO's refusal fails the payment, or returns the money of a payout.
LEMMA DeclinedSound ==
    ASSUME IInv, PInv, NEW c \in Callers, call[c].at = "post"
    PROVE  /\ Sound(c, Declined(c)) /\ Alone(c, Declined(c))
           /\ Declined(c).op = call[c].op
PROOF
<1> DEFINE u == call[c]
           rec == Finishing(c)
           v == Declined(c)
<1>1. PICK r \in Refs : r = RefIn(c, u)
    BY PostRecord
<1>2. /\ u \in Call /\ u.obj \in Row /\ Serving(c, u, r) /\ Alone(c, u) /\ Open(u) /\ ~Idle(u)
      /\ u.at = "post" /\ u.credit = 0 /\ Keeping(u) /\ Changed(u, r)
    BY <1>1, PostRecord DEF Serving, Keeping
<1>3. /\ rec \in Call /\ rec.at = "commit" /\ rec.obj = u.obj /\ rec.op = u.op
      /\ rec.seen = u.seen /\ rec.credit = 0
    BY <1>2, PostRecord DEF Call
<1> HIDE DEF rec
<1>4. CASE c[1] # "route"
  <2>1. v = [rec EXCEPT !.obj.payout = "FAILED", !.obj.status = "FAILED_PAYOUT", !.credit = 1]
    BY <1>4 DEF Declined, PayoutDeclined, rec
  <2>2. /\ v.at = "commit" /\ v.op = u.op /\ v.seen = u.seen /\ v.credit = 1
        /\ v.obj.status = "FAILED_PAYOUT"
    <3>1. v.at = "commit" /\ v.op = u.op /\ v.seen = u.seen /\ v.credit = 1
      BY <1>3, <2>1 DEF Call
    <3>2. v.obj = [u.obj EXCEPT !.payout = "FAILED", !.status = "FAILED_PAYOUT"]
      BY <1>3, <2>1 DEF Call
    <3> QED
      BY <1>2, <3>1, <3>2 DEF Row
  <2>3. asked[r] = "TRANSFER" /\ u.seen # NoRow
    BY <1>1, <1>2, <1>4, PostRecord DEF Serving
  <2>4. Changed(v, r)
    BY <1>2, <2>2, <2>3 DEF Changed, LegsSound, Final, TerminalStatuses
  <2>5. Returning(c, v, r) /\ Final(v.obj)
    BY <1>2, <1>4, <2>2, <2>3 DEF Returning, Final, TerminalStatuses, Serving
  <2>6. Serving(c, v, r)
    BY <1>2, <1>4, <2>2, <2>4, <2>5 DEF Serving, Ending
  <2>7. RefIn(c, v) = r
    BY <1>1, <2>2 DEF RefIn
  <2>8. Alone(c, v)
    BY <1>2, <1>4, <2>2 DEF Alone
  <2> QED
    BY <2>2, <2>6, <2>7, <2>8 DEF Sound
<1>5. CASE c[1] = "route"
  <2>1. /\ v.at = "commit" /\ v.op = u.op /\ v.seen = u.seen /\ v.credit = 0
        /\ v.obj.status = "FAILED" /\ v.obj.payout = u.obj.payout
    <3>1. CASE asked[c[2]] = "TRANSFER"
      <4>1. v = [rec EXCEPT !.obj.payin = "FAILED", !.obj.status = "FAILED"]
        BY <1>5, <3>1 DEF Declined, TransferDeclined, rec
      <4>2. v.at = "commit" /\ v.op = u.op /\ v.seen = u.seen /\ v.credit = 0
        BY <1>3, <4>1 DEF Call
      <4>3. v.obj = [u.obj EXCEPT !.payin = "FAILED", !.status = "FAILED"]
        BY <1>3, <4>1 DEF Call
      <4> QED
        BY <1>2, <4>2, <4>3 DEF Row
    <3>2. CASE asked[c[2]] # "TRANSFER"
      <4>1. v = [rec EXCEPT !.obj.status = "FAILED"]
        BY <1>5, <3>2 DEF Declined, CashDeclined, rec
      <4> QED
        BY <1>2, <1>3, <4>1 DEF Call, Row
    <3> QED
      BY <3>1, <3>2
  <2>2. /\ asked[r] \in {"TRANSFER", "CASH_IN", "CASH_OUT"}
        /\ asked[r] = "TRANSFER" <=> u.seen = NoRow
    BY <1>2, <1>5 DEF Serving
  <2>3. Changed(v, r)
    BY <1>2, <2>1, <2>2 DEF Changed, LegsSound, Final, TerminalStatuses
  <2>4. Failing(c, v)
    BY <1>5, <2>1 DEF Failing
  <2>5. Serving(c, v, r)
    BY <1>2, <1>5, <2>1, <2>3, <2>4 DEF Serving, Ending
  <2>6. RefIn(c, v) = r
    BY <1>1, <2>1 DEF RefIn
  <2>7. Alone(c, v)
    BY <1>2, <1>5, <2>1 DEF Alone
  <2> QED
    BY <2>1, <2>5, <2>6, <2>7 DEF Sound
<1> QED
    BY <1>4, <1>5

-----------------------------------------------------------------------------
(* The handlers *)

\* What a handler makes of a row that was read, for the status of one of its operations.
LEMMA HandledShape ==
    ASSUME IInv, PInv, NEW c \in Callers, c[1] # "route", NEW rec \in Call,
           NEW o \in DOMAIN jeko, jeko[o].status # "pending", NEW r \in Refs, r = jeko[o].ref,
           rec.seen \in Row, rec.obj = rec.seen, rec.credit = 0, c[1] = "hook" => rec.op = o,
           LegsSound(asked[r], rec.seen), Final(rec.seen) => Final(row[r])
    PROVE  LET v == Handled(rec, o) IN
           /\ v.at \in {"post", "commit"} /\ v.op = rec.op /\ v.seen = rec.seen
           /\ Changed(v, r)
           /\ v.at = "post" => Keeping(v) /\ asked[r] = "TRANSFER" /\ jeko[o].type = "payment"
           /\ v.at = "commit" => Ending(c, v, r) /\ (Early(o) \/ Final(v.obj))
PROOF
<1> DEFINE v == Handled(rec, o)
           k == asked[r]
           old == rec.seen
<1>1. /\ jeko[o] \in Operation /\ jeko[o].type \in {"payment", "transfer"}
      /\ jeko[o].status \in {"success", "error"} /\ old # NoRow
    BY OpType, NoRowAssumption DEF IInv, Operation
<1>2. k \in IF jeko[o].type = "payment" THEN {"TRANSFER", "DEPOSIT", "CASH_OUT"}
                                        ELSE {"TRANSFER", "WITHDRAWAL", "CASH_IN"}
    BY DEF PInv, OpsSound, OpKind, Promise!Collecting, Promise!Paying
<1>3. Good(o) <=> jeko[o].status = "success"
    BY DEF Good
<1>4. jeko[o].status = "success" => o \in Moved(r, jeko[o].type)
    BY DEF Moved
\* The leg is final already: nothing is changed.
<1>5. ASSUME v = [rec EXCEPT !.at = "commit"], Early(o) \/ Final(old)
      PROVE  /\ v.at = "commit" /\ v.op = rec.op /\ v.seen = rec.seen
             /\ Changed(v, r) /\ Ending(c, v, r) /\ (Early(o) \/ Final(v.obj))
  <2>1. v.at = "commit" /\ v.op = rec.op /\ v.seen = old /\ v.obj = old /\ v.credit = 0
    BY <1>5 DEF Call
  <2> QED
    BY <1>1, <1>5, <2>1 DEF Changed, Ending, Keeping
<1>6. CASE Leg(o) = "IN"
  <2>1. /\ jeko[o].type = "payment" /\ k \in {"TRANSFER", "DEPOSIT"}
        /\ v = PayinHandled(rec, k, Good(o))
    BY <1>2, <1>6 DEF Leg, Handled
  <2>2. CASE old.payin \in TerminalLeg
    <3>1. v = [rec EXCEPT !.at = "commit"]
      BY <2>1, <2>2 DEF PayinHandled
    <3>2. Early(o) \/ Final(old)
      BY <2>1, <2>2 DEF Early, LegsSound
    <3> QED
      BY <1>5, <3>1, <3>2
  <2>3. CASE old.payin \notin TerminalLeg /\ ~Good(o)
    <3>1. v = [rec EXCEPT !.at = "commit", !.obj.payin = "FAILED", !.obj.status = "FAILED"]
      BY <2>1, <2>3 DEF PayinHandled
    <3>2. v.at = "commit" /\ v.op = rec.op /\ v.seen = old /\ v.credit = 0
      BY <3>1 DEF Call
    <3>3. v.obj = [old EXCEPT !.payin = "FAILED", !.status = "FAILED"]
      BY <3>1 DEF Call
    <3>4. /\ v.obj.status = "FAILED" /\ Final(v.obj) /\ v.obj.payin \in TerminalLeg
          /\ LegsSound(k, v.obj)
      BY <3>3 DEF Row, Final, TerminalStatuses, TerminalLeg, LegsSound
    <3>5. Changed(v, r)
      BY <1>1, <2>3, <3>2, <3>4 DEF Changed, LegsSound
    <3>6. Failing(c, v)
      BY <1>1, <1>3, <2>1, <2>3, <3>2, <3>4 DEF Failing
    <3> QED
      BY <3>2, <3>4, <3>5, <3>6 DEF Ending
  <2>4. CASE old.payin \notin TerminalLeg /\ Good(o) /\ k = "DEPOSIT"
    <3>1. v = [rec EXCEPT !.at = "commit", !.obj.payin = "SUCCESS", !.obj.status = "SUCCESS",
                          !.credit = 1]
      BY <2>1, <2>4 DEF PayinHandled
    <3>2. v.at = "commit" /\ v.op = rec.op /\ v.seen = old /\ v.credit = 1
      BY <3>1 DEF Call
    <3>3. v.obj = [old EXCEPT !.payin = "SUCCESS", !.status = "SUCCESS"]
      BY <3>1 DEF Call
    <3>4. /\ v.obj.status = "SUCCESS" /\ Final(v.obj) /\ v.obj.payin \in TerminalLeg
          /\ LegsSound(k, v.obj)
      BY <3>3 DEF Row, Final, TerminalStatuses, TerminalLeg, LegsSound
    <3>5. Changed(v, r)
      BY <1>1, <2>4, <3>2, <3>4 DEF Changed, LegsSound
    <3>6. Backed(r) /\ old.status # "SUCCESS"
      BY <1>3, <1>4, <2>1, <2>4 DEF Backed, Promise!Paying, LegsSound, Final, TerminalStatuses
    <3>7. Succeeding(v, r)
      BY <1>1, <2>4, <3>2, <3>4, <3>6 DEF Succeeding
    <3> QED
      BY <3>2, <3>4, <3>5, <3>7 DEF Ending
  <2>5. CASE old.payin \notin TerminalLeg /\ Good(o) /\ k # "DEPOSIT"
    <3>1. v = [rec EXCEPT !.at = "post", !.obj.payin = "SUCCESS"]
      BY <2>1, <2>5 DEF PayinHandled
    <3>2. v.at = "post" /\ v.op = rec.op /\ v.seen = old /\ v.credit = 0
      BY <3>1 DEF Call
    <3>3. v.obj = [old EXCEPT !.payin = "SUCCESS"]
      BY <3>1 DEF Call
    <3>4. v.obj.status = old.status /\ v.obj.payout = old.payout
      BY <3>3 DEF Row
    <3>5. Changed(v, r)
      BY <1>1, <2>5, <3>2, <3>4 DEF Changed, LegsSound, Final
    <3> QED
      BY <1>1, <2>1, <2>5, <3>2, <3>4, <3>5 DEF Keeping
  <2> QED
    BY <2>2, <2>3, <2>4, <2>5
<1>7. CASE Leg(o) # "IN"
  <2>1. /\ jeko[o].type = "transfer" \/ k = "CASH_OUT"
        /\ k # "DEPOSIT" /\ v = PayoutHandled(rec, k, Good(o))
    BY <1>1, <1>2, <1>7 DEF Leg, Handled
  <2>2. CASE old.payout \in TerminalLeg
    <3>1. v = [rec EXCEPT !.at = "commit"]
      BY <2>1, <2>2 DEF PayoutHandled
    <3>2. Final(old)
      BY <2>2 DEF LegsSound
    <3> QED
      BY <1>5, <3>1, <3>2
  <2>3. CASE old.payout \notin TerminalLeg /\ Good(o)
    <3>1. v = [rec EXCEPT !.at = "commit", !.obj.payout = "SUCCESS", !.obj.status = "SUCCESS"]
      BY <2>1, <2>3 DEF PayoutHandled
    <3>2. v.at = "commit" /\ v.op = rec.op /\ v.seen = old /\ v.credit = 0
      BY <3>1 DEF Call
    <3>3. v.obj = [old EXCEPT !.payout = "SUCCESS", !.status = "SUCCESS"]
      BY <3>1 DEF Call
    <3>4. v.obj.status = "SUCCESS" /\ Final(v.obj)
      BY <3>3 DEF Row, Final, TerminalStatuses
    <3>5. Changed(v, r)
      BY <1>1, <2>1, <3>2, <3>4 DEF Changed, LegsSound
    <3>6. Backed(r)
      BY <1>2, <1>3, <1>4, <2>1, <2>3 DEF Backed, Promise!Paying
    <3>7. Succeeding(v, r)
      BY <2>1, <3>2, <3>4, <3>6 DEF Succeeding
    <3> QED
      BY <3>2, <3>4, <3>5, <3>7 DEF Ending
  <2>4. CASE old.payout \notin TerminalLeg /\ ~Good(o)
    <3>0. PICK s : s = IF k = "TRANSFER" THEN "FAILED_PAYOUT" ELSE "FAILED"
      OBVIOUS
    <3>1. v = [rec EXCEPT !.at = "commit", !.obj.payout = "FAILED", !.credit = 1, !.obj.status = s]
      BY <2>1, <2>4, <3>0 DEF PayoutHandled
    <3>2. v.at = "commit" /\ v.op = rec.op /\ v.seen = old /\ v.credit = 1
      BY <3>1 DEF Call
    <3>3. v.obj = [old EXCEPT !.payout = "FAILED", !.status = s]
      BY <3>1 DEF Call
    <3>4. v.obj.status = s /\ Final(v.obj)
      BY <3>0, <3>3 DEF Row, Final, TerminalStatuses
    <3>5. Changed(v, r)
      BY <1>1, <2>1, <3>2, <3>4 DEF Changed, LegsSound
    <3>6. Returning(c, v, r)
      BY <1>1, <1>3, <2>1, <2>4, <3>0, <3>2, <3>4 DEF Returning
    <3> QED
      BY <3>2, <3>4, <3>5, <3>6 DEF Ending
  <2> QED
    BY <2>2, <2>3, <2>4
<1> QED
    BY <1>6, <1>7

-----------------------------------------------------------------------------
(* The steps that move one call only *)

\* A refusal by JEKO.
LEMMA RefusedKept ==
    ASSUME IInv, PInv, NEW c \in Callers, Refused(c)
    PROVE  PInv'
PROOF
<1>1. PICK v : v = Declined(c)
    OBVIOUS
<1>2. call[c].at = "post" /\ call' = [call EXCEPT ![c] = v]
    BY <1>1 DEF Refused
<1>3. Sound(c, v) /\ Alone(c, v) /\ v.op = call[c].op /\ CallOK(c, v)
    BY <1>1, <1>2, DeclinedSound, DeclinedOK
<1>4. UNCHANGED <<asked, row, credited, jeko, dedup, acked, doubt, trouble>>
    BY DEF Refused
<1>5. Settles /\ \A r \in Refs : Quiet(r)
    BY <1>4 DEF Settles, Grows, HasAnswer, Final, Quiet, Unsettled, Shown
<1>6. Sound(c, v)' /\ Alone(c, v)'
    BY <1>3, <1>5, SoundStays, AloneStays
<1> QED
    BY <1>2, <1>3, <1>4, <1>6, QuietMove

\* Calls that fail or are cut off.
LEMMA EndsKept ==
    ASSUME IInv, PInv, NEW c \in Callers, CheckFails(c) \/ Cut(c)
    PROVE  PInv'
PROOF
<1>1. PICK v : Idle(v) /\ v.op = 0 /\ call' = [call EXCEPT ![c] = v]
    BY EndsAtRest DEF CheckFails, Cut, End
<1>2. Sound(c, v)' /\ Alone(c, v)'
    BY <1>1, AtRest
<1>3. UNCHANGED <<asked, row, credited, jeko, dedup, acked, doubt>>
    BY DEF CheckFails, Cut
<1>4. CASE CheckFails(c)
  <2>1. c[1] # "hook"
    BY <1>4, CallType DEF CheckFails, Placed
  <2>2. trouble'["failures"] = trouble["failures"]
    BY <1>4 DEF CheckFails, Trouble, IInv, Typed, Troubles
  <2> QED
    BY <1>1, <1>2, <1>3, <2>1, <2>2, QuietMove
<1>5. CASE Cut(c)
  <2>1. trouble'["failures"] > 0
    BY <1>5 DEF Cut, Trouble, IInv, Typed, Troubles
  <2> QED
    BY <1>1, <1>2, <1>3, <2>1, QuietMove
<1> QED
    BY <1>4, <1>5

\* A webhook reads its row.
LEMMA ReadRowKept ==
    ASSUME IInv, PInv, NEW c \in Callers, ReadRow(c)
    PROVE  PInv'
PROOF
<1> DEFINE u == call[c]
           o == call[c].op
<1>1. /\ u \in Call /\ u.at = "read" /\ c[1] = "hook" /\ ~Idle(u) /\ Open(u)
      /\ Sound(c, u) /\ Alone(c, u)
    BY CallType DEF ReadRow, Placed, Idle, Open, PInv
<1>2. PICK r \in Refs : /\ r = jeko[o].ref /\ r = RefIn(c, u)
                        /\ o \in DOMAIN jeko /\ o \in dedup /\ jeko[o].status # "pending"
    BY <1>1, HookOp, OpAsked
<1>3. Serving(c, u, r) /\ u.credit = 0 /\ (r \notin doubt => Unsettled(r))
    BY <1>1, <1>2 DEF Sound, Serving, Alone, Awaited
<1>4. UNCHANGED <<asked, row, credited, jeko, dedup, acked, doubt, trouble>>
    BY DEF ReadRow
<1>5. CASE row[r] = NoRow
  <2>1. Early(o)
    BY <1>2, <1>5 DEF PInv, OpsSound
  <2>2. PICK v : call' = [call EXCEPT ![c] = v] /\ Idle(v) /\ v.op = 0
    BY <1>2, <1>5, EndsAtRest DEF ReadRow, End
  <2>3. Sound(c, v)' /\ Alone(c, v)'
    BY <2>2, AtRest
  <2> QED
    BY <1>4, <2>1, <2>2, <2>3, QuietMove
<1>6. CASE row[r] # NoRow
  <2> DEFINE rec == [u EXCEPT !.seen = row[r], !.obj = row[r]]
  <2>0. PICK v : v = Handled(rec, o)
    OBVIOUS
  <2>1. row[r] \in Row
    BY <1>6 DEF IInv, Typed
  <2>2. /\ rec \in Call /\ rec.op = o /\ rec.credit = 0
        /\ rec.seen = row[r] /\ rec.obj = row[r]
    BY <1>1, <1>3, <2>1 DEF Call
  <2> HIDE DEF rec
  <2>3. LegsSound(asked[r], rec.seen)
    BY <1>6, <2>2 DEF PInv, RowsSound
  <2>4. /\ v.at \in {"post", "commit"} /\ v.op = o /\ v.seen = row[r]
        /\ Changed(v, r)
        /\ v.at = "post" => Keeping(v) /\ asked[r] = "TRANSFER" /\ jeko[o].type = "payment"
        /\ v.at = "commit" => Ending(c, v, r) /\ (Early(o) \/ Final(v.obj))
    BY <1>1, <1>2, <2>0, <2>1, <2>2, <2>3, HandledShape
  <2>5. call' = [call EXCEPT ![c] = v]
    BY <1>2, <1>6, <2>0 DEF ReadRow, rec
  <2>6. r \notin doubt => row[r].status = "PENDING"
    BY <1>3, <1>6 DEF Unsettled, Shown
  <2>7. Serving(c, v, r)
    BY <1>1, <1>2, <2>4, <2>6 DEF Serving
  <2>8. RefIn(c, v) = r
    BY <1>1, <1>2, <2>4 DEF RefIn
  <2>9. Sound(c, v) /\ Alone(c, v)
    BY <1>1, <2>4, <2>7, <2>8 DEF Sound, Alone
  <2>10. Sound(c, v)' /\ Alone(c, v)'
    BY <1>4, <2>9, SameSound
  <2> QED
    BY <1>4, <2>4, <2>5, <2>10, QuietMove
<1> QED
    BY <1>5, <1>6

\* Reconciliation handles the status JEKO has answered with: the payment is in doubt.
LEMMA CheckKept ==
    ASSUME IInv, PInv, NEW c \in Callers, Check(c)
    PROVE  PInv'
PROOF
<1> DEFINE u == call[c]
           o == call[c].op
<1>1. PICK r : r = c[2]
    OBVIOUS
<1>2. /\ u \in Call /\ u.at = "get" /\ c[1] \in {"task", "cli"} /\ ~Idle(u)
      /\ o \in DOMAIN jeko /\ jeko[o].ref = r /\ u.seen \in Row /\ r \in Refs
      /\ RefIn(c, u) = r /\ RefOf(c) = r
    BY <1>1, CallType, OpAsked DEF Check, Placed, Idle, RefIn, RefOf
<1>3. Serving(c, u, r)
    BY <1>2 DEF PInv, Sound
<1>4. UNCHANGED <<asked, row, credited, jeko, dedup, acked, trouble>>
    BY DEF Check
<1>5. CASE jeko[o].status = "pending"
  <2>1. PICK v : call' = [call EXCEPT ![c] = v] /\ Idle(v) /\ v.op = 0
    BY <1>5, EndsAtRest DEF Check, End
  <2>2. Sound(c, v)' /\ Alone(c, v)' /\ doubt' = doubt
    BY <1>5, <2>1, AtRest DEF Check
  <2> QED
    BY <1>2, <1>4, <2>1, <2>2, QuietMove
<1>6. CASE jeko[o].status # "pending"
  <2>0. PICK v : v = Handled(u, o)
    OBVIOUS
  <2>1. call' = [call EXCEPT ![c] = v] /\ doubt' = doubt \cup {r}
    BY <1>2, <1>6, <2>0 DEF Check
  <2>2. u.obj = u.seen /\ u.credit = 0 /\ Changed(u, r)
    BY <1>2, <1>3 DEF Serving
  <2>3. LegsSound(asked[r], u.seen) /\ (Final(u.seen) => Final(row[r]))
    BY <1>2, <2>2, NoRowAssumption DEF Changed
  <2>4. /\ v.at \in {"post", "commit"} /\ v.op = o /\ v.seen = u.seen
        /\ Changed(v, r)
        /\ v.at = "post" => Keeping(v) /\ asked[r] = "TRANSFER" /\ jeko[o].type = "payment"
        /\ v.at = "commit" => Ending(c, v, r) /\ (Early(o) \/ Final(v.obj))
    BY <1>2, <1>6, <2>0, <2>2, <2>3, HandledShape
  <2>5. Changed(v, r)' /\ Ending(c, v, r)' = Ending(c, v, r)
    BY <1>4, <2>4 DEF Changed, LegsSound, Final, Ending, Keeping, Failing, Succeeding, Returning,
                      Backed, Moved, Promise!Paying
  <2>6. Serving(c, v, r)'
    BY <1>2, <1>4, <2>1, <2>4, <2>5 DEF Serving, Keeping
  <2>7. RefIn(c, v)' = r
    BY <1>1, <1>2 DEF RefIn
  <2>8. Sound(c, v)' /\ Alone(c, v)'
    BY <1>2, <2>6, <2>7 DEF Sound, Alone
  <2>9. doubt \subseteq doubt'
    BY <2>1
  <2> QED
    BY <1>2, <1>4, <2>1, <2>8, <2>9, QuietMove
<1> QED
    BY <1>5, <1>6

\* The task or the command line reads a row.
LEMMA LookSound ==
    ASSUME IInv, PInv, NEW r \in Refs, NEW c \in Callers, c[1] \in {"task", "cli"}, c[2] = r,
           Idle(call[c]), row[r] # NoRow, Look(c, r)
    PROVE  \E v : Sound(c, v) /\ Alone(c, v) /\ call' = [call EXCEPT ![c] = v]
PROOF
<1> DEFINE rec == [call[c] EXCEPT !.wakes = @ + 1]
<1>1. PICK o : o = ToCheck(asked[r], row[r])
    OBVIOUS
<1>2. rec \in Call /\ rec.at = call[c].at /\ rec.credit = 0
  <2>1. call[c] \in Call /\ call[c].wakes + 1 \in Nat
    BY CallType DEF Call
  <2>2. call[c] = Rest(call[c].at, call[c].wakes)
    BY CallType DEF Placed
  <2>3. call[c].credit = 0
    BY <2>2 DEF Rest
  <2> QED
    BY <2>1, <2>3 DEF Call
<1> HIDE DEF rec
<1>3. CASE o # 0
  <2>1. PICK v : v = [rec EXCEPT !.at = "get", !.op = o, !.seen = row[r], !.obj = row[r]]
    OBVIOUS
  <2>2. v.at = "get" /\ v.seen = row[r] /\ v.obj = row[r] /\ v.credit = 0
    BY <1>2, <2>1 DEF Call
  <2>3. call' = [call EXCEPT ![c] = v]
    BY <1>1, <1>3, <2>1 DEF Look, rec
  <2>4. Changed(v, r)
    BY <2>2 DEF Changed, PInv, RowsSound
  <2>5. Serving(c, v, r) /\ RefIn(c, v) = r
    BY <2>2, <2>4 DEF Serving, RefIn
  <2> QED
    BY <2>2, <2>3, <2>5 DEF Sound, Alone, Open
<1>4. CASE o = 0
  <2>1. PICK v : v \in {rec, Rest("off", rec.wakes)} /\ call' = [call EXCEPT ![c] = v]
    BY <1>1, <1>4 DEF Look, rec
  <2>2. Idle(v)
    BY <1>2, <2>1 DEF Idle, Rest
  <2> QED
    BY <2>1, <2>2, AtRest
<1> QED
    BY <1>3, <1>4

LEMMA WakeKept ==
    ASSUME IInv, PInv, NEW r \in Refs, Wake(r)
    PROVE  PInv'
PROOF
<1>0. <<"task", r>> \in Callers
    BY DEF Callers
<1>1. PICK c \in Callers : c = <<"task", r>> /\ c[1] = "task" /\ c[2] = r
    BY <1>0
<1>2. Idle(call[c]) /\ row[r] # NoRow
    BY <1>1, CallType DEF Wake, Placed, Idle
<1>3. PICK v : Sound(c, v) /\ Alone(c, v) /\ call' = [call EXCEPT ![c] = v]
  <2>1. CASE row[r].status \in TerminalStatuses
    BY <1>1, <2>1, EndsAtRest, AtRest DEF Wake
  <2>2. CASE row[r].status \notin TerminalStatuses
    BY <1>1, <1>2, <2>2, LookSound DEF Wake
  <2> QED
    BY <2>1, <2>2
<1>4. UNCHANGED <<asked, row, credited, jeko, dedup, acked, doubt, trouble>>
    BY DEF Wake
<1>5. Sound(c, v)' /\ Alone(c, v)'
    BY <1>3, <1>4, SameSound
<1> QED
    BY <1>1, <1>3, <1>4, <1>5, QuietMove

LEMMA ManualKept ==
    ASSUME IInv, PInv, NEW r \in Refs, Manual(r)
    PROVE  PInv'
PROOF
<1>0. <<"cli", r>> \in Callers
    BY DEF Callers
<1>1. PICK c \in Callers : c = <<"cli", r>> /\ c[1] = "cli" /\ c[2] = r
    BY <1>0
<1>2. PICK v : Sound(c, v) /\ Alone(c, v) /\ call' = [call EXCEPT ![c] = v]
    BY <1>1, LookSound DEF Manual, Idle
<1>3. UNCHANGED <<asked, row, credited, jeko, dedup, acked, doubt, trouble>>
    BY DEF Manual
<1>4. Sound(c, v)' /\ Alone(c, v)'
    BY <1>2, <1>3, SameSound
<1> QED
    BY <1>1, <1>2, <1>3, <1>4, QuietMove

-----------------------------------------------------------------------------
(* The steps in which JEKO accepts an operation *)

\* A new operation leaves the payments of the others alone.
LEMMA AcceptSettles ==
    ASSUME IInv, PInv, NEW op \in Operation, Accept(op),
           \A r \in Refs : asked[r] # "NONE" => asked'[r] = asked[r] /\ row'[r] = row[r],
           \A r \in Refs : row[r] # NoRow => row'[r] = row[r],
           UNCHANGED <<credited, dedup>>,
           doubt \subseteq doubt', trouble["failures"] > 0 => trouble'["failures"] > 0
    PROVE  /\ Settles
           /\ \A r \in Refs : r # op.ref /\ row'[r] = row[r] => Quiet(r)
PROOF
<1>1. /\ DOMAIN jeko' = DOMAIN jeko \cup {Len(jeko) + 1} /\ jeko'[Len(jeko) + 1] = op
      /\ \A o \in DOMAIN jeko : jeko'[o] = jeko[o]
    BY Accepts DEF IInv
<1>2. Grows
    BY <1>1 DEF Grows
<1>3. Settles
    BY <1>1, <1>2 DEF Settles, HasAnswer, Final
<1> QED
    BY <1>1, <1>3 DEF Quiet, Unsettled, Shown

\* What JEKO accepts from a call that waits for its answer.
LEMMA PostedKept ==
    ASSUME IInv, PInv, NEW c \in Callers, call[c].at = "post", Accept(Posts(c)),
           UNCHANGED <<asked, row, credited, dedup, acked>>, doubt \subseteq doubt',
           trouble["failures"] > 0 => trouble'["failures"] > 0,
           NEW v, Sound(c, v)', Alone(c, v)', call' = [call EXCEPT ![c] = v],
           c[1] = "hook" => v.op = call[c].op
    PROVE  PInv'
PROOF
<1>0. PICK op, r, id : op = Posts(c) /\ r = RefOf(c) /\ id = Len(jeko) + 1
    OBVIOUS
<1>1. /\ op \in Operation /\ Accept(op) /\ op.ref = r /\ r \in Refs /\ r = RefIn(c, call[c])
    BY <1>0, PostsType
<1>2. /\ DOMAIN jeko' = DOMAIN jeko \cup {id} /\ jeko'[id] = op
      /\ \A o \in DOMAIN jeko : jeko'[o] = jeko[o]
      /\ id \notin DOMAIN jeko
    BY <1>0, <1>1, Accepts DEF IInv
<1>3. Settles /\ \A p \in Refs : p # r => Quiet(p)
    BY <1>1, AcceptSettles
<1>4. Serving(c, call[c], r) /\ Open(call[c]) /\ ~Idle(call[c])
    BY <1>1, PostRecord
<1>5. r \notin doubt => c[1] \in {"route", "hook"}
    BY <1>4 DEF Serving, Callers
\* Either the payment is in doubt, or nothing else serves it.
<1>6. \/ r \in doubt'
      \/ /\ r \notin doubt
         /\ \A d \in Callers \ {c} :
               d[1] \in {"route", "hook"} /\ ~Idle(call[d]) /\ Open(call[d]) =>
                   RefIn(d, call[d]) # r
         /\ \A o \in (DOMAIN jeko) \ dedup : jeko[o].ref # r
    BY <1>1, <1>4, <1>5, Exclusive
<1>7. r \in doubt' => Quiet(r)
    BY DEF Quiet
<1>8. Awaited(id)'
  <2>1. ASSUME r \notin doubt'
        PROVE  Unsettled(r)' /\ Latest(id)'
    <3>1. /\ r \notin doubt /\ Unsettled(r) /\ (c[1] = "route" => NoOps(r))
          /\ (c[1] = "hook" => Latest(call[c].op)) /\ c[1] \in {"route", "hook"}
      BY <1>1, <1>4, <1>5, <2>1, Exclusive
    <3>2. Unsettled(r)'
      BY <3>1 DEF Unsettled, Shown
    <3>3. CASE c[1] = "route"
      BY <1>1, <1>2, <3>1, <3>2, <3>3 DEF Latest, NoOps
    <3>4. CASE c[1] = "hook"
      <4>1. op.type = "transfer"
        BY <1>0, <3>4 DEF Posts, Withdrawal
      <4>2. /\ call[c].op \in DOMAIN jeko /\ jeko[call[c].op].ref = r
            /\ jeko[call[c].op].type = "payment"
        BY <1>1, <1>4, <3>4, HookOp DEF Serving
      <4>3. \A p \in DOMAIN jeko : jeko[p].ref = r => jeko[p].type = "payment"
        BY <3>1, <3>4, <4>2 DEF Latest
      <4> QED
        BY <1>1, <1>2, <3>2, <4>1, <4>3 DEF Latest
    <3> QED
      BY <3>1, <3>2, <3>3, <3>4
  <2> QED
    BY <1>1, <1>2, <2>1 DEF Awaited
<1>9. OpsSound'
  <2>1. asked[r] # "NONE"
    BY <1>1, <1>4, CallAsked, CallType DEF PInv
  <2>2. OpKind(id)' /\ (Early(id)' \/ row'[r] # NoRow)
    <3>1. CASE c[1] = "route"
      <4>1. c[2] = r /\ asked[r] \in {"TRANSFER", "CASH_IN", "CASH_OUT"}
        BY <1>1, <1>4, <3>1 DEF Serving, RefIn
      <4>2. op.type = IF asked[r] \in {"TRANSFER", "CASH_OUT"} THEN "payment" ELSE "transfer"
        BY <1>0, <3>1, <4>1 DEF Posts, PaymentRequest, Withdrawal
      <4>3. asked[r] # "TRANSFER" => row[r] # NoRow
        BY <1>1, <1>4, <3>1, PostRecord DEF Serving
      <4> QED
        BY <1>1, <1>2, <4>1, <4>2, <4>3 DEF OpKind, Early, Promise!Collecting, Promise!Paying
    <3>2. CASE c[1] # "route"
      <4>1. asked[r] = "TRANSFER" /\ op.type = "transfer" /\ row[r] # NoRow
        BY <1>0, <1>1, <1>4, <3>2, PostRecord DEF Serving, Posts, Withdrawal
      <4> QED
        BY <1>1, <1>2, <4>1 DEF OpKind, Promise!Paying
    <3> QED
      BY <3>1, <3>2
  <2>3. \A o \in DOMAIN jeko : OpKind(o)' /\ (Early(o)' \/ row'[jeko'[o].ref] # NoRow)
    BY <1>2, <1>3, OpStays DEF PInv, OpsSound
  <2> QED
    BY <1>1, <1>2, <2>2, <2>3 DEF PInv, OpsSound
<1>10. RowsSound'
    BY DEF PInv, RowsSound, LegsSound, Final
<1>11. HooksApart'
    BY HooksStay
<1>12. \A o \in dedup : EventSound(o)'
    BY <1>3, EventsStay
<1>13. \A o \in (DOMAIN jeko) \ dedup : Awaited(o)'
  <2>1. ASSUME NEW o \in (DOMAIN jeko) \ dedup
        PROVE  Awaited(o)'
    <3>1. PICK p \in Refs : p = jeko[o].ref
      BY <2>1, OpAsked
    <3>2. Quiet(p) /\ Awaited(o)
      BY <1>3, <1>6, <1>7, <3>1 DEF PInv
    <3> QED
      BY <1>3, <3>1, <3>2, AwaitedStays
  <2> QED
    BY <2>1
<1>14. \A d \in Callers : Sound(d, call[d])' /\ Alone(d, call[d])'
    BY <1>3, <1>6, <1>7, OtherCalls
<1> QED
    BY <1>2, <1>8, <1>9, <1>10, <1>11, <1>12, <1>13, <1>14 DEF PInv

\* The id of the operation is recorded: the payment still awaits its events.
LEMMA AnsweredKept ==
    ASSUME IInv, PInv, NEW c \in Callers, Answered(c)
    PROVE  PInv'
PROOF
<1>0. PICK r, id : r = RefOf(c) /\ id = Len(jeko) + 1
    OBVIOUS
<1> DEFINE rec == Finishing(c)
           u == call[c]
<1>1. /\ u.at = "post" /\ Posts(c) \in Operation /\ Posts(c).ref = r /\ Accept(Posts(c))
      /\ r \in Refs /\ r = RefIn(c, u)
      /\ UNCHANGED <<asked, row, credited, dedup, acked, doubt, trouble>>
    BY <1>0, PostsType DEF Answered
<1>2. Settles
    BY <1>1, AcceptSettles
<1>3. PICK v : v = Accepted(c, id)
    OBVIOUS
<1>4. /\ u \in Call /\ u.obj \in Row /\ Serving(c, u, r) /\ Keeping(u) /\ Changed(u, r)
      /\ ~Idle(u) /\ rec = [u EXCEPT !.at = "commit", !.tries = 0] /\ rec \in Call
    BY <1>1, PostRecord DEF Serving
<1>5. rec.at = "commit" /\ rec.obj = u.obj /\ rec.op = u.op /\ rec.seen = u.seen /\ rec.credit = 0
    BY <1>4 DEF Call, Keeping
<1> HIDE DEF rec
<1>6. v \in {rec, TransferAccepted(rec, id), PayoutAccepted(rec, id)}
    BY <1>3 DEF Accepted, rec
<1>7. v.at = "commit" /\ v.op = u.op /\ v.seen = u.seen /\ v.credit = 0
    BY <1>4, <1>5, <1>6 DEF TransferAccepted, PayoutAccepted, Call
<1>8. v.obj.status = u.obj.status /\ v.obj.payout \in {u.obj.payout, "PENDING"}
  <2>1. CASE v = TransferAccepted(rec, id)
    <3>1. v.obj = [u.obj EXCEPT !.payinId = id]
      BY <1>4, <1>5, <2>1 DEF TransferAccepted, Call
    <3> QED
      BY <1>4, <3>1 DEF Row
  <2>2. CASE v = PayoutAccepted(rec, id)
    <3>1. v.obj = [u.obj EXCEPT !.payout = "PENDING", !.payoutId = id]
      BY <1>4, <1>5, <2>2 DEF PayoutAccepted, Call
    <3> QED
      BY <1>4, <3>1 DEF Row
  <2> QED
    BY <1>5, <1>6, <2>1, <2>2
<1>9. asked[r] # "DEPOSIT"
    BY <1>1, <1>4 DEF Serving
<1>10. Changed(v, r)'
    BY <1>1, <1>4, <1>7, <1>8, <1>9 DEF Changed, LegsSound, Final, TerminalLeg
<1>11. Keeping(v)
    BY <1>4, <1>7, <1>8 DEF Keeping
<1>12. c[1] = "hook" => /\ v.op \in DOMAIN jeko /\ jeko'[v.op].ref = r /\ jeko[v.op].ref = r
                        /\ Early(v.op)' /\ v.op \in dedup
  <2>1. c[1] = "hook" => /\ v.op \in DOMAIN jeko /\ jeko[v.op].ref = r
                         /\ Early(v.op) /\ v.op \in dedup
    BY <1>1, <1>4, <1>7, HookOp DEF Serving, Early
  <2> QED
    BY <1>2, <2>1, OpStays
<1>13. Serving(c, v, r)'
    BY <1>1, <1>4, <1>7, <1>10, <1>11, <1>12 DEF Serving, Ending, Keeping
<1>14. RefIn(c, v)' = r
    BY <1>1, <1>12 DEF RefIn
<1>15. r \notin doubt => ~Open(v)
    BY <1>4, <1>7, <1>11, <1>1 DEF Open, Keeping, Serving
<1>16. Sound(c, v)' /\ Alone(c, v)'
  <2>1. Sound(c, v)'
    BY <1>13, <1>14 DEF Sound
  <2>2. Alone(c, v)'
    BY <1>1, <1>12, <1>14, <1>15 DEF Alone, Awaited, Open, RefIn
  <2> QED
    BY <2>1, <2>2
<1>17. call' = [call EXCEPT ![c] = v]
    BY <1>0, <1>3 DEF Answered
<1> QED
    BY <1>1, <1>7, <1>16, <1>17, PostedKept

\* A POST that is repeated, or given up.
LEMMA UnansweredSound ==
    ASSUME IInv, PInv, NEW c \in Callers, NEW executed, Unanswered(c, executed)
    PROVE  \E v : /\ Sound(c, v) /\ Alone(c, v) /\ CallOK(c, v)
                  /\ call' = [call EXCEPT ![c] = v]
                  /\ c[1] = "hook" => v.op = call[c].op
PROOF
<1> DEFINE u == call[c]
<1>1. u.at = "post" /\ u \in Call /\ CallOK(c, u)
    BY CallType DEF Unanswered
<1>2. PICK r : r = RefIn(c, u)
    OBVIOUS
<1>3. Serving(c, u, r) /\ Alone(c, u) /\ ~Idle(u) /\ Open(u)
    BY <1>1, <1>2, PostRecord
<1>4. PICK w : CallOK(c, w) /\ call' = [call EXCEPT ![c] = w]
    BY UnansweredOK
<1>5. CASE u.tries + 1 < Attempts
  <2>1. PICK v : v = [u EXCEPT !.tries = @ + 1]
    OBVIOUS
  <2>2. /\ v.at = "post" /\ v.op = u.op /\ v.seen = u.seen
        /\ v.obj = u.obj /\ v.credit = u.credit
    BY <1>1, <2>1 DEF Call
  <2>3. call' = [call EXCEPT ![c] = v]
    BY <1>5, <2>1 DEF Unanswered
  <2>4. Serving(c, v, r)
    BY <1>1, <1>3, <2>2 DEF Serving, Changed, Keeping
  <2>5. RefIn(c, v) = r
    BY <1>2, <2>2 DEF RefIn
  <2>6. Sound(c, v) /\ Alone(c, v)
    BY <1>3, <2>2, <2>4, <2>5 DEF Sound, Alone
  <2>7. v = w
    BY <1>4, <2>3 DEF IInv
  <2> QED
    BY <1>4, <2>2, <2>3, <2>6, <2>7
<1>6. CASE ~(u.tries + 1 < Attempts)
  <2>1. call' = [call EXCEPT ![c] = GivenUp(c)]
    BY <1>6 DEF Unanswered
  <2>2. GivenUp(c) = w
    BY <1>4, <2>1 DEF IInv
  <2>3. /\ Sound(c, GivenUp(c)) /\ Alone(c, GivenUp(c))
        /\ c[1] = "hook" => GivenUp(c).op = u.op
    <3>1. CASE c[1] = "route" /\ asked[c[2]] \in {"TRANSFER", "CASH_OUT"}
      BY <3>1, AtRest, EndsAtRest DEF GivenUp, Off
    <3>2. CASE ~(c[1] = "route" /\ asked[c[2]] \in {"TRANSFER", "CASH_OUT"})
      BY <1>1, <3>2, DeclinedSound DEF GivenUp
    <3> QED
      BY <3>1, <3>2
  <2> QED
    BY <1>4, <2>2, <2>3
<1> QED
    BY <1>5, <1>6

\* After an operation without an answer the payment is in doubt.
LEMMA UnansweredKept ==
    ASSUME IInv, PInv, NEW c \in Callers, NEW executed \in BOOLEAN, Unanswered(c, executed)
    PROVE  PInv'
PROOF
<1>1. PICK v : /\ Sound(c, v) /\ Alone(c, v) /\ CallOK(c, v)
               /\ call' = [call EXCEPT ![c] = v]
               /\ c[1] = "hook" => v.op = call[c].op
    BY UnansweredSound
<1>2. call[c].at = "post" /\ UNCHANGED <<asked, row, credited, dedup, acked>>
    BY DEF Unanswered
<1>3. trouble'["failures"] = trouble["failures"]
    BY DEF Unanswered, Trouble, IInv, Typed, Troubles
<1>4. CASE executed
  <2>0. PICK r : r = RefOf(c)
    OBVIOUS
  <2>1. /\ Posts(c) \in Operation /\ Accept(Posts(c)) /\ Posts(c).ref = r /\ r = RefIn(c, call[c])
        /\ r \in doubt' /\ doubt \subseteq doubt'
    BY <1>2, <1>4, <2>0, PostsType DEF Unanswered
  <2>2. Settles /\ Quiet(r)
    BY <1>2, <1>3, <2>1, AcceptSettles DEF Quiet
  <2>3. c[1] \in {"route", "hook"} => RefIn(c, v) = r
    BY <1>1, <2>1 DEF RefIn
  <2>4. Sound(c, v)' /\ Alone(c, v)'
    BY <1>1, <2>2, <2>3, SoundStays, AloneStays
  <2> QED
    BY <1>1, <1>2, <1>3, <2>1, <2>4, PostedKept
<1>5. CASE ~executed
  <2>1. UNCHANGED <<jeko, doubt>>
    BY <1>5 DEF Unanswered
  <2>2. Sound(c, v)' /\ Alone(c, v)'
    BY <1>1, <1>2, <2>1, SameSound
  <2> QED
    BY <1>1, <1>2, <1>3, <2>1, <2>2, QuietMove
<1> QED
    BY <1>4, <1>5

-----------------------------------------------------------------------------
(* The steps of JEKO that move no call *)

\* Payments, rows, credits and operations stay, and so do the calls.
LEMMA Stays ==
    ASSUME IInv, PInv, UNCHANGED <<asked, row, credited, jeko, dedup, call, doubt>>,
           acked' \subseteq dedup,
           trouble["failures"] > 0 => trouble'["failures"] > 0
    PROVE  PInv'
PROOF
<1>1. \A o \in dedup : EventSound(o) => EventSound(o)'
    BY DEF EventSound, Early, HasAnswer, Final
<1>2. OpsSound' /\ RowsSound' /\ HooksApart'
    BY DEF PInv, OpsSound, OpKind, Early, RowsSound, LegsSound, Final, HooksApart,
           Promise!Collecting, Promise!Paying
<1>3. \A o \in (DOMAIN jeko) \ dedup : Awaited(o)'
    BY DEF PInv, Awaited, Latest, Unsettled, Shown
<1>4. \A c \in Callers : Sound(c, call[c])' /\ Alone(c, call[c])'
  <2>1. ASSUME NEW c \in Callers
        PROVE  Sound(c, call[c])' /\ Alone(c, call[c])'
    <3>1. PICK v : v = call[c] /\ v = call'[c]
      OBVIOUS
    <3>2. Sound(c, v)' /\ Alone(c, v)'
      BY <3>1, SameSound DEF PInv
    <3> QED
      BY <3>1, <3>2
  <2> QED
    BY <2>1
<1> QED
    BY <1>1, <1>2, <1>3, <1>4 DEF PInv

LEMMA MissKept ==
    ASSUME IInv, PInv, NEW o \in Ops, Miss(o)
    PROVE  PInv'
PROOF
<1>1. trouble'["failures"] = trouble["failures"]
    BY DEF Miss, Trouble, IInv, Typed, Troubles
<1> QED
    BY <1>1, Stays DEF Miss, PInv, OpsSound

\* The payer or JEKO decides: the event is still to come.
LEMMA CompleteKept ==
    ASSUME IInv, PInv, NEW o \in Ops, NEW s \in {"success", "error"}, Complete(o, s)
    PROVE  PInv'
PROOF
<1>1. UNCHANGED <<asked, row, credited, dedup, acked, call, doubt, trouble>>
    BY DEF Complete
<1>2. /\ DOMAIN jeko' = DOMAIN jeko /\ jeko[o].status = "pending"
      /\ \A p \in DOMAIN jeko : /\ jeko'[p].ref = jeko[p].ref /\ jeko'[p].type = jeko[p].type
                                /\ p # o => jeko'[p] = jeko[p]
    BY Completes DEF IInv
<1>3. Grows
    BY <1>1, <1>2 DEF Grows
<1>4. Settles
    BY <1>1, <1>2, <1>3 DEF Settles, HasAnswer, Final
<1>5. \A r \in Refs : Quiet(r)
    BY <1>1, <1>2 DEF Quiet, Unsettled, Shown
<1>6. OpsSound'
    BY <1>1, <1>2 DEF PInv, OpsSound, OpKind, Early, Promise!Collecting, Promise!Paying
<1>7. RowsSound' /\ HooksApart'
    BY <1>1 DEF PInv, RowsSound, LegsSound, Final, HooksApart
<1>8. \A p \in dedup : EventSound(p)'
    BY <1>1, <1>2 DEF PInv, OpsSound, EventSound, Early, HasAnswer, Final
<1>9. \A p \in (DOMAIN jeko') \ dedup : Awaited(p)'
    BY <1>2, <1>4, <1>5, AwaitedStays, OpAsked DEF PInv
<1>10. \A c \in Callers : Sound(c, call[c])' /\ Alone(c, call[c])'
  <2>1. ASSUME NEW c \in Callers
        PROVE  Sound(c, call[c])' /\ Alone(c, call[c])'
    <3>1. PICK v : v = call[c] /\ v = call'[c]
      BY <1>1
    <3>2. CallOK(c, v) /\ Sound(c, v) /\ Alone(c, v)
      BY <3>1, CallType DEF PInv
    <3>3. Sound(c, v)' /\ Alone(c, v)'
      BY <1>4, <1>5, <3>2, SoundStays, AloneStays
    <3> QED
      BY <3>1, <3>3
  <2> QED
    BY <2>1
<1> QED
    BY <1>1, <1>6, <1>7, <1>8, <1>9, <1>10 DEF PInv

\* The key of an event is set by the webhook that handles it.
LEMMA DeliverKept ==
    ASSUME IInv, PInv, NEW o \in Ops, NEW h \in Hooks, Deliver(h, o)
    PROVE  PInv'
PROOF
<1>1. UNCHANGED <<asked, row, credited, jeko, doubt, trouble>>
    BY DEF Deliver
<1>2. CASE o \in dedup
    BY <1>1, <1>2, Stays DEF Deliver, PInv, OpsSound
<1>3. CASE o \notin dedup
  <2>0. <<"hook", h>> \in Callers
    BY DEF Callers
  <2>1. PICK c \in Callers : c = <<"hook", h>> /\ c[1] = "hook" /\ c[2] = h
    BY <2>0
  <2>2. PICK v : v = [call[c] EXCEPT !.at = "read", !.op = o]
    OBVIOUS
  <2>3. /\ call' = [call EXCEPT ![c] = v] /\ dedup' = dedup \cup {o} /\ acked' = acked
        /\ o \in DOMAIN jeko /\ jeko[o].status # "pending" /\ call[c].at = "off"
    BY <1>3, <2>1, <2>2 DEF Deliver
  <2>4. call[c] \in Call /\ call[c] = Rest("off", call[c].wakes)
    BY <2>3, CallType DEF Placed, Idle
  <2>5. call[c].op = 0 /\ call[c].credit = 0
    BY <2>4 DEF Rest
  <2>6. v.at = "read" /\ v.op = o /\ v.credit = 0
    BY <2>2, <2>4, <2>5 DEF Call
  <2>7. Settles
    BY <1>1, <2>3 DEF Settles, Grows, HasAnswer, Final
  <2>8. \A r \in Refs : Quiet(r)
    BY <1>1 DEF Quiet, Unsettled, Shown
  <2>9. Awaited(o)
    BY <1>3, <2>3 DEF PInv
  <2>10. Awaited(o)'
    BY <2>3, <2>7, <2>8, <2>9, AwaitedStays, OpAsked
  <2>11. Sound(c, v)' /\ Alone(c, v)'
    <3>1. PICK r : r = RefIn(c, v)'
      OBVIOUS
    <3>2. Serving(c, v, r)'
      BY <2>1, <2>3, <2>6 DEF Serving
    <3> QED
      BY <2>1, <2>6, <2>10, <3>1, <3>2 DEF Sound, Alone
  <2>12. \A d \in Callers : Sound(d, call[d])' /\ Alone(d, call[d])'
    BY <2>3, <2>7, <2>8, <2>11, OtherCalls
  <2>13. \A g \in Hooks : call[<<"hook", g>>].op # o
    <3>1. ASSUME NEW g \in Hooks, call[<<"hook", g>>].op = o
          PROVE  FALSE
      <4>1. <<"hook", g>> \in Callers
        BY DEF Callers
      <4>2. PICK d \in Callers : d = <<"hook", g>> /\ d[1] = "hook"
        BY <4>1
      <4>3. CASE Idle(call[d])
        <5>1. call[d] = Rest(call[d].at, call[d].wakes)
          BY <4>3, CallType DEF Placed
        <5>2. call[d].op = 0 /\ o # 0
          BY <5>1 DEF Rest, Ops
        <5> QED
          BY <3>1, <4>2, <5>2
      <4>4. CASE ~Idle(call[d])
        BY <1>3, <3>1, <4>2, <4>4, HookOp
      <4> QED
        BY <4>3, <4>4
    <3> QED
      BY <3>1
  <2>14. \A g \in Hooks : call'[<<"hook", g>>].op = IF g = h THEN o ELSE call[<<"hook", g>>].op
    BY <2>1, <2>3, <2>6 DEF IInv, Callers
  <2>15. HooksApart'
    BY <2>13, <2>14 DEF PInv, HooksApart
  <2>16. \A p \in dedup' : EventSound(p)'
    <3>1. EventSound(o)'
      BY <2>14 DEF EventSound
    <3>2. \A p \in dedup : EventSound(p)'
      <4>1. \A p \in dedup : p # call[c].op
        BY <2>5, OpType DEF IInv, PInv, OpsSound, Ops
      <4> QED
        BY <2>3, <2>7, <4>1, EventsStay
    <3> QED
      BY <2>3, <3>1, <3>2
  <2>17. \A p \in (DOMAIN jeko') \ dedup' : Awaited(p)'
    BY <1>1, <2>3, <2>7, <2>8, AwaitedStays, OpAsked DEF PInv
  <2>18. OpsSound' /\ RowsSound'
    BY <1>1, <2>3 DEF PInv, OpsSound, OpKind, Early, RowsSound, LegsSound, Final,
                      Promise!Collecting, Promise!Paying
  <2> QED
    BY <2>12, <2>15, <2>16, <2>17, <2>18 DEF PInv
<1> QED
    BY <1>2, <1>3

-----------------------------------------------------------------------------
(* The steps that ask for a payment *)

\* Nothing is left of a payment that was not asked for.
LEMMA Unasked ==
    ASSUME IInv, PInv, NEW r \in Refs, asked[r] = "NONE"
    PROVE  /\ row[r] = NoRow /\ credited[r] = 0 /\ NoOps(r) /\ ~HasAnswer(r)
           /\ \A d \in Callers : ~Idle(call[d]) => RefIn(d, call[d]) # r
PROOF
<1>1. row[r] = NoRow
    BY DEF IInv, Uncommitted
<1>2. NoOps(r)
    BY OpAsked DEF NoOps
<1>3. credited[r] = 0
  <2>1. ~MoneyIn(r)
    BY <1>2 DEF MoneyIn, Moved, NoOps
  <2>2. credited[r] \in Nat /\ ~(credited[r] > 0)
    BY <2>1 DEF IInv, Typed, MoneySound, Transfers
  <2> QED
    BY <2>2
<1>4. \A d \in Callers : ~Idle(call[d]) => RefIn(d, call[d]) # r
    BY CallAsked, CallType DEF PInv
<1> QED
    BY <1>1, <1>2, <1>3, <1>4 DEF HasAnswer

\* A new payment has one call and perhaps an operation, and disturbs no other payment.
LEMMA NewPayment ==
    ASSUME IInv, PInv, Settles, NEW r \in Refs, asked[r] = "NONE",
           NEW k, asked' = [asked EXCEPT ![r] = k],
           NEW w, LegsSound(k, w), row' = row \/ row' = [row EXCEPT ![r] = w],
           UNCHANGED <<dedup, acked>>,
           \A p \in Refs : p # r => Quiet(p),
           \A o \in (DOMAIN jeko') \ DOMAIN jeko :
              Awaited(o)' /\ OpKind(o)' /\ row'[jeko'[o].ref] # NoRow,
           NEW c \in Callers, c[1] # "hook", NEW v, Sound(c, v)', Alone(c, v)',
           call' = [call EXCEPT ![c] = v]
    PROVE  PInv'
PROOF
<1>1. \A p \in Refs : p # r => asked'[p] = asked[p] /\ row'[p] = row[p]
    BY DEF IInv, Typed
<1>2. asked'[r] = k /\ row'[r] \in {row[r], w} /\ row[r] = NoRow
    BY Unasked DEF IInv, Typed
<1>3. RowsSound'
  <2>1. ASSUME NEW p \in Refs, row'[p] # NoRow
        PROVE  LegsSound(asked'[p], row'[p])
    BY <1>1, <1>2, <2>1 DEF PInv, RowsSound
  <2> QED
    BY <2>1 DEF RowsSound, LegsSound, Final
<1>4. OpsSound'
  <2>1. ASSUME NEW o \in DOMAIN jeko
        PROVE  OpKind(o)' /\ (Early(o)' \/ row'[jeko'[o].ref] # NoRow)
    <3>1. PICK p \in Refs : p = jeko[o].ref /\ asked[p] # "NONE"
      BY OpAsked
    <3>2. jeko'[o].ref = p /\ OpKind(o)' /\ Early(o)' = Early(o)
      BY <3>1, OpStays DEF PInv, OpsSound
    <3> QED
      BY <1>1, <3>1, <3>2 DEF PInv, OpsSound
  <2>2. \A o \in DOMAIN jeko' : OpKind(o)' /\ (Early(o)' \/ row'[jeko'[o].ref] # NoRow)
    BY <2>1
  <2>3. \A o \in dedup : o \in DOMAIN jeko' /\ jeko'[o].status # "pending"
    BY DEF PInv, OpsSound, Settles, Grows
  <2> QED
    BY <2>2, <2>3 DEF PInv, OpsSound
<1>5. HooksApart'
    BY HooksStay
<1>6. \A o \in dedup : EventSound(o)'
    BY EventsStay
<1>7. \A o \in (DOMAIN jeko') \ dedup : Awaited(o)'
  <2>1. ASSUME NEW o \in DOMAIN jeko, o \notin dedup
        PROVE  Awaited(o)'
    <3>1. PICK p \in Refs : p = jeko[o].ref /\ asked[p] # "NONE"
      BY OpAsked
    <3>2. Quiet(p) /\ Awaited(o)
      BY <2>1, <3>1 DEF PInv
    <3> QED
      BY <3>1, <3>2, AwaitedStays
  <2> QED
    BY <2>1
<1>8. \A d \in Callers : Sound(d, call[d])' /\ Alone(d, call[d])'
  <2>1. \A d \in Callers : ~Idle(call[d]) => RefIn(d, call[d]) # r
    BY Unasked
  <2> QED
    BY <2>1, OtherCalls
<1> QED
    BY <1>3, <1>4, <1>5, <1>6, <1>7, <1>8 DEF PInv

\* The route of a transfer, whose row is still to be committed.
LEMMA RequestTransferKept ==
    ASSUME IInv, PInv, NEW r \in Refs, RequestTransfer(r)
    PROVE  PInv'
PROOF
<1>1. PICK c : c = <<"route", r>>
    OBVIOUS
<1>2. /\ c \in Callers /\ c[1] = "route" /\ c[2] = r /\ asked[r] = "NONE"
      /\ call[c] \in Call /\ call[c] = Rest("off", call[c].wakes) /\ row[r] = NoRow
    BY <1>1, RouteOff DEF RequestTransfer
<1>3. PICK new : new = NewRow("TRANSFER", 0)
    OBVIOUS
<1>4. new.payout = "NONE" /\ new.status = "PENDING" /\ LegsSound("TRANSFER", new)
    BY <1>3 DEF NewRow, LegsSound, TerminalLeg
<1>5. PICK v : v = [call[c] EXCEPT !.at = "post", !.obj = new]
    OBVIOUS
<1>6. call[c].seen = NoRow /\ call[c].credit = 0
    BY <1>2 DEF Rest
<1>7. v.at = "post" /\ v.obj = new /\ v.seen = NoRow /\ v.credit = 0
    BY <1>2, <1>5, <1>6 DEF Call
<1>8. /\ call' = [call EXCEPT ![c] = v] /\ asked' = [asked EXCEPT ![r] = "TRANSFER"]
      /\ UNCHANGED <<row, credited, jeko, dedup, acked, doubt, trouble>>
    BY <1>1, <1>3, <1>5 DEF RequestTransfer
<1>9. asked'[r] = "TRANSFER" /\ \A p \in Refs : p # r => asked'[p] = asked[p]
    BY <1>8 DEF IInv, Typed
<1>10. Settles
    BY <1>2, <1>8, <1>9 DEF Settles, Grows, HasAnswer, Final
<1>11. \A p \in Refs : Quiet(p)
    BY <1>8 DEF Quiet, Unsettled, Shown
<1>12. Serving(c, v, r)'
    BY <1>2, <1>4, <1>7, <1>9 DEF Serving, Changed, Keeping, LegsSound
<1>13. Unsettled(r)' /\ NoOps(r)'
    BY <1>2, <1>8, Unasked DEF Unsettled, Shown, NoOps
<1>14. Sound(c, v)' /\ Alone(c, v)'
    BY <1>2, <1>12, <1>13 DEF Sound, Alone, RefIn
<1> QED
    BY <1>2, <1>4, <1>8, <1>10, <1>11, <1>14, NewPayment

\* The routes of agents, whose row is committed.
LEMMA CommitsKept ==
    ASSUME IInv, PInv, NEW r \in Refs, NEW k \in {"CASH_IN", "CASH_OUT"}, Commits(r, k)
    PROVE  PInv'
PROOF
<1>1. PICK c : c = <<"route", r>>
    OBVIOUS
<1>2. /\ c \in Callers /\ c[1] = "route" /\ c[2] = r /\ asked[r] = "NONE"
      /\ call[c] \in Call /\ call[c] = Rest("off", call[c].wakes)
      /\ row[r] = NoRow /\ credited[r] = 0 /\ NoOps(r) /\ ~HasAnswer(r)
    BY <1>1, RouteOff, Unasked DEF Commits
<1>3. PICK new : new = NewRow(k, 0)
    OBVIOUS
<1>4. /\ new.payout = "NONE" /\ new.status = "PENDING" /\ LegsSound(k, new)
      /\ new \in Row /\ new # NoRow
  <2>1. new.payout = "NONE" /\ new.status = "PENDING"
    BY <1>3 DEF NewRow
  <2>2. new \in Row /\ new # NoRow
    BY <1>3, NewRowType, NoRowAssumption
  <2> QED
    BY <2>1, <2>2 DEF LegsSound, TerminalLeg
<1>5. PICK v : v = [call[c] EXCEPT !.at = "post", !.seen = new, !.obj = new]
    OBVIOUS
<1>6. call[c].credit = 0
    BY <1>2 DEF Rest
<1>7. v.at = "post" /\ v.obj = new /\ v.seen = new /\ v.credit = 0
    BY <1>2, <1>5, <1>6 DEF Call
<1>8. /\ call' = [call EXCEPT ![c] = v] /\ asked' = [asked EXCEPT ![r] = k]
      /\ row' = [row EXCEPT ![r] = new]
      /\ UNCHANGED <<credited, jeko, dedup, acked, doubt, trouble>>
    BY <1>1, <1>3, <1>5 DEF Commits
<1>9. /\ asked'[r] = k /\ row'[r] = new
      /\ \A p \in Refs : p # r => asked'[p] = asked[p] /\ row'[p] = row[p]
    BY <1>8 DEF IInv, Typed
<1>10. Settles
    BY <1>2, <1>4, <1>8, <1>9 DEF Settles, Grows, HasAnswer, Final
<1>11. \A p \in Refs : p # r => Quiet(p)
    BY <1>8, <1>9 DEF Quiet, Unsettled, Shown
<1>12. Serving(c, v, r)'
    BY <1>2, <1>4, <1>7, <1>9 DEF Serving, Changed, Keeping, LegsSound, Final, TerminalStatuses
<1>13. Unsettled(r)' /\ NoOps(r)'
    BY <1>2, <1>4, <1>8, <1>9 DEF Unsettled, Shown, NoOps
<1>14. Sound(c, v)' /\ Alone(c, v)'
    BY <1>2, <1>12, <1>13 DEF Sound, Alone, RefIn
<1> QED
    BY <1>2, <1>4, <1>8, <1>10, <1>11, <1>14, NewPayment

\* Withdrawals and deposits: the row is there, and one operation of JEKO.
LEMMA PlaceKept ==
    ASSUME IInv, PInv, NEW r \in Refs, NEW k \in {"WITHDRAWAL", "DEPOSIT"}, Place(r, k)
    PROVE  PInv'
PROOF
<1>0. PICK op, id, new : /\ op = IF k = "WITHDRAWAL" THEN Withdrawal(r) ELSE PaymentRequest(r)
                         /\ id = Len(jeko) + 1 /\ new = NewRow(k, id)
    OBVIOUS
<1>1. /\ op \in Operation /\ op.ref = r /\ Accept(op)
      /\ op.type = IF k = "WITHDRAWAL" THEN "transfer" ELSE "payment"
    BY <1>0 DEF Place, Withdrawal, PaymentRequest, Operation
<1>2. /\ DOMAIN jeko' = DOMAIN jeko \cup {id} /\ jeko'[id] = op /\ id \in Ops
      /\ \A o \in DOMAIN jeko : jeko'[o] = jeko[o]
      /\ id \notin DOMAIN jeko
    BY <1>0, <1>1, Accepts DEF IInv
<1>3. asked[r] = "NONE" /\ row[r] = NoRow /\ credited[r] = 0 /\ NoOps(r)
    BY Unasked DEF Place
<1>4. new # NoRow /\ new.status = "PENDING" /\ LegsSound(k, new)
  <2>1. new # NoRow
    BY <1>0, <1>2, NewRowType, NoRowAssumption
  <2>2. /\ new.status = "PENDING"
        /\ new.payout \in {"NONE", "PENDING"} /\ new.payin \in {"NONE", "PENDING"}
    BY <1>0 DEF NewRow
  <2> QED
    BY <2>1, <2>2 DEF LegsSound, TerminalLeg, Final, TerminalStatuses
<1>5. /\ asked' = [asked EXCEPT ![r] = k] /\ row' = [row EXCEPT ![r] = new]
      /\ UNCHANGED <<credited, dedup, acked, doubt, trouble>>
    BY <1>0 DEF Place
<1>6. /\ asked'[r] = k /\ row'[r] = new
      /\ \A p \in Refs : p # r => asked'[p] = asked[p] /\ row'[p] = row[p]
    BY <1>5 DEF IInv, Typed
<1>7. Settles /\ \A p \in Refs : p # r => Quiet(p)
    BY <1>1, <1>3, <1>5, <1>6, AcceptSettles
<1>8. Awaited(id)' /\ OpKind(id)' /\ row'[jeko'[id].ref] # NoRow
  <2>1. Unsettled(r)'
    BY <1>3, <1>4, <1>5, <1>6 DEF Unsettled, Shown
  <2>2. Latest(id)'
    BY <1>1, <1>2, <1>3 DEF Latest, NoOps
  <2>3. OpKind(id)'
    BY <1>1, <1>2, <1>6 DEF OpKind, Promise!Collecting, Promise!Paying
  <2> QED
    BY <1>1, <1>2, <1>4, <1>6, <2>1, <2>2, <2>3 DEF Awaited
<1>9. PICK c : c = <<"task", r>>
    OBVIOUS
<1>10. c \in Callers /\ c[1] = "task" /\ c[2] = r
    BY <1>9 DEF Callers
<1>11. call[c] \in Call /\ call[c].at = "off"
    BY <1>3, <1>10, CallType DEF Placed
<1>12. PICK v : call' = [call EXCEPT ![c] = v] /\ Idle(v)
  <2>1. CASE k = "WITHDRAWAL"
    <3>1. PICK w : w = [call[c] EXCEPT !.at = "asleep"]
      OBVIOUS
    <3>2. Idle(w)
      BY <1>11, <3>1 DEF Idle, Call
    <3>3. call' = [call EXCEPT ![c] = w]
      BY <1>9, <2>1, <3>1 DEF Place
    <3> QED
      BY <3>2, <3>3
  <2>2. CASE k = "DEPOSIT"
    <3>1. call' = [call EXCEPT ![c] = call[c]]
      BY <2>2 DEF Place, IInv
    <3> QED
      BY <1>11, <3>1 DEF Idle
  <2> QED
    BY <2>1, <2>2
<1>13. Sound(c, v)' /\ Alone(c, v)'
    BY <1>12, AtRest
<1>14. \A o \in (DOMAIN jeko') \ DOMAIN jeko : o = id
    BY <1>2
<1> QED
    BY <1>3, <1>4, <1>5, <1>7, <1>8, <1>10, <1>12, <1>13, <1>14, NewPayment

-----------------------------------------------------------------------------
(* The commit *)

\* The status a commit leaves, and what it says of the row's legs.
LEMMA CommitShows ==
    ASSUME IInv, PInv, NEW c \in Callers, Commit(c), NEW r, r = RefOf(c), NEW u, u = call[c]
    PROVE  /\ r \in Refs /\ r = RefIn(c, u) /\ ~Idle(u) /\ u.at = "commit" /\ u \in Call
           /\ Serving(c, u, r)
           /\ row'[r] # NoRow /\ \A p \in Refs : p # r => row'[p] = row[p]
           /\ u.seen = NoRow => row[r] = NoRow /\ row'[r].status = u.obj.status
           /\ u.seen # NoRow =>
                 /\ row[r] # NoRow
                 /\ row'[r].status = IF u.obj.status = u.seen.status THEN row[r].status
                                                                     ELSE u.obj.status
           /\ LegsSound(asked[r], row'[r])
           /\ HasAnswer(r) \/ Final(u.obj) => HasAnswer(r)'
PROOF
<1>1. /\ r \in Refs /\ r = RefIn(c, u) /\ row' = [row EXCEPT ![r] = row'[r]] /\ row'[r] \in Row
    BY CommitWrites
<1>2. u.at = "commit" /\ ~Idle(u) /\ u \in Call /\ Placed(c, u) /\ Serving(c, u, r)
    BY <1>1, CallType DEF Commit, Idle, PInv, Sound
<1>3. row'[r] # NoRow /\ \A p \in Refs : p # r => row'[p] = row[p]
    BY <1>1, NoRowAssumption DEF IInv, Typed
<1>4. u.seen = NoRow => row[r] = NoRow
  <2>1. ASSUME u.seen = NoRow
        PROVE  row[r] = NoRow
    <3>1. c[1] = "route"
      BY <1>2, <2>1 DEF Placed
    <3>2. c = <<"route", r>> /\ asked[r] = "TRANSFER"
      BY <1>1, <1>2, <2>1, <3>1 DEF Serving, RefIn, Callers
    <3> QED
      BY <1>1, <1>2, <3>2 DEF IInv, Uncommitted
  <2> QED
    BY <2>1
<1>5. u.seen # NoRow => row[r] # NoRow
    BY <1>1, <1>2 DEF Placed
<1>6. PICK w : w = Written(row[r], u.seen, u.obj)
    OBVIOUS
<1>7. row'[r] = w
    BY <1>1, <1>6 DEF Commit, IInv, Typed
<1>8. u.seen = NoRow => w = u.obj
    BY <1>6 DEF Written
<1>9. u.seen # NoRow => /\ w.payin = Column(row[r].payin, u.seen.payin, u.obj.payin)
                        /\ w.payout = Column(row[r].payout, u.seen.payout, u.obj.payout)
                        /\ w.status = Column(row[r].status, u.seen.status, u.obj.status)
    BY <1>6 DEF Written
<1>10. Changed(u, r)
    BY <1>2 DEF Serving
<1>11. row[r] # NoRow => LegsSound(asked[r], row[r])
    BY <1>1 DEF PInv, RowsSound
<1>12. Final(u.obj) => Final(w)
    BY <1>5, <1>8, <1>9, <1>10 DEF Changed, Column, Final
<1>13. HasAnswer(r) => Final(w)
    BY <1>4, <1>9, <1>10 DEF Changed, Column, Final, HasAnswer
<1>14. w.payout \in TerminalLeg => Final(w)
    BY <1>5, <1>8, <1>9, <1>10, <1>11, <1>12, <1>13 DEF Changed, Column, LegsSound, HasAnswer
<1>15. asked[r] = "DEPOSIT" => (w.payin \in TerminalLeg <=> Final(w))
  <2>1. CASE u.seen = NoRow
    BY <1>8, <1>10, <2>1 DEF Changed, LegsSound
  <2>2. CASE u.seen # NoRow /\ u.obj = u.seen
    BY <1>5, <1>9, <1>11, <2>2 DEF Column, LegsSound, Final
  <2>3. CASE u.seen # NoRow /\ u.obj # u.seen
    BY <1>9, <1>10, <1>12, <2>3 DEF Column, LegsSound, Changed
  <2> QED
    BY <2>1, <2>2, <2>3
<1>16. LegsSound(asked[r], w)
    BY <1>14, <1>15 DEF LegsSound
<1>17. HasAnswer(r) \/ Final(u.obj) => HasAnswer(r)'
    BY <1>3, <1>7, <1>12, <1>13 DEF HasAnswer, Final
<1> QED
    BY <1>1, <1>2, <1>3, <1>4, <1>5, <1>7, <1>8, <1>9, <1>16, <1>17 DEF Column

\* A commit that is not quiet is that of the open call of its payment.
LEMMA CommitQuiet ==
    ASSUME IInv, PInv, NEW c \in Callers, Commit(c), NEW r, r = RefOf(c), NEW u, u = call[c]
    PROVE  /\ Settles /\ \A p \in Refs : p # r => Quiet(p)
           /\ \/ Quiet(r)
              \/ /\ r \notin doubt /\ Open(u) /\ c[1] \in {"route", "hook"}
                 /\ \A d \in Callers \ {c} :
                       d[1] \in {"route", "hook"} /\ ~Idle(call[d]) /\ Open(call[d]) =>
                           RefIn(d, call[d]) # r
                 /\ \A o \in (DOMAIN jeko) \ dedup : jeko[o].ref # r
PROOF
<1>1. /\ r \in Refs /\ r = RefIn(c, u) /\ ~Idle(u) /\ u.at = "commit" /\ u \in Call
      /\ Serving(c, u, r)
      /\ row'[r] # NoRow /\ \A p \in Refs : p # r => row'[p] = row[p]
      /\ u.seen = NoRow => row[r] = NoRow /\ row'[r].status = u.obj.status
      /\ u.seen # NoRow =>
            /\ row[r] # NoRow
            /\ row'[r].status = IF u.obj.status = u.seen.status THEN row[r].status ELSE u.obj.status
      /\ HasAnswer(r) => HasAnswer(r)'
    BY CommitShows
<1>2. /\ UNCHANGED <<asked, jeko, dedup, doubt, trouble>>
      /\ credited' = [credited EXCEPT ![r] = @ + u.credit]
    BY DEF Commit
<1>3. \A p \in Refs : p # r => credited'[p] = credited[p]
    BY <1>2 DEF IInv, Typed
<1>4. Settles
  <2>1. Grows
    BY <1>1, <1>2 DEF Grows
  <2>2. \A p \in Refs : HasAnswer(p) => HasAnswer(p)'
    BY <1>1 DEF HasAnswer, Final
  <2> QED
    BY <1>2, <2>1, <2>2 DEF Settles
<1>5. \A p \in Refs : p # r => Quiet(p)
    BY <1>1, <1>2, <1>3 DEF Quiet, Unsettled, Shown
<1>6. CASE Keeping(u)
  <2>1. credited[r] \in Nat /\ credited'[r] = credited[r]
    BY <1>1, <1>2, <1>6 DEF IInv, Typed, Keeping
  <2>2. Shown(r)' = Shown(r)
    BY <1>1, <1>6 DEF Shown, Keeping
  <2>3. Quiet(r)
    BY <1>2, <2>1, <2>2 DEF Quiet, Unsettled
  <2> QED
    BY <1>4, <1>5, <2>3
<1>7. CASE ~Keeping(u)
  <2>1. Open(u)
    BY <1>1, <1>7 DEF Serving, Ending, Failing, Succeeding, Returning, Open
  <2>2. r \in doubt => Quiet(r)
    BY <1>2 DEF Quiet
  <2>3. r \notin doubt => c[1] \in {"route", "hook"}
    BY <1>1 DEF Serving, Callers
  <2> QED
    BY <1>1, <1>4, <1>5, <2>1, <2>2, <2>3, Exclusive
<1> QED
    BY <1>6, <1>7

\* The calls after a commit: it ends, and a task may start to sleep.
LEMMA CommitMoves ==
    ASSUME IInv, PInv, NEW c \in Callers, Commit(c)
    PROVE  /\ Idle(call'[c]) /\ call'[c].op = 0
           /\ \A d \in Callers \ {c} : call'[d] = call[d] \/ (d[1] = "task" /\ Idle(call'[d]))
           /\ call' = [call EXCEPT ![c] = call'[c]] \/ c[1] = "route"
PROOF
<1>1. PICK v : v = Ended(c) /\ Idle(v) /\ v.op = 0
    BY EndsAtRest
<1>2. CASE Schedules(c)
  <2>1. PICK r \in Refs : c = <<"route", r>> /\ RefOf(c) = r
    BY <1>2 DEF Schedules, RefOf, Callers
  <2>2. PICK t : t = <<"task", r>>
    OBVIOUS
  <2>3. t \in Callers /\ t[1] = "task" /\ t # c
    BY <2>1, <2>2 DEF Callers
  <2>4. PICK w : w = [call[t] EXCEPT !.at = "asleep"]
    OBVIOUS
  <2>5. Idle(w)
    BY <2>3, <2>4, CallType DEF Idle, Call
  <2>6. call' = [call EXCEPT ![c] = v, ![t] = w]
    BY <1>1, <1>2, <2>1, <2>2, <2>3, <2>4 DEF Commit, IInv
  <2>7. call'[c] = v /\ call'[t] = w /\ \A d \in Callers \ {c, t} : call'[d] = call[d]
    BY <2>3, <2>6 DEF IInv
  <2> QED
    BY <1>1, <2>1, <2>3, <2>5, <2>7
<1>3. CASE ~Schedules(c)
  <2>1. call' = [call EXCEPT ![c] = v]
    BY <1>1, <1>3 DEF Commit
  <2>2. call'[c] = v /\ \A d \in Callers \ {c} : call'[d] = call[d]
    BY <2>1 DEF IInv
  <2> QED
    BY <1>1, <2>1, <2>2
<1> QED
    BY <1>2, <1>3

LEMMA CommitKept ==
    ASSUME IInv, PInv, NEW c \in Callers, Commit(c)
    PROVE  PInv'
PROOF
<1>0. PICK r, u : r = RefOf(c) /\ u = call[c]
    OBVIOUS
<1>1. /\ r \in Refs /\ r = RefIn(c, u) /\ ~Idle(u) /\ u.at = "commit" /\ Serving(c, u, r)
      /\ row'[r] # NoRow /\ \A p \in Refs : p # r => row'[p] = row[p]
      /\ LegsSound(asked[r], row'[r])
      /\ Final(u.obj) => HasAnswer(r)'
    BY <1>0, CommitShows
<1>2. /\ Settles /\ \A p \in Refs : p # r => Quiet(p)
      /\ \/ Quiet(r)
         \/ /\ c[1] \in {"route", "hook"}
            /\ \A d \in Callers \ {c} :
                  d[1] \in {"route", "hook"} /\ ~Idle(call[d]) /\ Open(call[d]) =>
                      RefIn(d, call[d]) # r
            /\ \A o \in (DOMAIN jeko) \ dedup : jeko[o].ref # r
    BY <1>0, CommitQuiet
<1>3. PICK v : v = call'[c]
    OBVIOUS
<1>4. /\ Idle(v) /\ v.op = 0
      /\ \A d \in Callers \ {c} : call'[d] = call[d] \/ (d[1] = "task" /\ Idle(call'[d]))
      /\ call' = [call EXCEPT ![c] = v] \/ c[1] = "route"
    BY <1>3, CommitMoves
<1>5. UNCHANGED <<asked, jeko, dedup, doubt, trouble>>
    BY DEF Commit
<1>6. RowsSound'
  <2>1. \A p \in Refs : row'[p] # NoRow => LegsSound(asked[p], row'[p])
    BY <1>1 DEF PInv, RowsSound
  <2> QED
    BY <1>5, <2>1 DEF RowsSound, LegsSound, Final
<1>7. OpsSound'
  <2>1. acked' \subseteq dedup
    BY <1>0, <1>1 DEF Commit, Serving, PInv, OpsSound
  <2>2. ASSUME NEW o \in DOMAIN jeko
        PROVE  OpKind(o) /\ (Early(o) \/ row'[jeko[o].ref] # NoRow)
    BY <1>1, OpAsked DEF PInv, OpsSound
  <2>3. \A o \in DOMAIN jeko : OpKind(o)' = OpKind(o) /\ Early(o)' = Early(o)
    BY <1>5 DEF OpKind, Early, Promise!Collecting, Promise!Paying
  <2> QED
    BY <1>5, <2>1, <2>2, <2>3 DEF PInv, OpsSound
\* Its event has had its effect, or was early.
<1>8. HooksApart' /\ \A o \in dedup : EventSound(o)'
  <2>1. CASE call' = [call EXCEPT ![c] = v]
    <3>1. HooksApart'
      BY <1>4, <2>1, HooksStay
    <3>2. ASSUME NEW o \in dedup, c[1] = "hook", u.op = o
          PROVE  Early(o) \/ \E p \in Refs : p = jeko[o].ref /\ HasAnswer(p)'
      BY <1>1, <3>2 DEF Serving, RefIn
    <3> QED
      BY <1>0, <1>2, <2>1, <3>1, <3>2, EventsStay
  <2>2. CASE c[1] = "route"
    <3>1. ASSUME NEW h \in Hooks
          PROVE  call'[<<"hook", h>>] = call[<<"hook", h>>]
      <4>1. <<"hook", h>> \in Callers
        BY DEF Callers
      <4> QED
        BY <1>4, <2>2, <4>1
    <3>2. HooksApart'
      BY <3>1 DEF PInv, HooksApart
    <3>3. \A p \in Refs : HasAnswer(p) => HasAnswer(p)'
      BY <1>2 DEF Settles
    <3>4. ASSUME NEW o \in dedup
          PROVE  EventSound(o)'
      <4>1. jeko[o].ref \in Refs /\ EventSound(o)
        BY OpAsked DEF PInv, OpsSound
      <4>2. PICK p \in Refs : p = jeko[o].ref
        BY <4>1
      <4>3. HasAnswer(p)' => EventSound(o)'
        BY <1>5, <4>2 DEF EventSound
      <4>4. Early(o)' = Early(o)
        BY <1>5 DEF Early
      <4> QED
        BY <1>5, <3>1, <3>3, <4>1, <4>2, <4>3, <4>4 DEF EventSound
    <3> QED
      BY <3>2, <3>4
  <2> QED
    BY <1>4, <2>1, <2>2
<1>9. \A o \in (DOMAIN jeko) \ dedup : Awaited(o)'
  <2>1. ASSUME NEW o \in DOMAIN jeko, o \notin dedup
        PROVE  Awaited(o)'
    <3>1. PICK p \in Refs : p = jeko[o].ref
      BY OpAsked
    <3>2. Quiet(p) /\ Awaited(o)
      BY <1>2, <2>1, <3>1 DEF PInv
    <3> QED
      BY <1>2, <3>1, <3>2, AwaitedStays
  <2> QED
    BY <2>1
<1>10. \A d \in Callers : Sound(d, call[d])' /\ Alone(d, call[d])'
  <2>1. ASSUME NEW d \in Callers, Idle(call'[d])
        PROVE  Sound(d, call[d])' /\ Alone(d, call[d])'
    <3>1. PICK x : x = call'[d] /\ Idle(x)
      BY <2>1
    <3>2. Sound(d, x)' /\ Alone(d, x)'
      BY <3>1, AtRest
    <3> QED
      BY <3>1, <3>2
  <2>2. ASSUME NEW d \in Callers \ {c}, call'[d] = call[d]
        PROVE  Sound(d, call[d])' /\ Alone(d, call[d])'
    <3>1. PICK x : x = call[d] /\ x = call'[d]
      BY <2>2
    <3>2. CallOK(d, x) /\ Sound(d, x) /\ Alone(d, x)
      BY <3>1, CallType DEF PInv
    <3>3. \A p \in Refs : ~Idle(x) /\ Open(x) /\ d[1] \in {"route", "hook"} /\ p = RefIn(d, x)
                              => Quiet(p)
      BY <1>2, <3>1
    <3>4. Sound(d, x)' /\ Alone(d, x)'
      BY <1>2, <3>2, <3>3, SoundStays, AloneStays
    <3> QED
      BY <3>1, <3>4
  <2> QED
    BY <1>3, <1>4, <2>1, <2>2
<1> QED
    BY <1>5, <1>6, <1>7, <1>8, <1>9, <1>10 DEF PInv

-----------------------------------------------------------------------------

LEMMA PromiseInitially ==
    ASSUME Init
    PROVE  PInv
PROOF
<1>1. OpsSound /\ RowsSound
    BY DEF Init, OpsSound, RowsSound
<1>2. \A c \in Callers : Sound(c, call[c]) /\ Alone(c, call[c])
    BY DEF Init, Off, Rest, Sound, Alone, Idle
<1>3. \A h \in Hooks : call[<<"hook", h>>].op = 0
    BY DEF Init, Off, Rest, Callers
<1>4. HooksApart
    BY <1>3 DEF HooksApart
<1> QED
    BY <1>1, <1>2, <1>4 DEF Init, PInv

LEMMA PromiseInductive ==
    ASSUME IInv, PInv, [Next]_vars
    PROVE  PInv'
PROOF
<1>1. CASE UNCHANGED vars
    BY <1>1, Stays DEF vars, PInv, OpsSound
<1>2. ASSUME NEW c \in Callers, Step(c)
      PROVE  PInv'
    BY <1>2, AnsweredKept, RefusedKept, ReadRowKept, CheckKept, CommitKept DEF Step
<1> QED
    BY <1>1, <1>2, RequestTransferKept, CommitsKept, PlaceKept, WakeKept, ManualKept,
       UnansweredKept, EndsKept, CompleteKept, DeliverKept, MissKept
       DEF Next, RequestCashIn, RequestCashOut

\* The invariant behind the promise, for every number of payments and failures.
THEOREM PromiseInvariance == Spec => [](IInv /\ PInv)
PROOF
<1>1. Init => IInv /\ PInv
    BY Initially, PromiseInitially
<1>2. IInv /\ PInv /\ [Next]_vars => IInv' /\ PInv'
    BY Inductive, PromiseInductive
<1> QED
    BY <1>1, <1>2, PTL DEF Spec

\* An event that JEKO was told is handled has given its payment a final status once no
\* webhook holds it, unless a call was cut off or the event overtook the commit of a transfer.
THEOREM AckedMeansAnswered == Spec => []AckedIsAnswered
PROOF
<1>1. PInv => AckedIsAnswered
    BY DEF PInv, OpsSound, EventSound, Early, HasAnswer, Final, AckedIsAnswered
<1> QED
    BY <1>1, PromiseInvariance, PTL

-----------------------------------------------------------------------------
(* Every step is a step of Settlement, or changes nothing that it sees *)

\* A pending operation has moved nothing.
LEMMA SameMoves ==
    ASSUME \A o \in DOMAIN jeko : o \in DOMAIN jeko' /\ jeko'[o] = jeko[o],
           \A o \in (DOMAIN jeko') \ DOMAIN jeko : jeko'[o].status = "pending"
    PROVE  \A r, t : Moved(r, t)' = Moved(r, t)
BY DEF Moved

\* Nothing moves, no answer, no credit: the abstract state stays.
LEMMA Unseen ==
    ASSUME UNCHANGED <<asked, credited, doubt>>,
           \A r, t : Moved(r, t)' = Moved(r, t),
           \A r \in Refs : Shown(r)' = Shown(r)
    PROVE  UNCHANGED Promise!vars
BY DEF Promise!vars

LEMMA UnseenMove ==
    ASSUME UNCHANGED <<asked, row, credited, doubt, jeko>>
    PROVE  UNCHANGED Promise!vars
BY Unseen DEF Moved, Shown

\* The operation a call posts is pending.
LEMMA PostsPending ==
    ASSUME IInv, NEW c \in Callers, call[c].at = "post", Accept(Posts(c))
    PROVE  \A r, t : Moved(r, t)' = Moved(r, t)
PROOF
<1>1. PICK op \in Operation : op = Posts(c) /\ Accept(op) /\ op.status = "pending"
    BY PostsType DEF Posts, PaymentRequest, Withdrawal
<1> QED
    BY <1>1, Accepts, SameMoves DEF IInv

LEMMA AskStep ==
    ASSUME IInv, NEW r \in Refs, NEW k \in Kinds, asked[r] = "NONE",
           asked' = [asked EXCEPT ![r] = k], UNCHANGED <<credited, doubt>>,
           \A p, t : Moved(p, t)' = Moved(p, t),
           \A p \in Refs : Shown(p)' = Shown(p)
    PROVE  Promise!Next
PROOF
<1>1. Promise!Ask(r, k)
    BY DEF Promise!Ask
<1> QED
    BY <1>1 DEF Promise!Next, Promise!Kinds, Kinds

LEMMA DoubtStep ==
    ASSUME IInv, NEW r \in Refs, doubt' = doubt \cup {r}, UNCHANGED <<asked, credited>>,
           \A p, t : Moved(p, t)' = Moved(p, t),
           \A p \in Refs : Shown(p)' = Shown(p)
    PROVE  Promise!Next
PROOF
<1>1. Promise!Doubt(r)
    BY DEF Promise!Doubt
<1> QED
    BY <1>1 DEF Promise!Next

\* The routes and the withdrawals and deposits ask for a payment.
LEMMA AskSteps ==
    ASSUME IInv, PInv, NEW r \in Refs,
           \/ RequestTransfer(r)
           \/ \E k \in {"CASH_IN", "CASH_OUT"} : Commits(r, k)
           \/ \E k \in {"WITHDRAWAL", "DEPOSIT"} : Place(r, k)
    PROVE  Promise!Next
PROOF
<1>1. CASE RequestTransfer(r)
  <2>1. \A p, t : Moved(p, t)' = Moved(p, t)
    BY <1>1 DEF RequestTransfer, Moved
  <2> QED
    BY <1>1, <2>1, AskStep DEF RequestTransfer, Kinds, Shown
<1>2. ASSUME NEW k \in {"CASH_IN", "CASH_OUT"}, Commits(r, k)
      PROVE  Promise!Next
  <2>1. \A p, t : Moved(p, t)' = Moved(p, t)
    BY <1>2 DEF Commits, Moved
  <2>2. PICK new : new = NewRow(k, 0)
    OBVIOUS
  <2>3. row' = [row EXCEPT ![r] = new] /\ row[r] = NoRow /\ new.status = "PENDING"
    BY <1>2, <2>2, Unasked DEF Commits, NewRow
  <2>4. \A p \in Refs : Shown(p)' = Shown(p)
    BY <2>3 DEF Shown, IInv, Typed
  <2> QED
    BY <1>2, <2>1, <2>4, AskStep DEF Commits, Kinds
<1>3. ASSUME NEW k \in {"WITHDRAWAL", "DEPOSIT"}, Place(r, k)
      PROVE  Promise!Next
  <2>0. PICK op, new : /\ op = IF k = "WITHDRAWAL" THEN Withdrawal(r) ELSE PaymentRequest(r)
                       /\ new = NewRow(k, Len(jeko) + 1)
    OBVIOUS
  <2>1. op \in Operation /\ op.status = "pending" /\ Accept(op)
    BY <1>3, <2>0 DEF Place, Withdrawal, PaymentRequest, Operation
  <2>2. \A p, t : Moved(p, t)' = Moved(p, t)
    BY <2>1, Accepts, SameMoves DEF IInv
  <2>3. row' = [row EXCEPT ![r] = new] /\ row[r] = NoRow /\ new.status = "PENDING"
    BY <1>3, <2>0, Unasked DEF Place, NewRow
  <2>4. \A p \in Refs : Shown(p)' = Shown(p)
    BY <2>3 DEF Shown, IInv, Typed
  <2> QED
    BY <1>3, <2>2, <2>4, AskStep DEF Place, Kinds
<1> QED
    BY <1>1, <1>2, <1>3

\* A collection succeeds, or a payout: no event of the operation has been handled.
LEMMA CompletePromised ==
    ASSUME IInv, PInv, NEW o \in Ops, NEW s \in {"success", "error"}, Complete(o, s)
    PROVE  Promise!Next \/ UNCHANGED Promise!vars
PROOF
<1>1. PICK r \in Refs : r = jeko[o].ref /\ o \in DOMAIN jeko /\ o \in Ops /\ jeko[o] \in Operation
    BY OpAsked, OpType DEF Complete, IInv
<1>2. /\ UNCHANGED <<asked, row, credited, doubt>>
      /\ DOMAIN jeko' = DOMAIN jeko /\ jeko[o].status = "pending" /\ jeko'[o].status = s
      /\ \A p \in DOMAIN jeko : /\ jeko'[p].ref = jeko[p].ref /\ jeko'[p].type = jeko[p].type
                                /\ p # o => jeko'[p] = jeko[p]
    BY <1>1, Completes DEF IInv, Complete, Operation
<1>3. OpKind(o) /\ PayoutCovered(o) /\ o \notin dedup /\ Awaited(o)
    BY <1>1, <1>2 DEF PInv, OpsSound, IInv, MoneySound
<1>4. \A p \in Refs : Shown(p)' = Shown(p)
    BY <1>2 DEF Shown
<1>5. CASE s = "error"
  <2>1. \A p, t : Moved(p, t)' = Moved(p, t)
    BY <1>2, <1>5 DEF Moved
  <2> QED
    BY <1>2, <1>4, <2>1, Unseen
<1>6. CASE s = "success"
  <2>1. \A p, t : Moved(p, t)' = IF p = r /\ t = jeko[o].type THEN Moved(p, t) \cup {o}
                                                                ELSE Moved(p, t)
    BY <1>1, <1>2, <1>6 DEF Moved
  <2>2. r \notin doubt => Unsettled(r) /\ Moved(r, jeko[o].type) = {}
    <3>1. r \notin doubt => Unsettled(r) /\ Latest(o)
      BY <1>1, <1>3 DEF Awaited
    <3>2. ASSUME Latest(o)
          PROVE  Moved(r, jeko[o].type) = {}
      BY <1>1, <1>2, <3>2 DEF Latest, Moved
    <3> QED
      BY <3>1, <3>2
  <2>3. CASE jeko[o].type = "payment"
    <3>1. Promise!Collect(r, o)
      BY <1>1, <1>2, <1>3, <1>4, <2>1, <2>2, <2>3 DEF Promise!Collect, OpKind, Unsettled
    <3> QED
      BY <1>1, <3>1 DEF Promise!Next
  <2>4. CASE jeko[o].type = "transfer"
    <3>1. asked[r] = "TRANSFER" => Moved(r, "payment") # {}
      BY <1>1, <1>3, <2>4 DEF PayoutCovered, Transfers, MoneyIn
    <3>2. Promise!Pay(r, o)
      BY <1>1, <1>2, <1>3, <1>4, <2>1, <2>2, <2>4, <3>1 DEF Promise!Pay, OpKind, Unsettled
    <3> QED
      BY <1>1, <3>2 DEF Promise!Next
  <2> QED
    BY <1>1, <2>3, <2>4 DEF Operation
<1> QED
    BY <1>5, <1>6

\* A commit gives the answer of its call, if that is not the one its session has read.
LEMMA CommitPromised ==
    ASSUME IInv, PInv, NEW c \in Callers, Commit(c)
    PROVE  Promise!Next \/ UNCHANGED Promise!vars
PROOF
<1>0. PICK r, u : r = RefOf(c) /\ u = call[c]
    OBVIOUS
<1>1. /\ r \in Refs /\ r = RefIn(c, u) /\ ~Idle(u) /\ u.at = "commit" /\ u \in Call
      /\ Serving(c, u, r)
      /\ row'[r] # NoRow /\ \A p \in Refs : p # r => row'[p] = row[p]
      /\ u.seen = NoRow => row[r] = NoRow /\ row'[r].status = u.obj.status
      /\ u.seen # NoRow =>
            /\ row[r] # NoRow
            /\ row'[r].status = IF u.obj.status = u.seen.status THEN row[r].status ELSE u.obj.status
    BY <1>0, CommitShows
<1>2. /\ UNCHANGED <<asked, jeko, doubt>>
      /\ credited' = [credited EXCEPT ![r] = @ + u.credit] /\ credited[r] \in Nat
    BY <1>0, <1>1 DEF Commit, IInv, Typed
<1>3. \A p, t : Moved(p, t)' = Moved(p, t)
    BY <1>2 DEF Moved
<1>4. \A p \in Refs : p # r => Shown(p)' = Shown(p)
    BY <1>1 DEF Shown
<1>5. u.credit = 0 => credited' = credited
    BY <1>2 DEF IInv, Typed
<1>6. CASE u.credit = 0 /\ Shown(r)' = Shown(r)
    BY <1>2, <1>3, <1>4, <1>5, <1>6, Unseen
<1>7. CASE Keeping(u)
  <2>1. Shown(r)' = Shown(r)
    BY <1>1, <1>7 DEF Shown, Keeping
  <2> QED
    BY <1>6, <1>7, <2>1 DEF Keeping
<1>8. ASSUME ~Keeping(u)
      PROVE  Promise!Next \/ UNCHANGED Promise!vars
  <2>1. PICK a : a = u.obj.status
    OBVIOUS
  <2>2. Failing(c, u) \/ Succeeding(u, r) \/ Returning(c, u, r)
    BY <1>1, <1>8 DEF Serving, Ending
\* If the payment is not in doubt, this is the only call that serves it.
  <2>3. r \notin doubt => /\ c[1] \in {"route", "hook"} /\ Unsettled(r)
                          /\ c[1] = "route" => NoOps(r)
                          /\ c[1] = "hook" => Latest(u.op)
    <3>1. Open(u)
      BY <1>1, <2>2 DEF Failing, Succeeding, Returning, Open
    <3>2. r \notin doubt => c[1] \in {"route", "hook"}
      BY <1>1 DEF Serving, Callers
    <3> QED
      BY <1>0, <1>1, <3>1, <3>2, Exclusive
  <2>4. c[1] = "hook" => u.op \in DOMAIN jeko /\ jeko[u.op].ref = r
    BY <1>0, <1>1, HookOp
\* The answer is that of the call, or stays as another handler left it, in doubt.
  <2>5. \/ Shown(r)' = a
        \/ Shown(r)' = Shown(r) /\ u.seen # NoRow /\ a = u.seen.status
    BY <1>1, <2>1 DEF Shown
  <2>6. u.seen # NoRow /\ a = u.seen.status => r \in doubt \/ a = "PENDING"
    BY <1>1 DEF Serving
  <2>7. ASSUME Shown(r)' = a
        PROVE  [p \in Refs |-> Shown(p)]' = [[p \in Refs |-> Shown(p)] EXCEPT ![r] = a]
    BY <1>4, <2>7
  <2>8. CASE Failing(c, u)
    <3>1. CASE Shown(r)' = Shown(r)
      BY <1>6, <2>8, <3>1 DEF Failing
    <3>2. CASE Shown(r)' = a
      <4>1. r \notin doubt => Moved(r, "payment") = {} /\ Moved(r, "transfer") = {}
        BY <2>3, <2>4, <2>8 DEF Failing, Latest, NoOps, Moved
      <4>2. a = "FAILED" /\ credited' = credited
        BY <1>5, <2>1, <2>8 DEF Failing
      <4>3. Promise!Fail(r)
        BY <1>1, <1>2, <1>3, <2>3, <2>7, <3>2, <4>1, <4>2
           DEF Promise!Fail, Promise!Answer, Unsettled
      <4> QED
        BY <1>1, <4>3 DEF Promise!Next
    <3> QED
      BY <2>5, <3>1, <3>2
  <2>9. CASE Succeeding(u, r)
    <3>0. a = "SUCCESS" /\ u.credit = (IF asked[r] = "DEPOSIT" THEN 1 ELSE 0)
      BY <2>1, <2>9 DEF Succeeding
    <3>1. CASE Shown(r)' = a
      <4>1. IF asked[r] \in Promise!Paying THEN Moved(r, "transfer") # {}
                                            ELSE Moved(r, "payment") # {}
        BY <2>9 DEF Succeeding, Backed
      <4>2. credited' = IF asked[r] = "DEPOSIT" THEN [credited EXCEPT ![r] = @ + 1] ELSE credited
        BY <1>2, <1>5, <3>0
      <4>3. Promise!Succeed(r)
        BY <1>1, <1>2, <1>3, <2>3, <2>7, <3>0, <3>1, <4>1, <4>2
           DEF Promise!Succeed, Promise!Answer, Unsettled
      <4> QED
        BY <1>1, <4>3 DEF Promise!Next
    <3>2. CASE Shown(r)' # a
      <4>1. Shown(r)' = Shown(r) /\ asked[r] # "DEPOSIT"
        BY <2>1, <2>5, <2>9, <3>2 DEF Succeeding
      <4> QED
        BY <1>6, <3>0, <4>1
    <3> QED
      BY <3>1, <3>2
  <2>10. CASE Returning(c, u, r)
    <3>1. asked[r] = "TRANSFER" => Moved(r, "payment") # {}
      BY <1>0, <1>1, <2>10, CallType DEF CallOK, Covered, Transfers, MoneyIn, Returning
    <3>2. r \notin doubt => Moved(r, "transfer") = {} /\ credited[r] = 0
      BY <2>3, <2>4, <2>10 DEF Returning, Latest, NoOps, Moved, Unsettled
    <3>3. /\ credited' = [credited EXCEPT ![r] = @ + 1]
          /\ a = IF asked[r] = "TRANSFER" THEN "FAILED_PAYOUT" ELSE "FAILED"
      BY <1>2, <2>1, <2>10 DEF Returning
    <3>4. CASE Shown(r)' = a
      <4>1. Promise!Return(r)
        BY <1>1, <1>2, <1>3, <2>3, <2>7, <3>1, <3>2, <3>3, <3>4
           DEF Promise!Return, Promise!Answer, Unsettled
      <4> QED
        BY <1>1, <4>1 DEF Promise!Next
    <3>5. CASE Shown(r)' # a
      <4>1. Shown(r)' = Shown(r) /\ r \in doubt
        BY <2>5, <2>6, <3>3, <3>5
      <4>2. [p \in Refs |-> Shown(p)]' = [[p \in Refs |-> Shown(p)] EXCEPT ![r] = Shown(r)]
        BY <1>4, <4>1
      <4>3. Promise!Return(r)
        BY <1>1, <1>2, <1>3, <3>1, <3>3, <4>1, <4>2 DEF Promise!Return, Promise!Answer
      <4> QED
        BY <1>1, <4>3 DEF Promise!Next
    <3> QED
      BY <3>4, <3>5
  <2> QED
    BY <2>2, <2>8, <2>9, <2>10
<1> QED
    BY <1>7, <1>8

\* The other steps: they ask, bring a payment into doubt, or are not seen.
LEMMA OthersPromised ==
    ASSUME IInv, PInv, NEW c \in Callers,
           \/ Answered(c) \/ Refused(c) \/ ReadRow(c) \/ Check(c)
           \/ \E executed \in BOOLEAN : Unanswered(c, executed)
           \/ CheckFails(c) \/ Cut(c)
    PROVE  Promise!Next \/ UNCHANGED Promise!vars
PROOF
<1>1. UNCHANGED <<asked, row, credited, doubt, jeko>> => UNCHANGED Promise!vars
    BY UnseenMove
<1>2. CASE Answered(c)
  <2>1. /\ \A r, t : Moved(r, t)' = Moved(r, t)
        /\ \A r \in Refs : Shown(r)' = Shown(r)
    BY <1>2, PostsPending DEF Answered, Shown
  <2> QED
    BY <1>2, <2>1, Unseen DEF Answered
<1>3. CASE Refused(c) \/ ReadRow(c) \/ CheckFails(c) \/ Cut(c)
    BY <1>1, <1>3 DEF Refused, ReadRow, CheckFails, Cut
<1>4. CASE Check(c)
  <2>1. UNCHANGED <<asked, row, credited, jeko>>
    BY <1>4 DEF Check
  <2>2. CASE doubt' = doubt
    BY <1>1, <2>1, <2>2
  <2>3. CASE doubt' # doubt
    <3>1. PICK r \in Refs : doubt' = doubt \cup {r}
      <4>1. c[1] \in {"task", "cli"} /\ RefOf(c) \in Refs
        BY <1>4, CallType DEF Check, Placed, RefOf, Callers
      <4> QED
        BY <1>4, <2>3, <4>1 DEF Check
    <3>2. \A p, t : Moved(p, t)' = Moved(p, t)
      BY <2>1 DEF Moved
    <3>3. \A p \in Refs : Shown(p)' = Shown(p)
      BY <2>1 DEF Shown
    <3> QED
      BY <2>1, <3>1, <3>2, <3>3, DoubtStep
  <2> QED
    BY <2>2, <2>3
<1>5. ASSUME NEW executed \in BOOLEAN, Unanswered(c, executed)
      PROVE  Promise!Next \/ UNCHANGED Promise!vars
  <2>1. UNCHANGED <<asked, row, credited>> /\ call[c].at = "post"
    BY <1>5 DEF Unanswered
  <2>2. CASE ~executed
    BY <1>1, <1>5, <2>1, <2>2 DEF Unanswered
  <2>3. CASE executed
    <3>1. PICK r \in Refs : doubt' = doubt \cup {r}
      BY <1>5, <2>1, <2>3, PostsType DEF Unanswered
    <3>2. \A p, t : Moved(p, t)' = Moved(p, t)
      BY <1>5, <2>1, <2>3, PostsPending DEF Unanswered
    <3>3. \A p \in Refs : Shown(p)' = Shown(p)
      BY <2>1 DEF Shown
    <3> QED
      BY <2>1, <3>1, <3>2, <3>3, DoubtStep
  <2> QED
    BY <2>2, <2>3
<1> QED
    BY <1>2, <1>3, <1>4, <1>5

LEMMA StepPromised ==
    ASSUME IInv, PInv, [Next]_vars
    PROVE  [Promise!Next]_(Promise!vars)
PROOF
<1>1. UNCHANGED <<asked, row, credited, doubt, jeko>> => UNCHANGED Promise!vars
    BY UnseenMove
<1>2. CASE UNCHANGED vars
    BY <1>1, <1>2 DEF vars
<1>3. ASSUME NEW r \in Refs, Wake(r) \/ Manual(r)
      PROVE  UNCHANGED Promise!vars
    BY <1>1, <1>3 DEF Wake, Manual
<1>4. ASSUME NEW o \in Ops, (\E h \in Hooks : Deliver(h, o)) \/ Miss(o)
      PROVE  UNCHANGED Promise!vars
    BY <1>1, <1>4 DEF Deliver, Miss
<1>5. ASSUME NEW c \in Callers, Step(c)
      PROVE  Promise!Next \/ UNCHANGED Promise!vars
    BY <1>5, OthersPromised, CommitPromised DEF Step
<1>6. ASSUME NEW r \in Refs,
             \/ RequestTransfer(r) \/ RequestCashIn(r) \/ RequestCashOut(r)
             \/ \E k \in {"WITHDRAWAL", "DEPOSIT"} : Place(r, k)
      PROVE  Promise!Next
    BY <1>6, AskSteps DEF RequestCashIn, RequestCashOut
<1>7. Promise!Next \/ UNCHANGED Promise!vars
    BY <1>2, <1>3, <1>4, <1>5, <1>6, OthersPromised, CompletePromised DEF Next
<1> QED
    BY <1>7

\* Whatever is lost, repeated, late or cut off, for any number of payments: payouts and
\* credits only of collected money, answers backed by moves, and each move once and before
\* the only answer as long as nothing is in doubt.
THEOREM KeepsThePromise == Spec => KeepsPromise
PROOF
<1>1. Init => Promise!Init
  <2> SUFFICES ASSUME Init
               PROVE  Promise!Init
    OBVIOUS
  <2>1. \A r, t : Moved(r, t) = {}
    BY DEF Init, Moved
  <2>2. \A r \in Refs : Shown(r) = "PENDING"
    BY DEF Init, Shown
  <2> QED
    BY <2>1, <2>2 DEF Init, Promise!Init
<1>2. IInv /\ PInv /\ [Next]_vars => [Promise!Next]_(Promise!vars)
    BY StepPromised
<1> QED
    BY <1>1, <1>2, PromiseInvariance, PTL DEF Spec, KeepsPromise, Promise!Spec

-----------------------------------------------------------------------------
(* What the promise is worth *)

\* Credited once at most and not before its answer, paid out once at most, never both.
PaidOnce(r) ==
    /\ credited[r] <= 1 /\ (Shown(r) = "PENDING" => credited[r] = 0)
    /\ \A m, n \in Moved(r, "transfer") : m = n
    /\ credited[r] > 0 => Moved(r, "transfer") = {}
PaidOnceUnlessDoubted == \A r \in Refs : r \notin doubt => PaidOnce(r)

\* Settlement keeps it, whatever implements it.
LEMMA OnceKept ==
    ASSUME Typed, Typed', PaidOnceUnlessDoubted, [Promise!Next]_(Promise!vars),
           \A r \in Refs : Moved(r, "transfer") # {} => asked[r] \in Promise!Paying
    PROVE  PaidOnceUnlessDoubted'
PROOF
<1> SUFFICES ASSUME NEW r \in Refs, r \notin doubt'
             PROVE  PaidOnce(r)'
    BY DEF PaidOnceUnlessDoubted
<1>1. credited[r] \in Nat /\ credited'[r] \in Nat
    BY DEF Typed
<1>2. r \notin doubt => PaidOnce(r)
    BY DEF PaidOnceUnlessDoubted
<1>3. ASSUME r \notin doubt, credited'[r] = credited[r],
             Moved(r, "transfer")' = Moved(r, "transfer"),
             Shown(r)' = "PENDING" => Shown(r) = "PENDING"
      PROVE  PaidOnce(r)'
    BY <1>2, <1>3 DEF PaidOnce
<1>4. CASE UNCHANGED Promise!vars
    BY <1>3, <1>4 DEF Promise!vars
<1>5. ASSUME NEW q \in Refs, NEW k, Promise!Ask(q, k)
      PROVE  PaidOnce(r)'
    BY <1>3, <1>5 DEF Promise!Ask
<1>6. ASSUME NEW q \in Refs, NEW m, Promise!Collect(q, m)
      PROVE  PaidOnce(r)'
    BY <1>3, <1>6 DEF Promise!Collect
<1>7. ASSUME NEW q \in Refs, NEW m, Promise!Pay(q, m)
      PROVE  PaidOnce(r)'
  <2>1. /\ r \notin doubt /\ credited' = credited /\ Shown(r)' = Shown(r)
        /\ Moved(r, "transfer")' = IF r = q THEN Moved(r, "transfer") \cup {m}
                                            ELSE Moved(r, "transfer")
        /\ r = q => Moved(r, "transfer") = {} /\ credited[r] = 0
    BY <1>7 DEF Promise!Pay
  <2> QED
    BY <1>2, <2>1 DEF PaidOnce
<1>8. ASSUME NEW q \in Refs, Promise!Doubt(q)
      PROVE  PaidOnce(r)'
    BY <1>3, <1>8 DEF Promise!Doubt
<1>9. ASSUME NEW q \in Refs, Promise!Succeed(q)
      PROVE  PaidOnce(r)'
  <2>1. /\ r \notin doubt /\ Moved(r, "transfer")' = Moved(r, "transfer")
        /\ Shown(r)' = IF r = q THEN "SUCCESS" ELSE Shown(r)
        /\ r = q => Shown(r) = "PENDING"
    BY <1>9 DEF Promise!Succeed, Promise!Answer
  <2>2. credited'[r] = IF r = q /\ asked[r] = "DEPOSIT" THEN credited[r] + 1 ELSE credited[r]
    BY <1>9 DEF Promise!Succeed, Typed
  <2> QED
    BY <1>1, <1>2, <2>1, <2>2 DEF PaidOnce, Promise!Paying
<1>10. ASSUME NEW q \in Refs, Promise!Fail(q)
       PROVE  PaidOnce(r)'
    BY <1>3, <1>10 DEF Promise!Fail, Promise!Answer
<1>11. ASSUME NEW q \in Refs, Promise!Return(q)
       PROVE  PaidOnce(r)'
  <2>1. PICK a : /\ a # "PENDING" \/ q \in doubt
                 /\ r \notin doubt /\ Moved(r, "transfer")' = Moved(r, "transfer")
                 /\ Shown(r)' = IF r = q THEN a ELSE Shown(r)
                 /\ r = q => Moved(r, "transfer") = {} /\ credited[r] = 0
    BY <1>11 DEF Promise!Return, Promise!Answer
  <2>2. credited'[r] = IF r = q THEN credited[r] + 1 ELSE credited[r]
    BY <1>11 DEF Promise!Return, Typed
  <2> QED
    BY <1>1, <1>2, <2>1, <2>2 DEF PaidOnce
<1> QED
    BY <1>4, <1>5, <1>6, <1>7, <1>8, <1>9, <1>10, <1>11 DEF Promise!Next

\* README.md, "Idempotence des transactions": as long as nothing is in doubt no payment is
\* credited twice, paid out twice, or both.  The run jeko_reconcile shows that the code does
\* not keep that once a reconciliation has acted beside a webhook.
THEOREM NothingMovesTwice == Spec => []PaidOnceUnlessDoubted
PROOF
<1>1. Init => PaidOnceUnlessDoubted
    BY DEF Init, PaidOnceUnlessDoubted, PaidOnce, Moved
<1>2. ASSUME IInv, IInv', PInv, PaidOnceUnlessDoubted, [Next]_vars
      PROVE  PaidOnceUnlessDoubted'
  <2>1. \A r \in Refs : Moved(r, "transfer") # {} => asked[r] \in Promise!Paying
    BY <1>2 DEF Moved, PInv, OpsSound, OpKind
  <2>2. [Promise!Next]_(Promise!vars)
    BY <1>2, StepPromised
  <2> QED
    BY <1>2, <2>1, <2>2, OnceKept DEF IInv
<1> QED
    BY <1>1, <1>2, PromiseInvariance, PTL DEF Spec
=============================================================================
