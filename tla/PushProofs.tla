----------------------------- MODULE PushProofs -----------------------------
(***************************************************************************)
(* The safety properties of Push hold for every number of requests, users, *)
(* tokens and connections.  Pool and transfers need only the shape of a    *)
(* request (Shape); the ownership of a device needs two more facts: rows   *)
(* read earlier are rows of the table as it is or was (RowsSound), and the *)
(* registration that began last is alone for as long as it claims to be    *)
(* (LatestSound).                                                          *)
(***************************************************************************)
EXTENDS Push, TLAPS

\* What the stage of a request says of it.
Shape ==
    \A q \in Requests :
        /\ req[q].at = "idle" => req[q].kind = "none"
        /\ req[q].kind = "register" =>
              /\ req[q].at \in {"called", "write", "done"}
              /\ req[q].user \in Users /\ req[q].token \in Tokens
        /\ req[q].at = "write" => req[q].kind = "register"
        /\ req[q].at \in {"idle", "called", "write", "checkout", "lookup", "background", "done"}
              => req[q].conn = None
        /\ req[q].at \in {"idle", "called", "write", "checkout", "query"} => ~req[q].committed

\* The rows of the table and those that requests have read.
Known == {d \in Device : \/ d \in devices
                         \/ \E q \in Requests : \/ d = req[q].seen /\ d # None
                                                \/ d \in req[q].left \cup req[q].invalid}

\* An id stands for one token for ever, and only rows of dead tokens are marked invalid.
RowsSound ==
    /\ \A d \in Known : d.id <= inserted
    /\ \A d, e \in Known : d.id = e.id => d.token = e.token
    /\ \A q \in Requests : \A d \in req[q].invalid : d.token \in dead
    /\ \A q \in Requests : req[q].seen # None => req[q].seen.token = req[q].token

\* Of q, the request that last began to register t: while it is alone no other registration
\* of t is in progress, and the row it has read is still the row of the table.
LatestOf(t, q) ==
    /\ req[q].kind = "register" /\ req[q].token = t
    /\ req[q].alone => \A p \in Requests \ {q} :
          req[p].kind = "register" /\ req[p].token = t => req[p].at = "done"
    /\ (req[q].alone /\ req[q].at = "write" /\ t \notin dead /\ req[q].seen # None)
          => req[q].seen \in devices

LatestSound == \A t \in Tokens : latest[t] # None => LatestOf(t, latest[t])

IInv ==
    /\ TypeOK /\ Shape
    /\ PoolBalanced /\ OnlyThePoolFailsTransfers
    /\ RowsSound /\ LatestSound /\ LastLoginOwns

-----------------------------------------------------------------------------

\* Every step keeps the types, and one request at most keeps the event loop.
LEMMA TypeStep ==
    ASSUME TypeOK, Shape, [Next]_vars
    PROVE  TypeOK'
PROOF
<1> USE NoneAssumption, MaxRowsAssumption
<1>1. ASSUME NEW q \in Requests, NEW u \in Users, NEW t \in Tokens, Register(q, u, t)
      PROVE  TypeOK'
    BY <1>1 DEF Register, TypeOK, Request, At, Stages, InLoop, Kinds, LoopFree, Idle
<1>2. ASSUME NEW q \in Requests, NEW k \in {"read", "transfer", "admin"}, NEW u \in Users, Call(q,
             k, u)
      PROVE  TypeOK'
    BY <1>2 DEF Call, TypeOK, Request, At, Stages, InLoop, Kinds, LoopFree, Idle
<1>3. ASSUME NEW q \in Requests, ReadDevice(q)
      PROVE  TypeOK'
  <2>1. PICK d \in Device \cup {None} : req' = [req EXCEPT ![q].at = "write", ![q].seen = d]
    BY <1>3 DEF ReadDevice, RowsOf, TypeOK
  <2>2. req' \in [Requests -> Request]
    <3>1. req[q] \in Request
      BY DEF TypeOK
    <3> DEFINE r == [req[q] EXCEPT !.at = "write", !.seen = d]
    <3>2. r \in Request
      BY <3>1 DEF Request, Stages, InLoop, At
    <3>3. /\ req' = [p \in Requests |-> req'[p]]
          /\ req'[q] = r
          /\ \A p \in Requests \ {q} : req'[p] = req[p]
      BY <1>3, <2>1 DEF ReadDevice, At, TypeOK
    <3> QED
      BY <3>2, <3>3 DEF TypeOK
  <2>3. \A p \in Requests : req'[p].at \in InLoop <=> loop' = p
    BY <1>3, <2>1 DEF ReadDevice, LoopFree, TypeOK, Request, At, Stages, InLoop, Kinds
  <2> QED
    BY <1>3, <2>1, <2>2, <2>3 DEF ReadDevice, TypeOK
<1>4. ASSUME NEW q \in Requests, WriteDevice(q)
      PROVE  TypeOK'
  <2>1. req' \in [Requests -> Request]
    BY <1>4 DEF WriteDevice, InsertDevice, UpdateDevice, Ends, TypeOK, Request, At, Stages,
       InLoop, Kinds
  <2>2. \A p \in Requests : req'[p].at \in InLoop <=> loop' = p
    BY <1>4 DEF WriteDevice, InsertDevice, UpdateDevice, Ends, LoopFree, TypeOK, Request, At,
       Stages, InLoop, Kinds
  <2>3. req[q].user \in Users /\ req[q].token \in Tokens
    BY <1>4 DEF WriteDevice, At, Shape
  <2>4. devices' \subseteq Device /\ inserted' \in 0..MaxRows
    BY <1>4, <2>3 DEF WriteDevice, InsertDevice, UpdateDevice, Device, TypeOK
  <2> QED
    BY <1>4, <2>1, <2>2, <2>3, <2>4 DEF WriteDevice, TypeOK
<1>5. ASSUME NEW q \in Requests, Enter(q)
      PROVE  TypeOK'
    BY <1>5 DEF Enter, TypeOK, Request, At, Stages, InLoop, Kinds, LoopFree, Idle
<1>6. ASSUME NEW q \in Requests, Connect(q)
      PROVE  TypeOK'
  <2>1. PICK c \in free : Connect(q)!2!(c)
    BY <1>6 DEF Connect
  <2>2. Connected(q) \in Stages /\ (Connected(q) \in InLoop <=> req[q].at \in InLoop)
    BY <1>6 DEF Connect, Waits, Connected, At, Stages, InLoop
  <2>3. DevicesOf(req[q].user) \subseteq Device
    BY DEF DevicesOf, TypeOK
  <2>4. req' \in [Requests -> Request]
    <3>1. req[q] \in Request
      BY DEF TypeOK
    <3> DEFINE left == IF At(q, "checkout") THEN {} ELSE DevicesOf(req[q].user)
    <3>4. left \in SUBSET Device
      BY <2>3
    <3> DEFINE stage == Connected(q)
    <3>5. stage \in Stages
      BY <2>2
    <3> HIDE DEF left, stage
    <3> DEFINE r == [req[q] EXCEPT !.at = stage, !.conn = c, !.left = left]
    <3>0. c \in Connections
      BY DEF TypeOK
    <3>2. r \in Request
      BY <3>1, <3>4, <3>5, <3>0 DEF Request
    <3>3. /\ req' = [p \in Requests |-> req'[p]]
          /\ req'[q] = r
          /\ \A p \in Requests \ {q} : req'[p] = req[p]
      BY <1>6, <2>1 DEF Connect, At, TypeOK, left, stage
    <3> QED
      BY <3>2, <3>3 DEF TypeOK
  <2>5. \A p \in Requests : req'[p].at \in InLoop <=> loop' = p
    BY <1>6, <2>1, <2>2 DEF Connect, TypeOK
  <2> QED
    BY <1>6, <2>1, <2>2, <2>3, <2>4, <2>5 DEF Connect, TypeOK
<1>7. ASSUME NEW q \in Requests, Starve(q)
      PROVE  TypeOK'
  <2>1. req' \in [Requests -> Request]
    <3>1. req[q] \in Request
      BY DEF TypeOK
    <3> DEFINE stage == IF At(q, "background") THEN "done" ELSE "closing"
               answer == IF At(q, "background") THEN req[q].answer ELSE "error"
    <3>4. stage \in Stages /\ answer \in {"none", "ok", "error"}
      BY <3>1 DEF Request, Stages
    <3> HIDE DEF stage, answer
    <3> DEFINE r == [req[q] EXCEPT !.at = stage, !.answer = answer, !.starved = TRUE]
    <3>2. r \in Request
      BY <3>1, <3>4 DEF Request
    <3>3. /\ req' = [p \in Requests |-> req'[p]]
          /\ req'[q] = r
          /\ \A p \in Requests \ {q} : req'[p] = req[p]
      BY <1>7 DEF Starve, At, TypeOK, stage, answer
    <3> QED
      BY <3>2, <3>3 DEF TypeOK
  <2>2. \A p \in Requests : req'[p].at \in InLoop <=> loop' = p
    BY <1>7 DEF Starve, Waits, LoopFree, TypeOK, Request, At, Stages, InLoop, Kinds
  <2> QED
    BY <1>7, <2>1, <2>2 DEF Starve, TypeOK
<1>8. ASSUME NEW q \in Requests, Read(q)
      PROVE  TypeOK'
  <2>1. req' \in [Requests -> Request]
    <3>1. req[q] \in Request
      BY DEF TypeOK
    <3> DEFINE r == [req[q] EXCEPT !.at = "closing", !.answer = "ok"]
    <3>2. r \in Request
      BY <3>1 DEF Request, Stages, InLoop, At
    <3>3. /\ req' = [p \in Requests |-> req'[p]]
          /\ req'[q] = r
          /\ \A p \in Requests \ {q} : req'[p] = req[p]
      BY <1>8 DEF Read, At, TypeOK
    <3> QED
      BY <3>2, <3>3 DEF TypeOK
  <2>2. \A p \in Requests : req'[p].at \in InLoop <=> loop' = p
    BY <1>8 DEF Read, LoopFree, TypeOK, Request, At, Stages, InLoop, Kinds
  <2> QED
    BY <1>8, <2>1, <2>2 DEF Read, TypeOK
<1>9. ASSUME NEW q \in Requests, NEW success \in BOOLEAN, Operate(q, success)
      PROVE  TypeOK'
    BY <1>9 DEF Operate, Released, TypeOK, Request, At, Stages, InLoop, Kinds, LoopFree, Idle
<1>10. ASSUME NEW q \in Requests, Close(q)
      PROVE  TypeOK'
    BY <1>10 DEF Close, Released, TypeOK, Request, At, Stages, InLoop, Kinds, LoopFree, Idle
<1>11. ASSUME NEW q \in Requests, NEW d \in req[q].left, NEW reached \in BOOLEAN, Send(q, d,
              reached)
      PROVE  TypeOK'
  <2>1. req' \in [Requests -> Request]
    <3>1. req[q] \in Request
      BY DEF TypeOK
    <3> DEFINE r == [req[q] EXCEPT !.left = @ \ {d}, !.invalid = IF Rejected(d, reached) THEN @
                                   \cup {d} ELSE @]
    <3>2. r \in Request
      BY <3>1 DEF Request, Stages, InLoop, At
    <3>3. /\ req' = [p \in Requests |-> req'[p]]
          /\ req'[q] = r
          /\ \A p \in Requests \ {q} : req'[p] = req[p]
      BY <1>11 DEF Send, At, TypeOK
    <3> QED
      BY <3>2, <3>3 DEF TypeOK
  <2>2. \A p \in Requests : req'[p].at \in InLoop <=> loop' = p
    BY <1>11 DEF Send, Notifying, LoopFree, TypeOK, Request, At, Stages, InLoop, Kinds
  <2> QED
    BY <1>11, <2>1, <2>2 DEF Send, TypeOK
<1>12. ASSUME NEW q \in Requests, Delete(q)
      PROVE  TypeOK'
    BY <1>12 DEF Delete, Notifying, RouteEnds, ThreadEnds, Released, TypeOK, Request, At, Stages,
       InLoop, Kinds, LoopFree, Idle
<1>13. ASSUME NEW q \in Requests, NotifyFails(q)
      PROVE  TypeOK'
    BY <1>13 DEF NotifyFails, Notifying, RouteEnds, ThreadEnds, Released, Swallowed, TypeOK,
       Request, At, Stages, InLoop, Kinds, LoopFree, Idle
<1>14. ASSUME NEW q \in Requests, NoAccess(q)
      PROVE  TypeOK'
    BY <1>14 DEF NoAccess, TypeOK, Request, At, Stages, InLoop, Kinds, LoopFree, Idle
<1>15. ASSUME NEW t \in Tokens, Expire(t)
      PROVE  TypeOK'
    BY <1>15 DEF Expire, TypeOK, Request, At, Stages, InLoop, Kinds, LoopFree, Idle
<1>16. CASE UNCHANGED vars
    BY <1>16 DEF vars, TypeOK, Request, At, Stages, InLoop, Kinds
<1> QED
    BY <1>1, <1>2, <1>3, <1>4, <1>5, <1>6, <1>7, <1>8, <1>9, <1>10, <1>11, <1>12, <1>13, <1>14,
       <1>15, <1>16 DEF Next, Step

\* Every step keeps the shape of the requests.
LEMMA ShapeStep ==
    ASSUME TypeOK, Shape, [Next]_vars
    PROVE  Shape'
PROOF
<1>1. ASSUME NEW q \in Requests, NEW u \in Users, NEW t \in Tokens, Register(q, u, t)
      PROVE  Shape'
    BY <1>1 DEF Register, Shape, TypeOK, Request, At, Idle
<1>2. ASSUME NEW q \in Requests, NEW k \in {"read", "transfer", "admin"}, NEW u \in Users, Call(q,
             k, u)
      PROVE  Shape'
    BY <1>2 DEF Call, Shape, TypeOK, Request, At, Idle
<1>3. ASSUME NEW q \in Requests, ReadDevice(q)
      PROVE  Shape'
    BY <1>3 DEF ReadDevice, RowsOf, Device, Shape, TypeOK, Request, At, Idle
<1>4. ASSUME NEW q \in Requests, WriteDevice(q)
      PROVE  Shape'
    BY <1>4 DEF WriteDevice, InsertDevice, UpdateDevice, RowsOf, Ends, Device, Shape, TypeOK,
       Request, At, Idle
<1>5. ASSUME NEW q \in Requests, Enter(q)
      PROVE  Shape'
    BY <1>5 DEF Enter, Shape, TypeOK, Request, At, Idle
<1>6. ASSUME NEW q \in Requests, Connect(q)
      PROVE  Shape'
    BY <1>6 DEF Connect, Waits, Connected, DevicesOf, Shape, TypeOK, Request, At, Idle
<1>7. ASSUME NEW q \in Requests, Starve(q)
      PROVE  Shape'
    BY <1>7 DEF Starve, Waits, Shape, TypeOK, Request, At, Idle
<1>8. ASSUME NEW q \in Requests, Read(q)
      PROVE  Shape'
    BY <1>8 DEF Read, Shape, TypeOK, Request, At, Idle
<1>9. ASSUME NEW q \in Requests, NEW success \in BOOLEAN, Operate(q, success)
      PROVE  Shape'
    BY <1>9 DEF Operate, Released, Shape, TypeOK, Request, At, Idle
<1>10. ASSUME NEW q \in Requests, Close(q)
      PROVE  Shape'
    BY <1>10 DEF Close, Released, Shape, TypeOK, Request, At, Idle
<1>11. ASSUME NEW q \in Requests, NEW d \in req[q].left, NEW reached \in BOOLEAN, Send(q, d,
              reached)
      PROVE  Shape'
    BY <1>11 DEF Send, Notifying, Rejected, Shape, TypeOK, Request, At, Idle
<1>12. ASSUME NEW q \in Requests, Delete(q)
      PROVE  Shape'
    BY <1>12 DEF Delete, Notifying, RouteEnds, ThreadEnds, Released, Shape, TypeOK, Request, At,
       Idle
<1>13. ASSUME NEW q \in Requests, NotifyFails(q)
      PROVE  Shape'
    BY <1>13 DEF NotifyFails, Notifying, RouteEnds, ThreadEnds, Released, Swallowed, Shape,
       TypeOK, Request, At, Idle
<1>14. ASSUME NEW q \in Requests, NoAccess(q)
      PROVE  Shape'
    BY <1>14 DEF NoAccess, Shape, TypeOK, Request, At, Idle
<1>15. ASSUME NEW t \in Tokens, Expire(t)
      PROVE  Shape'
    BY <1>15 DEF Expire, Shape, TypeOK, Request, At, Idle
<1>16. CASE UNCHANGED vars
    BY <1>16 DEF vars, Shape, TypeOK, Request, At, Idle
<1> QED
    BY <1>1, <1>2, <1>3, <1>4, <1>5, <1>6, <1>7, <1>8, <1>9, <1>10, <1>11, <1>12, <1>13, <1>14,
       <1>15, <1>16 DEF Next, Step

\* A connection is taken from the pool and given back to it by the request that holds it.
LEMMA PoolStep ==
    ASSUME TypeOK, Shape, PoolBalanced, [Next]_vars
    PROVE  PoolBalanced'
PROOF
<1> USE NoneAssumption
<1>1. ASSUME NEW q \in Requests, NEW u \in Users, NEW t \in Tokens, Register(q, u, t)
      PROVE  PoolBalanced'
    BY <1>1 DEF Register, PoolBalanced, Shape, TypeOK, Request, At, Idle
<1>2. ASSUME NEW q \in Requests, NEW k \in {"read", "transfer", "admin"}, NEW u \in Users, Call(q,
             k, u)
      PROVE  PoolBalanced'
    BY <1>2 DEF Call, PoolBalanced, Shape, TypeOK, Request, At, Idle
<1>3. ASSUME NEW q \in Requests, ReadDevice(q)
      PROVE  PoolBalanced'
    BY <1>3 DEF ReadDevice, RowsOf, Device, PoolBalanced, Shape, TypeOK, Request, At, Idle
<1>4. ASSUME NEW q \in Requests, WriteDevice(q)
      PROVE  PoolBalanced'
    BY <1>4 DEF WriteDevice, InsertDevice, UpdateDevice, RowsOf, Ends, Device, PoolBalanced,
       Shape, TypeOK, Request, At, Idle
<1>5. ASSUME NEW q \in Requests, Enter(q)
      PROVE  PoolBalanced'
    BY <1>5 DEF Enter, PoolBalanced, Shape, TypeOK, Request, At, Idle
<1>6. ASSUME NEW q \in Requests, Connect(q)
      PROVE  PoolBalanced'
    BY <1>6 DEF Connect, Waits, Connected, DevicesOf, PoolBalanced, Shape, TypeOK, Request, At,
       Idle
<1>7. ASSUME NEW q \in Requests, Starve(q)
      PROVE  PoolBalanced'
    BY <1>7 DEF Starve, Waits, PoolBalanced, Shape, TypeOK, Request, At, Idle
<1>8. ASSUME NEW q \in Requests, Read(q)
      PROVE  PoolBalanced'
    BY <1>8 DEF Read, PoolBalanced, Shape, TypeOK, Request, At, Idle
<1>9. ASSUME NEW q \in Requests, NEW success \in BOOLEAN, Operate(q, success)
      PROVE  PoolBalanced'
    BY <1>9 DEF Operate, Released, PoolBalanced, Shape, TypeOK, Request, At, Idle
<1>10. ASSUME NEW q \in Requests, Close(q)
      PROVE  PoolBalanced'
    BY <1>10 DEF Close, Released, PoolBalanced, Shape, TypeOK, Request, At, Idle
<1>11. ASSUME NEW q \in Requests, NEW d \in req[q].left, NEW reached \in BOOLEAN, Send(q, d,
              reached)
      PROVE  PoolBalanced'
    BY <1>11 DEF Send, Notifying, Rejected, PoolBalanced, Shape, TypeOK, Request, At, Idle
<1>12. ASSUME NEW q \in Requests, Delete(q)
      PROVE  PoolBalanced'
    BY <1>12 DEF Delete, Notifying, RouteEnds, ThreadEnds, Released, PoolBalanced, Shape, TypeOK,
       Request, At, Idle
<1>13. ASSUME NEW q \in Requests, NotifyFails(q)
      PROVE  PoolBalanced'
  <2>1. CASE At(q, "notify")
    <3>1. UNCHANGED free /\ \A p \in Requests : req'[p].conn = req[p].conn
      BY <1>13, <2>1 DEF NotifyFails, RouteEnds, TypeOK, Request
    <3> QED
      BY <3>1 DEF PoolBalanced
  <2>2. CASE ~At(q, "notify")
    BY <1>13, <2>2 DEF NotifyFails, ThreadEnds, Released, PoolBalanced, TypeOK, Request
  <2> QED
    BY <2>1, <2>2
<1>14. ASSUME NEW q \in Requests, NoAccess(q)
      PROVE  PoolBalanced'
    BY <1>14 DEF NoAccess, PoolBalanced, Shape, TypeOK, Request, At, Idle
<1>15. ASSUME NEW t \in Tokens, Expire(t)
      PROVE  PoolBalanced'
    BY <1>15 DEF Expire, PoolBalanced, Shape, TypeOK, Request, At, Idle
<1>16. CASE UNCHANGED vars
    BY <1>16 DEF vars, PoolBalanced, Shape, TypeOK, Request, At, Idle
<1> QED
    BY <1>1, <1>2, <1>3, <1>4, <1>5, <1>6, <1>7, <1>8, <1>9, <1>10, <1>11, <1>12, <1>13, <1>14,
       <1>15, <1>16 DEF Next, Step

\* After the commit of a transfer only the time-out of the pool leads to an error.
LEMMA TransfersStep ==
    ASSUME TypeOK, Shape, OnlyThePoolFailsTransfers, [Next]_vars
    PROVE  OnlyThePoolFailsTransfers'
PROOF
<1>1. ASSUME NEW q \in Requests, NEW u \in Users, NEW t \in Tokens, Register(q, u, t)
      PROVE  OnlyThePoolFailsTransfers'
    BY <1>1 DEF Register, OnlyThePoolFailsTransfers, Shape, TypeOK, Request, At, Idle
<1>2. ASSUME NEW q \in Requests, NEW k \in {"read", "transfer", "admin"}, NEW u \in Users, Call(q,
             k, u)
      PROVE  OnlyThePoolFailsTransfers'
    BY <1>2 DEF Call, OnlyThePoolFailsTransfers, Shape, TypeOK, Request, At, Idle
<1>3. ASSUME NEW q \in Requests, ReadDevice(q)
      PROVE  OnlyThePoolFailsTransfers'
    BY <1>3 DEF ReadDevice, RowsOf, Device, OnlyThePoolFailsTransfers, Shape, TypeOK, Request, At,
       Idle
<1>4. ASSUME NEW q \in Requests, WriteDevice(q)
      PROVE  OnlyThePoolFailsTransfers'
    BY <1>4 DEF WriteDevice, InsertDevice, UpdateDevice, RowsOf, Ends, Device,
       OnlyThePoolFailsTransfers, Shape, TypeOK, Request, At, Idle
<1>5. ASSUME NEW q \in Requests, Enter(q)
      PROVE  OnlyThePoolFailsTransfers'
    BY <1>5 DEF Enter, OnlyThePoolFailsTransfers, Shape, TypeOK, Request, At, Idle
<1>6. ASSUME NEW q \in Requests, Connect(q)
      PROVE  OnlyThePoolFailsTransfers'
    BY <1>6 DEF Connect, Waits, Connected, DevicesOf, OnlyThePoolFailsTransfers, Shape, TypeOK,
       Request, At, Idle
<1>7. ASSUME NEW q \in Requests, Starve(q)
      PROVE  OnlyThePoolFailsTransfers'
    BY <1>7 DEF Starve, Waits, OnlyThePoolFailsTransfers, Shape, TypeOK, Request, At, Idle
<1>8. ASSUME NEW q \in Requests, Read(q)
      PROVE  OnlyThePoolFailsTransfers'
    BY <1>8 DEF Read, OnlyThePoolFailsTransfers, Shape, TypeOK, Request, At, Idle
<1>9. ASSUME NEW q \in Requests, NEW success \in BOOLEAN, Operate(q, success)
      PROVE  OnlyThePoolFailsTransfers'
    BY <1>9 DEF Operate, Released, OnlyThePoolFailsTransfers, Shape, TypeOK, Request, At, Idle
<1>10. ASSUME NEW q \in Requests, Close(q)
      PROVE  OnlyThePoolFailsTransfers'
    BY <1>10 DEF Close, Released, OnlyThePoolFailsTransfers, Shape, TypeOK, Request, At, Idle
<1>11. ASSUME NEW q \in Requests, NEW d \in req[q].left, NEW reached \in BOOLEAN, Send(q, d,
              reached)
      PROVE  OnlyThePoolFailsTransfers'
    BY <1>11 DEF Send, Notifying, Rejected, OnlyThePoolFailsTransfers, Shape, TypeOK, Request, At,
       Idle
<1>12. ASSUME NEW q \in Requests, Delete(q)
      PROVE  OnlyThePoolFailsTransfers'
    BY <1>12 DEF Delete, Notifying, RouteEnds, ThreadEnds, Released, OnlyThePoolFailsTransfers,
       Shape, TypeOK, Request, At, Idle
<1>13. ASSUME NEW q \in Requests, NotifyFails(q)
      PROVE  OnlyThePoolFailsTransfers'
    BY <1>13 DEF NotifyFails, Notifying, RouteEnds, ThreadEnds, Released, Swallowed,
       OnlyThePoolFailsTransfers, Shape, TypeOK, Request, At, Idle
<1>14. ASSUME NEW q \in Requests, NoAccess(q)
      PROVE  OnlyThePoolFailsTransfers'
    BY <1>14 DEF NoAccess, OnlyThePoolFailsTransfers, Shape, TypeOK, Request, At, Idle
<1>15. ASSUME NEW t \in Tokens, Expire(t)
      PROVE  OnlyThePoolFailsTransfers'
    BY <1>15 DEF Expire, OnlyThePoolFailsTransfers, Shape, TypeOK, Request, At, Idle
<1>16. CASE UNCHANGED vars
    BY <1>16 DEF vars, OnlyThePoolFailsTransfers, Shape, TypeOK, Request, At, Idle
<1> QED
    BY <1>1, <1>2, <1>3, <1>4, <1>5, <1>6, <1>7, <1>8, <1>9, <1>10, <1>11, <1>12, <1>13, <1>14,
       <1>15, <1>16 DEF Next, Step

-----------------------------------------------------------------------------

\* Rows that are read are rows of the table; a new row has an id no row ever had.
LEMMA RowsStep ==
    ASSUME TypeOK, Shape, RowsSound, [Next]_vars
    PROVE  RowsSound'
PROOF
<1> USE NoneAssumption
<1>1. ASSUME NEW q \in Requests, NEW u \in Users, NEW t \in Tokens, Register(q, u, t)
      PROVE  RowsSound'
  <2>1. Known' \subseteq Known /\ UNCHANGED inserted
    BY <1>1 DEF Register, Known, TypeOK, Request, At, Idle
  <2>2. \A p \in Requests : \A e \in req'[p].invalid : e.token \in dead'
    BY <1>1 DEF Register, RowsSound, TypeOK, Request, At, Idle
  <2>3. \A p \in Requests : req'[p].seen # None => req'[p].seen.token = req'[p].token
    BY <1>1 DEF Register, RowsSound, TypeOK, Request, At, Idle
  <2> QED
    BY <2>1, <2>2, <2>3 DEF RowsSound
<1>2. ASSUME NEW q \in Requests, NEW k \in {"read", "transfer", "admin"}, NEW u \in Users, Call(q,
             k, u)
      PROVE  RowsSound'
  <2>1. Known' \subseteq Known /\ UNCHANGED inserted
    BY <1>2 DEF Call, Known, TypeOK, Request, At, Idle
  <2>2. \A p \in Requests : \A e \in req'[p].invalid : e.token \in dead'
    BY <1>2 DEF Call, RowsSound, TypeOK, Request, At, Idle
  <2>3. \A p \in Requests : req'[p].seen # None => req'[p].seen.token = req'[p].token
    BY <1>2 DEF Call, RowsSound, TypeOK, Request, At, Idle
  <2> QED
    BY <2>1, <2>2, <2>3 DEF RowsSound
<1>3. ASSUME NEW q \in Requests, ReadDevice(q)
      PROVE  RowsSound'
  <2>1. Known' \subseteq Known /\ UNCHANGED inserted
    BY <1>3 DEF ReadDevice, RowsOf, Device, Known, TypeOK, Request, At, Idle
  <2>2. \A p \in Requests : \A e \in req'[p].invalid : e.token \in dead'
    BY <1>3 DEF ReadDevice, RowsOf, Device, RowsSound, TypeOK, Request, At, Idle
  <2>3. \A p \in Requests : req'[p].seen # None => req'[p].seen.token = req'[p].token
    BY <1>3 DEF ReadDevice, RowsOf, Device, RowsSound, TypeOK, Request, At, Idle
  <2> QED
    BY <2>1, <2>2, <2>3 DEF RowsSound
<1>4. ASSUME NEW q \in Requests, WriteDevice(q)
      PROVE  RowsSound'
  <2>1. /\ \A p \in Requests : /\ req'[p].seen = req[p].seen /\ req'[p].token = req[p].token
                               /\ req'[p].left = req[p].left /\ req'[p].invalid = req[p].invalid
        /\ dead' = dead
    BY <1>4 DEF WriteDevice, InsertDevice, UpdateDevice, Ends, TypeOK, Request
  <2>2. ASSUME NEW d \in Known'
        PROVE  \/ inserted' >= inserted /\ \E e \in Known : e.id = d.id /\ e.token = d.token
               \/ inserted' = inserted + 1 /\ d.id = inserted + 1 /\ d.token = req[q].token
    <3>1. CASE d \in Known
      BY <1>4, <3>1 DEF WriteDevice, InsertDevice, UpdateDevice, TypeOK
    <3>2. CASE d \in devices' /\ d \notin devices
      <4>1. CASE req[q].seen = None
        BY <1>4, <3>2, <4>1 DEF WriteDevice, InsertDevice, UpdateDevice
      <4>2. CASE req[q].seen # None
        <5>1. PICK e \in devices : d = [e EXCEPT !.user = req[q].user]
          BY <1>4, <3>2, <4>2 DEF WriteDevice, InsertDevice, UpdateDevice
        <5>2. e \in Known /\ e.id = d.id /\ e.token = d.token
          BY <5>1 DEF Known, TypeOK, Device
        <5>3. inserted' = inserted
          BY <1>4, <4>2 DEF WriteDevice, InsertDevice, UpdateDevice
        <5> QED
          BY <5>2, <5>3 DEF TypeOK
      <4> QED
        BY <4>1, <4>2
    <3> QED
      BY <2>1, <3>1, <3>2 DEF Known
  <2>3. ASSUME NEW d \in Known'
        PROVE  d.id <= inserted'
    <3>1. inserted \in Nat /\ inserted' \in Nat
      BY <1>4, MaxRowsAssumption DEF WriteDevice, InsertDevice, UpdateDevice, TypeOK
    <3>2. \A e \in Known : e.id \in Nat /\ e.id <= inserted
      BY MaxRowsAssumption DEF RowsSound, Known, Device
    <3> QED
      BY <2>2, <2>3, <3>1, <3>2
  <2>4. ASSUME NEW d \in Known', NEW e \in Known', d.id = e.id
        PROVE  d.token = e.token
    <3>1. \A f \in Known : f.id # inserted + 1
      BY MaxRowsAssumption DEF RowsSound, Known, Device, TypeOK
    <3>2. inserted # inserted + 1
      BY MaxRowsAssumption DEF TypeOK
    <3> QED
      BY <2>2, <2>4, <3>1, <3>2 DEF RowsSound
  <2> QED
    BY <2>1, <2>3, <2>4 DEF RowsSound
<1>5. ASSUME NEW q \in Requests, Enter(q)
      PROVE  RowsSound'
  <2>1. Known' \subseteq Known /\ UNCHANGED inserted
    BY <1>5 DEF Enter, Known, TypeOK, Request, At, Idle
  <2>2. \A p \in Requests : \A e \in req'[p].invalid : e.token \in dead'
    BY <1>5 DEF Enter, RowsSound, TypeOK, Request, At, Idle
  <2>3. \A p \in Requests : req'[p].seen # None => req'[p].seen.token = req'[p].token
    BY <1>5 DEF Enter, RowsSound, TypeOK, Request, At, Idle
  <2> QED
    BY <2>1, <2>2, <2>3 DEF RowsSound
<1>6. ASSUME NEW q \in Requests, Connect(q)
      PROVE  RowsSound'
  <2>1. Known' \subseteq Known /\ UNCHANGED inserted
    BY <1>6 DEF Connect, Waits, Connected, DevicesOf, Known, TypeOK, Request, At, Idle
  <2>2. \A p \in Requests : \A e \in req'[p].invalid : e.token \in dead'
    BY <1>6 DEF Connect, Waits, Connected, DevicesOf, RowsSound, TypeOK, Request, At, Idle
  <2>3. \A p \in Requests : req'[p].seen # None => req'[p].seen.token = req'[p].token
    BY <1>6 DEF Connect, Waits, Connected, DevicesOf, RowsSound, TypeOK, Request, At, Idle
  <2> QED
    BY <2>1, <2>2, <2>3 DEF RowsSound
<1>7. ASSUME NEW q \in Requests, Starve(q)
      PROVE  RowsSound'
  <2>1. Known' \subseteq Known /\ UNCHANGED inserted
    BY <1>7 DEF Starve, Waits, Known, TypeOK, Request, At, Idle
  <2>2. \A p \in Requests : \A e \in req'[p].invalid : e.token \in dead'
    BY <1>7 DEF Starve, Waits, RowsSound, TypeOK, Request, At, Idle
  <2>3. \A p \in Requests : req'[p].seen # None => req'[p].seen.token = req'[p].token
    BY <1>7 DEF Starve, Waits, RowsSound, TypeOK, Request, At, Idle
  <2> QED
    BY <2>1, <2>2, <2>3 DEF RowsSound
<1>8. ASSUME NEW q \in Requests, Read(q)
      PROVE  RowsSound'
  <2>1. Known' \subseteq Known /\ UNCHANGED inserted
    BY <1>8 DEF Read, Known, TypeOK, Request, At, Idle
  <2>2. \A p \in Requests : \A e \in req'[p].invalid : e.token \in dead'
    BY <1>8 DEF Read, RowsSound, TypeOK, Request, At, Idle
  <2>3. \A p \in Requests : req'[p].seen # None => req'[p].seen.token = req'[p].token
    BY <1>8 DEF Read, RowsSound, TypeOK, Request, At, Idle
  <2> QED
    BY <2>1, <2>2, <2>3 DEF RowsSound
<1>9. ASSUME NEW q \in Requests, NEW success \in BOOLEAN, Operate(q, success)
      PROVE  RowsSound'
  <2>1. Known' \subseteq Known /\ UNCHANGED inserted
    BY <1>9 DEF Operate, Released, Known, TypeOK, Request, At, Idle
  <2>2. \A p \in Requests : \A e \in req'[p].invalid : e.token \in dead'
    BY <1>9 DEF Operate, Released, RowsSound, TypeOK, Request, At, Idle
  <2>3. \A p \in Requests : req'[p].seen # None => req'[p].seen.token = req'[p].token
    BY <1>9 DEF Operate, Released, RowsSound, TypeOK, Request, At, Idle
  <2> QED
    BY <2>1, <2>2, <2>3 DEF RowsSound
<1>10. ASSUME NEW q \in Requests, Close(q)
      PROVE  RowsSound'
  <2>1. Known' \subseteq Known /\ UNCHANGED inserted
    BY <1>10 DEF Close, Released, Known, TypeOK, Request, At, Idle
  <2>2. \A p \in Requests : \A e \in req'[p].invalid : e.token \in dead'
    BY <1>10 DEF Close, Released, RowsSound, TypeOK, Request, At, Idle
  <2>3. \A p \in Requests : req'[p].seen # None => req'[p].seen.token = req'[p].token
    BY <1>10 DEF Close, Released, RowsSound, TypeOK, Request, At, Idle
  <2> QED
    BY <2>1, <2>2, <2>3 DEF RowsSound
<1>11. ASSUME NEW q \in Requests, NEW d \in req[q].left, NEW reached \in BOOLEAN, Send(q, d,
              reached)
      PROVE  RowsSound'
  <2>1. Known' \subseteq Known /\ UNCHANGED inserted
    BY <1>11 DEF Send, Notifying, Rejected, Known, TypeOK, Request, At, Idle
  <2>2. \A p \in Requests : \A e \in req'[p].invalid : e.token \in dead'
    BY <1>11 DEF Send, Notifying, Rejected, RowsSound, TypeOK, Request, At, Idle
  <2>3. \A p \in Requests : req'[p].seen # None => req'[p].seen.token = req'[p].token
    BY <1>11 DEF Send, Notifying, Rejected, RowsSound, TypeOK, Request, At, Idle
  <2> QED
    BY <2>1, <2>2, <2>3 DEF RowsSound
<1>12. ASSUME NEW q \in Requests, Delete(q)
      PROVE  RowsSound'
  <2>1. Known' \subseteq Known /\ UNCHANGED inserted
    BY <1>12 DEF Delete, Notifying, RouteEnds, ThreadEnds, Released, Known, TypeOK, Request, At,
       Idle
  <2>2. \A p \in Requests : \A e \in req'[p].invalid : e.token \in dead'
    BY <1>12 DEF Delete, Notifying, RouteEnds, ThreadEnds, Released, RowsSound, TypeOK, Request,
       At, Idle
  <2>3. \A p \in Requests : req'[p].seen # None => req'[p].seen.token = req'[p].token
    BY <1>12 DEF Delete, Notifying, RouteEnds, ThreadEnds, Released, RowsSound, TypeOK, Request,
       At, Idle
  <2> QED
    BY <2>1, <2>2, <2>3 DEF RowsSound
<1>13. ASSUME NEW q \in Requests, NotifyFails(q)
      PROVE  RowsSound'
  <2>1. \A d \in req'[q].left \cup req'[q].invalid : d \in req[q].left \cup req[q].invalid
    BY <1>13 DEF NotifyFails, RouteEnds, ThreadEnds, TypeOK, Request
  <2>2. /\ req'[q].seen = req[q].seen
        /\ \A p \in Requests \ {q} : req'[p] = req[p]
    BY <1>13 DEF NotifyFails, RouteEnds, ThreadEnds, TypeOK, Request
  <2>3. Known' \subseteq Known
    BY <1>13, <2>1, <2>2 DEF NotifyFails, Known
  <2>4. \A p \in Requests : \A e \in req'[p].invalid : e.token \in dead'
    BY <1>13 DEF NotifyFails, Notifying, RouteEnds, ThreadEnds, Released, Swallowed, RowsSound,
       TypeOK, Request, At, Idle
  <2>5. \A p \in Requests : req'[p].seen # None => req'[p].seen.token = req'[p].token
    BY <1>13 DEF NotifyFails, Notifying, RouteEnds, ThreadEnds, Released, Swallowed, RowsSound,
       TypeOK, Request, At, Idle
  <2> QED
    BY <1>13, <2>3, <2>4, <2>5 DEF RowsSound, NotifyFails
<1>14. ASSUME NEW q \in Requests, NoAccess(q)
      PROVE  RowsSound'
  <2>1. Known' \subseteq Known /\ UNCHANGED inserted
    BY <1>14 DEF NoAccess, Known, TypeOK, Request, At, Idle
  <2>2. \A p \in Requests : \A e \in req'[p].invalid : e.token \in dead'
    BY <1>14 DEF NoAccess, RowsSound, TypeOK, Request, At, Idle
  <2>3. \A p \in Requests : req'[p].seen # None => req'[p].seen.token = req'[p].token
    BY <1>14 DEF NoAccess, RowsSound, TypeOK, Request, At, Idle
  <2> QED
    BY <2>1, <2>2, <2>3 DEF RowsSound
<1>15. ASSUME NEW t \in Tokens, Expire(t)
      PROVE  RowsSound'
  <2>1. Known' \subseteq Known /\ UNCHANGED inserted
    BY <1>15 DEF Expire, Known, TypeOK, Request, At, Idle
  <2>2. \A p \in Requests : \A e \in req'[p].invalid : e.token \in dead'
    BY <1>15 DEF Expire, RowsSound, TypeOK, Request, At, Idle
  <2>3. \A p \in Requests : req'[p].seen # None => req'[p].seen.token = req'[p].token
    BY <1>15 DEF Expire, RowsSound, TypeOK, Request, At, Idle
  <2> QED
    BY <2>1, <2>2, <2>3 DEF RowsSound
<1>16. CASE UNCHANGED vars
    BY <1>16 DEF vars, RowsSound, Known, TypeOK, Request, At, Idle
<1> QED
    BY <1>1, <1>2, <1>3, <1>4, <1>5, <1>6, <1>7, <1>8, <1>9, <1>10, <1>11, <1>12, <1>13, <1>14,
       <1>15, <1>16 DEF Next, Step

\* The write of a registration leaves the rows of other tokens alone.
LEMMA OtherRowsStay ==
    ASSUME TypeOK, RowsSound, NEW q \in Requests, WriteDevice(q),
           NEW d \in devices, d.token # req[q].token
    PROVE  d \in devices'
PROOF
<1>1. CASE req[q].seen = None
  BY <1>1 DEF WriteDevice, InsertDevice, UpdateDevice
<1>2. CASE req[q].seen # None
  <2>1. req[q].seen \in Known /\ d \in Known
    BY <1>2 DEF Known, TypeOK, Request
  <2>2. d.id # req[q].seen.id
    BY <1>2, <2>1 DEF RowsSound
  <2> QED
    BY <1>2, <2>2 DEF WriteDevice, InsertDevice, UpdateDevice
<1> QED
  BY <1>1, <1>2

\* The registration that began last stays alone and its row stays in the table.
LEMMA LatestStep ==
    ASSUME TypeOK, Shape, RowsSound, LatestSound, [Next]_vars
    PROVE  LatestSound'
PROOF
<1> USE NoneAssumption
<1>1. ASSUME NEW q \in Requests, NEW u \in Users, NEW t \in Tokens, Register(q, u, t)
      PROVE  LatestSound'
    BY <1>1 DEF Register, LatestSound, LatestOf, Shape, Registering, TypeOK, Request, At, Idle
<1>2. ASSUME NEW q \in Requests, NEW k \in {"read", "transfer", "admin"}, NEW u \in Users, Call(q,
             k, u)
      PROVE  LatestSound'
    BY <1>2 DEF Call, LatestSound, LatestOf, Shape, Registering, TypeOK, Request, At, Idle
<1>3. ASSUME NEW q \in Requests, ReadDevice(q)
      PROVE  LatestSound'
    BY <1>3 DEF ReadDevice, RowsOf, Device, LatestSound, LatestOf, Shape, Registering, TypeOK,
       Request, At, Idle
<1>4. ASSUME NEW q \in Requests, WriteDevice(q)
      PROVE  LatestSound'
  <2>1. /\ \A p \in Requests \ {q} : req'[p] = req[p]
        /\ req'[q].at = "done"
        /\ req'[q].kind = req[q].kind /\ req'[q].token = req[q].token
        /\ req'[q].user = req[q].user /\ req'[q].alone = req[q].alone
    BY <1>4 DEF WriteDevice, InsertDevice, UpdateDevice, Ends, TypeOK, Request
  <2>2. ASSUME NEW d \in devices, d.token # req[q].token
        PROVE  d \in devices'
    BY <1>4, <2>2, OtherRowsStay
  <2>3. SUFFICES ASSUME NEW t \in Tokens, NEW p \in Requests, p = latest[t], p # None
                 PROVE  LatestOf(t, p)'
    BY <1>4 DEF WriteDevice, LatestSound, TypeOK
  <2>4. LatestOf(t, p)
    BY <2>3 DEF LatestSound
  <2>5. req'[p].kind = "register" /\ req'[p].token = t
    BY <2>1, <2>4 DEF LatestOf
  <2>6. ASSUME req'[p].alone, NEW r \in Requests \ {p},
               req'[r].kind = "register" /\ req'[r].token = t
        PROVE  req'[r].at = "done"
    BY <2>1, <2>4, <2>6 DEF LatestOf
  <2>7. ASSUME req'[p].alone, req'[p].at = "write", t \notin dead, req'[p].seen # None
        PROVE  req'[p].seen \in devices'
    <3>1. p # q /\ req[p] = req'[p]
      BY <2>1, <2>7
    <3>2. req[q].token # t
      BY <1>4, <2>4, <2>7, <3>1 DEF WriteDevice, At, LatestOf, Shape
    <3>3. req[p].seen \in devices /\ req[p].seen.token = t
      BY <2>4, <2>7, <3>1 DEF LatestOf, RowsSound
    <3> QED
      BY <2>2, <3>1, <3>2, <3>3
  <2> QED
    BY <1>4, <2>5, <2>6, <2>7 DEF WriteDevice, LatestOf
<1>5. ASSUME NEW q \in Requests, Enter(q)
      PROVE  LatestSound'
    BY <1>5 DEF Enter, LatestSound, LatestOf, Shape, Registering, TypeOK, Request, At, Idle
<1>6. ASSUME NEW q \in Requests, Connect(q)
      PROVE  LatestSound'
    BY <1>6 DEF Connect, Waits, Connected, DevicesOf, LatestSound, LatestOf, Shape, Registering,
       TypeOK, Request, At, Idle
<1>7. ASSUME NEW q \in Requests, Starve(q)
      PROVE  LatestSound'
    BY <1>7 DEF Starve, Waits, LatestSound, LatestOf, Shape, Registering, TypeOK, Request, At,
       Idle
<1>8. ASSUME NEW q \in Requests, Read(q)
      PROVE  LatestSound'
    BY <1>8 DEF Read, LatestSound, LatestOf, Shape, Registering, TypeOK, Request, At, Idle
<1>9. ASSUME NEW q \in Requests, NEW success \in BOOLEAN, Operate(q, success)
      PROVE  LatestSound'
    BY <1>9 DEF Operate, Released, LatestSound, LatestOf, Shape, Registering, TypeOK, Request, At,
       Idle
<1>10. ASSUME NEW q \in Requests, Close(q)
      PROVE  LatestSound'
    BY <1>10 DEF Close, Released, LatestSound, LatestOf, Shape, Registering, TypeOK, Request, At,
       Idle
<1>11. ASSUME NEW q \in Requests, NEW d \in req[q].left, NEW reached \in BOOLEAN, Send(q, d,
              reached)
      PROVE  LatestSound'
    BY <1>11 DEF Send, Notifying, Rejected, LatestSound, LatestOf, Shape, Registering, TypeOK,
       Request, At, Idle
<1>12. ASSUME NEW q \in Requests, Delete(q)
      PROVE  LatestSound'
    BY <1>12 DEF Delete, Notifying, RouteEnds, ThreadEnds, Released, LatestSound, LatestOf, Shape,
       Registering, TypeOK, Request, At, Idle
<1>13. ASSUME NEW q \in Requests, NotifyFails(q)
      PROVE  LatestSound'
    BY <1>13 DEF NotifyFails, Notifying, RouteEnds, ThreadEnds, Released, Swallowed, LatestSound,
       LatestOf, Shape, Registering, TypeOK, Request, At, Idle
<1>14. ASSUME NEW q \in Requests, NoAccess(q)
      PROVE  LatestSound'
    BY <1>14 DEF NoAccess, LatestSound, LatestOf, Shape, Registering, TypeOK, Request, At, Idle
<1>15. ASSUME NEW t \in Tokens, Expire(t)
      PROVE  LatestSound'
    BY <1>15 DEF Expire, LatestSound, LatestOf, Shape, Registering, TypeOK, Request, At, Idle
<1>16. CASE UNCHANGED vars
    BY <1>16 DEF vars, LatestSound, LatestOf, Shape, Registering, TypeOK, Request, At, Idle
<1> QED
    BY <1>1, <1>2, <1>3, <1>4, <1>5, <1>6, <1>7, <1>8, <1>9, <1>10, <1>11, <1>12, <1>13, <1>14,
       <1>15, <1>16 DEF Next, Step

\* When it writes, the device becomes its user's; no other step changes that row.
LEMMA OwnsStep ==
    ASSUME TypeOK, Shape, RowsSound, LatestSound, LastLoginOwns, [Next]_vars
    PROVE  LastLoginOwns'
PROOF
<1> USE NoneAssumption
<1>1. ASSUME NEW q \in Requests, NEW u \in Users, NEW t \in Tokens, Register(q, u, t)
      PROVE  LastLoginOwns'
    BY <1>1 DEF Register, LastLoginOwns, LatestSound, LatestOf, Shape, RowsOf, TypeOK, Request,
       At, Idle
<1>2. ASSUME NEW q \in Requests, NEW k \in {"read", "transfer", "admin"}, NEW u \in Users, Call(q,
             k, u)
      PROVE  LastLoginOwns'
    BY <1>2 DEF Call, LastLoginOwns, LatestSound, LatestOf, Shape, RowsOf, TypeOK, Request, At,
       Idle
<1>3. ASSUME NEW q \in Requests, ReadDevice(q)
      PROVE  LastLoginOwns'
    BY <1>3 DEF ReadDevice, RowsOf, Device, LastLoginOwns, LatestSound, LatestOf, Shape, RowsOf,
       TypeOK, Request, At, Idle
<1>4. ASSUME NEW q \in Requests, WriteDevice(q)
      PROVE  LastLoginOwns'
  <2>1. /\ \A p \in Requests \ {q} : req'[p] = req[p]
        /\ req'[q].at = "done"
        /\ req'[q].kind = req[q].kind /\ req'[q].token = req[q].token
        /\ req'[q].user = req[q].user /\ req'[q].alone = req[q].alone
    BY <1>4 DEF WriteDevice, InsertDevice, UpdateDevice, Ends, TypeOK, Request
  <2>2. ASSUME NEW d \in devices, d.token # req[q].token
        PROVE  d \in devices'
    BY <1>4, <2>2, OtherRowsStay
  <2>3. SUFFICES ASSUME NEW t \in Tokens \ dead, NEW p \in Requests, p = latest[t], p # None,
                        req'[p].alone, req'[p].at = "done", req'[p].answer = "ok"
                 PROVE  \E d \in devices' : d.token = t /\ d.user = req'[p].user
    BY <1>4 DEF WriteDevice, LastLoginOwns, RowsOf, TypeOK
  <2>4. req[p].kind = "register" /\ req[p].token = t
    BY <2>3 DEF LatestSound, LatestOf
  <2>5. CASE p # q
    <3>1. req[q].token # t
      BY <1>4, <2>1, <2>3, <2>5 DEF WriteDevice, At, LatestSound, LatestOf, Shape
    <3>2. PICK d \in devices : d.token = t /\ d.user = req[p].user
      BY <2>1, <2>3, <2>5 DEF LastLoginOwns, RowsOf
    <3> QED
      BY <2>1, <2>2, <2>5, <3>1, <3>2
  <2>6. CASE p = q /\ req[q].seen = None
    <3>1. RowsOf(t) = {}
      <4>1. RowsOf(t) # {} => Ends(q, "error")
        BY <1>4, <2>4, <2>6 DEF WriteDevice, InsertDevice, UpdateDevice
      <4>2. Ends(q, "error") => req'[q].answer = "error"
        BY DEF Ends, TypeOK, Request
      <4> QED
        BY <2>3, <2>6, <4>1, <4>2
    <3>2. [id |-> inserted + 1, token |-> t, user |-> req[q].user] \in devices'
      BY <1>4, <2>4, <2>6, <3>1 DEF WriteDevice, InsertDevice, UpdateDevice
    <3> QED
      BY <2>1, <2>6, <3>2
  <2>7. CASE p = q /\ req[q].seen # None
    <3> DEFINE s == req[q].seen
    <3>1. s \in devices /\ s.token = t
      <4>1. LatestOf(t, q) /\ req[q].at = "write" /\ req[q].alone
        BY <1>4, <2>1, <2>3, <2>7 DEF WriteDevice, At, LatestSound
      <4> QED
        BY <2>3, <2>7, <4>1 DEF LatestOf, RowsSound
    <3>2. CASE s.user = req[q].user
      BY <1>4, <2>1, <2>7, <3>1, <3>2 DEF WriteDevice, InsertDevice, UpdateDevice
    <3>3. CASE s.user # req[q].user
      <4>1. [s EXCEPT !.user = req[q].user] \in devices'
        BY <1>4, <2>7, <3>1, <3>3 DEF WriteDevice, InsertDevice, UpdateDevice
      <4> QED
        BY <2>1, <2>7, <3>1, <4>1 DEF TypeOK, Device
    <3> QED
      BY <3>2, <3>3
  <2> QED
    BY <2>5, <2>6, <2>7
<1>5. ASSUME NEW q \in Requests, Enter(q)
      PROVE  LastLoginOwns'
    BY <1>5 DEF Enter, LastLoginOwns, LatestSound, LatestOf, Shape, RowsOf, TypeOK, Request, At,
       Idle
<1>6. ASSUME NEW q \in Requests, Connect(q)
      PROVE  LastLoginOwns'
    BY <1>6 DEF Connect, Waits, Connected, DevicesOf, LastLoginOwns, LatestSound, LatestOf, Shape,
       RowsOf, TypeOK, Request, At, Idle
<1>7. ASSUME NEW q \in Requests, Starve(q)
      PROVE  LastLoginOwns'
    BY <1>7 DEF Starve, Waits, LastLoginOwns, LatestSound, LatestOf, Shape, RowsOf, TypeOK,
       Request, At, Idle
<1>8. ASSUME NEW q \in Requests, Read(q)
      PROVE  LastLoginOwns'
    BY <1>8 DEF Read, LastLoginOwns, LatestSound, LatestOf, Shape, RowsOf, TypeOK, Request, At,
       Idle
<1>9. ASSUME NEW q \in Requests, NEW success \in BOOLEAN, Operate(q, success)
      PROVE  LastLoginOwns'
    BY <1>9 DEF Operate, Released, LastLoginOwns, LatestSound, LatestOf, Shape, RowsOf, TypeOK,
       Request, At, Idle
<1>10. ASSUME NEW q \in Requests, Close(q)
      PROVE  LastLoginOwns'
    BY <1>10 DEF Close, Released, LastLoginOwns, LatestSound, LatestOf, Shape, RowsOf, TypeOK,
       Request, At, Idle
<1>11. ASSUME NEW q \in Requests, NEW d \in req[q].left, NEW reached \in BOOLEAN, Send(q, d,
              reached)
      PROVE  LastLoginOwns'
    BY <1>11 DEF Send, Notifying, Rejected, LastLoginOwns, LatestSound, LatestOf, Shape, RowsOf,
       TypeOK, Request, At, Idle
<1>12. ASSUME NEW q \in Requests, Delete(q)
      PROVE  LastLoginOwns'
    BY <1>12 DEF Delete, Notifying, RouteEnds, ThreadEnds, Released, LastLoginOwns, LatestSound,
       LatestOf, Shape, RowsOf, TypeOK, Request, At, Idle
<1>13. ASSUME NEW q \in Requests, NotifyFails(q)
      PROVE  LastLoginOwns'
    BY <1>13 DEF NotifyFails, Notifying, RouteEnds, ThreadEnds, Released, Swallowed,
       LastLoginOwns, LatestSound, LatestOf, Shape, RowsOf, TypeOK, Request, At, Idle
<1>14. ASSUME NEW q \in Requests, NoAccess(q)
      PROVE  LastLoginOwns'
    BY <1>14 DEF NoAccess, LastLoginOwns, LatestSound, LatestOf, Shape, RowsOf, TypeOK, Request,
       At, Idle
<1>15. ASSUME NEW t \in Tokens, Expire(t)
      PROVE  LastLoginOwns'
    BY <1>15 DEF Expire, LastLoginOwns, LatestSound, LatestOf, Shape, RowsOf, TypeOK, Request, At,
       Idle
<1>16. CASE UNCHANGED vars
    BY <1>16 DEF vars, LastLoginOwns, LatestSound, LatestOf, Shape, RowsOf, TypeOK, Request, At,
       Idle
<1> QED
    BY <1>1, <1>2, <1>3, <1>4, <1>5, <1>6, <1>7, <1>8, <1>9, <1>10, <1>11, <1>12, <1>13, <1>14,
       <1>15, <1>16 DEF Next, Step

-----------------------------------------------------------------------------

\* The inductive invariant holds when nothing has been called.
LEMMA Initially == Init => IInv
PROOF
<1> USE NoneAssumption, MaxRowsAssumption
<1>1. SUFFICES ASSUME Init
               PROVE  IInv
  OBVIOUS
<1>2. TypeOK
  <2>1. Idle \in Request
    BY DEF Idle, Request, Stages
  <2> QED
    BY <1>1, <2>1 DEF Init, TypeOK, InLoop, Idle
<1>3. Shape /\ OnlyThePoolFailsTransfers
  BY <1>1 DEF Init, Idle, Shape, OnlyThePoolFailsTransfers
<1>6. PoolBalanced
  BY <1>1 DEF Init, Idle, PoolBalanced
<1>4. Known = {}
  BY <1>1 DEF Init, Idle, Known
<1>5. RowsSound /\ LatestSound /\ LastLoginOwns
  BY <1>1, <1>4 DEF Init, Idle, RowsSound, LatestSound, LastLoginOwns
<1> QED
  BY <1>2, <1>3, <1>5, <1>6 DEF IInv

\* The inductive invariant of Push.
THEOREM Invariance == Spec => []IInv
PROOF
<1>1. IInv /\ [Next]_vars => IInv'
  BY TypeStep, ShapeStep, PoolStep, TransfersStep, RowsStep, LatestStep, OwnsStep DEF IInv
<1> QED
  BY <1>1, Initially, PTL DEF Spec

\* The event loop is kept by one request in the middle of its route, and every variable
\* has its type, whatever the number of requests.
THEOREM TypeCorrect == Spec => []TypeOK
PROOF
<1>1. IInv => TypeOK
  BY DEF IInv
<1> QED
  BY <1>1, Invariance, PTL

\* get_sync_db, notify_user and the commits inside them neither lose a connection nor let
\* two sessions use one.
THEOREM ConnectionsBalanced == Spec => []PoolBalanced
PROOF
<1>1. IInv => PoolBalanced
  BY DEF IInv
<1> QED
  BY <1>1, Invariance, PTL

\* A device registered by one call at a time is its last user's until FCM calls the token
\* invalid, whatever notifications and registrations of other devices do meanwhile.
THEOREM DeviceFollowsLogin == Spec => []LastLoginOwns
PROOF
<1>1. IInv => LastLoginOwns
  BY DEF IInv
<1> QED
  BY <1>1, Invariance, PTL

\* notify_user never turns a committed transfer into an error; an exhausted pool can.
THEOREM TransfersSurviveFcm == Spec => []OnlyThePoolFailsTransfers
PROOF
<1>1. IInv => OnlyThePoolFailsTransfers
  BY DEF IInv
<1> QED
  BY <1>1, Invariance, PTL
=============================================================================
