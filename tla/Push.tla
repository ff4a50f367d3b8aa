-------------------------------- MODULE Push --------------------------------
(***************************************************************************)
(* Push notifications, the device tokens they are sent to, and the         *)
(* connections and the event loop they share with the wallet routes.  A    *)
(* route with a synchronous session runs in a coroutine without yielding:  *)
(* while it waits for a connection or for FCM no other coroutine runs.     *)
(* Notifications of the admin routes run in a thread after the answer,     *)
(* the one of a transfer in the route itself.                              *)
(***************************************************************************)
EXTENDS Naturals

CONSTANTS
    Requests,       \* requests, each used once
    Users,
    Tokens,         \* FCM tokens of the devices
    Connections,    \* connections of the synchronous pool, pool_size + max_overflow
    None,           \* no request, user, token, row or connection
    MaxRows         \* bound: rows ever inserted in device_tokens

ASSUME NoneAssumption ==
    None \notin Requests \cup Users \cup Tokens \cup Connections
ASSUME MaxRowsAssumption == MaxRows \in Nat

VARIABLES
    devices,    \* the rows of device_tokens
    inserted,   \* rows ever inserted; the next one is the id
    dead,       \* tokens FCM calls invalid from now on
    free,       \* connections in the pool
    loop,       \* the request that keeps the event loop, None when it is free
    req,        \* where each request is
    latest      \* the request that last began to register each token

vars == <<devices, inserted, dead, free, loop, req, latest>>

-----------------------------------------------------------------------------
(* The data *)

Device == [id: 1..MaxRows, token: Tokens, user: Users]

\* "read" stands for a route that only reads, "transfer" for a transfer between wallets,
\* "admin" for an operation of an administrator that notifies the client.
Kinds == {"register", "read", "transfer", "admin"}
InLoop == {"checkout", "query", "lookup", "notify"}
Stages == {"idle", "called", "write", "closing", "background", "sending", "done"} \cup InLoop

\* conn: the connection its session holds; seen: the row a registration has read;
\* left, invalid: rows still to be notified and rows whose token was found invalid;
\* committed, starved, alone: what its operation has done, whether it waited in vain for a
\* connection, and whether it was the only registration of its token when it began.
Request == [at: Stages, kind: Kinds \cup {"none"}, user: Users \cup {None},
            token: Tokens \cup {None}, conn: Connections \cup {None},
            seen: Device \cup {None}, left: SUBSET Device, invalid: SUBSET Device,
            answer: {"none", "ok", "error"},
            committed: BOOLEAN, starved: BOOLEAN, alone: BOOLEAN]

Idle == [at |-> "idle", kind |-> "none", user |-> None, token |-> None, conn |-> None,
         seen |-> None, left |-> {}, invalid |-> {}, answer |-> "none",
         committed |-> FALSE, starved |-> FALSE, alone |-> FALSE]

Init ==
    /\ devices = {}
    /\ inserted = 0
    /\ dead = {}
    /\ free = Connections
    /\ loop = None
    /\ req = [q \in Requests |-> Idle]
    /\ latest = [t \in Tokens |-> None]

At(q, stage) == req[q].at = stage
\* Mutant: coroutines run while one of them is blocked.
LoopShared == TRUE
LoopFree == loop = None

\* Mutant: the session is left open.
NotReleased(q) == free

\* What happens to a connection when the session of q commits or is closed.
Released(q) == free \cup ({req[q].conn} \ {None})

-----------------------------------------------------------------------------
(* POST /devices/register *)

Registering(t) == {q \in Requests : /\ req[q].kind = "register"
                                    /\ req[q].token = t
                                    /\ req[q].at # "done"}

Register(q, u, t) ==
    /\ At(q, "idle")
    /\ req' = [req EXCEPT ![q] = [Idle EXCEPT !.at = "called", !.kind = "register",
                                              !.user = u, !.token = t,
                                              !.alone = Registering(t) = {}]]
    /\ latest' = [latest EXCEPT ![t] = q]
    /\ UNCHANGED <<devices, inserted, dead, free, loop>>

RowsOf(t) == {d \in devices : d.token = t}

ReadDevice(q) ==
    /\ At(q, "called")
    /\ req[q].kind = "register"
    /\ LoopFree
    /\ \E d \in IF RowsOf(req[q].token) = {} THEN {None} ELSE RowsOf(req[q].token) :
          req' = [req EXCEPT ![q].at = "write", ![q].seen = d]
    /\ UNCHANGED <<devices, inserted, dead, free, loop, latest>>

Ends(q, answer) == req' = [req EXCEPT ![q].at = "done", ![q].answer = answer]

\* No row was read: INSERT, refused when another call has inserted the token since.
InsertDevice(q) ==
    /\ req[q].seen = None
    /\ IF RowsOf(req[q].token) = {}
       THEN /\ inserted < MaxRows
            /\ inserted' = inserted + 1
            /\ devices' = devices \cup {[id |-> inserted + 1, token |-> req[q].token,
                                         user |-> req[q].user]}
            /\ Ends(q, "ok")
       ELSE Ends(q, "error") /\ UNCHANGED <<devices, inserted>>

\* A row was read: UPDATE by its id when its user is another one, an error when the row has
\* been deleted since; nothing is written for the same user.
UpdateDevice(q) ==
    LET d == req[q].seen IN
    /\ d # None
    /\ IF d.user = req[q].user THEN Ends(q, "ok") /\ UNCHANGED devices
       ELSE IF \E e \in devices : e.id = d.id
       THEN /\ devices' = {IF e.id = d.id THEN [e EXCEPT !.user = req[q].user] ELSE e :
                              e \in devices}
            /\ Ends(q, "ok")
       ELSE Ends(q, "error") /\ UNCHANGED devices
    /\ UNCHANGED inserted

WriteDevice(q) ==
    /\ At(q, "write")
    /\ LoopFree
    /\ InsertDevice(q) \/ UpdateDevice(q)
    /\ UNCHANGED <<dead, free, loop, latest>>

-----------------------------------------------------------------------------
(* Routes with a synchronous session *)

\* The route is called; its user is the one it will notify.
Call(q, k, u) ==
    /\ At(q, "idle")
    /\ req' = [req EXCEPT ![q] = [Idle EXCEPT !.at = "called", !.kind = k, !.user = u]]
    /\ UNCHANGED <<devices, inserted, dead, free, loop, latest>>

\* Its dependencies are there: the body runs and keeps the loop.
Enter(q) ==
    /\ At(q, "called")
    /\ req[q].kind # "register"
    /\ LoopFree
    /\ loop' = q
    /\ req' = [req EXCEPT ![q].at = "checkout"]
    /\ UNCHANGED <<devices, inserted, dead, free, latest>>

\* The first statement of a session takes a connection from the pool.
Waits(q) == req[q].at \in {"checkout", "lookup", "background"}
Connected(q) == CASE At(q, "checkout") -> "query"
              [] At(q, "lookup") -> "notify"
              [] OTHER -> "sending"

DevicesOf(u) == {d \in devices : d.user = u}

\* With it the notification reads the tokens of its user.
Connect(q) ==
    /\ Waits(q)
    /\ \E c \in free :
          /\ free' = free \ {c}
          /\ req' = [req EXCEPT ![q].at = Connected(q), ![q].conn = c,
                                ![q].left = IF At(q, "checkout") THEN {}
                                            ELSE DevicesOf(req[q].user)]
    /\ UNCHANGED <<devices, inserted, dead, loop, latest>>

\* The pool is empty for the 30 seconds of pool_timeout.  notify_user swallows the error.
\* Mutant: pool_timeout is not set.
WaitsOn(q) == FALSE
GivesUp(q) == free = {}
Starve(q) ==
    /\ Waits(q)
    /\ GivesUp(q)
    /\ req' = [req EXCEPT ![q].at = IF At(q, "background") THEN "done" ELSE "closing",
                          ![q].answer = IF At(q, "background") THEN @ ELSE "error",
                          ![q].starved = TRUE]
    /\ loop' = IF At(q, "background") THEN loop ELSE None
    /\ UNCHANGED <<devices, inserted, dead, free, latest>>

\* A route that reads keeps its connection until its session is closed.
Read(q) ==
    /\ At(q, "query")
    /\ req[q].kind = "read"
    /\ loop' = None
    /\ req' = [req EXCEPT ![q].at = "closing", ![q].answer = "ok"]
    /\ UNCHANGED <<devices, inserted, dead, free, latest>>

\* The operation commits, which returns the connection.  The route of a transfer then
\* looks for the recipient in a new transaction; a refused operation ends the route.
Operate(q, success) ==
    /\ At(q, "query")
    /\ req[q].kind \in {"transfer", "admin"}
    /\ free' = Released(q)
    /\ IF success /\ req[q].kind = "transfer"
       THEN /\ req' = [req EXCEPT ![q].at = "lookup", ![q].conn = None, ![q].committed = TRUE]
            /\ UNCHANGED loop
       ELSE /\ req' = [req EXCEPT ![q].at = "closing", ![q].conn = None,
                                  ![q].committed = success,
                                  ![q].answer = IF success THEN "ok" ELSE "error"]
            /\ loop' = None
    /\ UNCHANGED <<devices, inserted, dead, latest>>

\* The session is closed in a thread that the loop has to start; after an operation of an
\* administrator that succeeded the notification follows, in a thread of its own.
Close(q) ==
    /\ At(q, "closing")
    /\ LoopFree
    /\ free' = Released(q)
    /\ req' = [req EXCEPT ![q].conn = None,
                          ![q].at = IF req[q].kind = "admin" /\ req[q].answer = "ok"
                                    THEN "background" ELSE "done"]
    /\ UNCHANGED <<devices, inserted, dead, loop, latest>>

-----------------------------------------------------------------------------
(* notify_user *)

Notifying(q) == req[q].at \in {"notify", "sending"}

\* Mutant: a token that could not be reached is taken for invalid.
RejectedOrLost(d, reached) == reached => d.token \in dead

\* The token is definitely invalid; a network error or a time-out keeps it.
Rejected(d, reached) == reached /\ d.token \in dead

Send(q, d, reached) ==
    /\ Notifying(q)
    /\ d \in req[q].left
    /\ req' = [req EXCEPT ![q].left = @ \ {d},
                          ![q].invalid = IF Rejected(d, reached) THEN @ \cup {d} ELSE @]
    /\ UNCHANGED <<devices, inserted, dead, free, loop, latest>>

\* Mutant: the error reaches the route.
Raised == "error"

\* What a route answers after its notification has failed.
Swallowed == "ok"

\* The end of the route of a transfer: its connection stays with the session unless the
\* deletions were committed.
RouteEnds(q, kept, answer) ==
    /\ loop' = None
    /\ free' = IF kept THEN free ELSE Released(q)
    /\ req' = [req EXCEPT ![q].at = "closing", ![q].answer = answer, ![q].left = {},
                          ![q].invalid = {}, ![q].conn = IF kept THEN @ ELSE None]

ThreadEnds(q) ==
    /\ free' = Released(q)
    /\ req' = [req EXCEPT ![q].at = "done", ![q].left = {}, ![q].invalid = {},
                          ![q].conn = None]
    /\ UNCHANGED loop

\* The rows of invalid tokens are deleted by their ids.
Delete(q) ==
    /\ Notifying(q)
    /\ req[q].left = {}
    /\ devices' = {d \in devices : \A e \in req[q].invalid : e.id # d.id}
    /\ IF At(q, "notify") THEN RouteEnds(q, req[q].invalid = {}, "ok") ELSE ThreadEnds(q)
    /\ UNCHANGED <<inserted, dead, latest>>

\* Any statement of the notification may fail, and so may its commit.
NotifyFails(q) ==
    /\ Notifying(q)
    /\ IF At(q, "notify")
       THEN RouteEnds(q, TRUE, Swallowed) ELSE ThreadEnds(q)
    /\ UNCHANGED <<devices, inserted, dead, latest>>

\* Without credentials or an access token a thread asks for no connection.
NoAccess(q) ==
    /\ At(q, "background")
    /\ req' = [req EXCEPT ![q].at = "done"]
    /\ UNCHANGED <<devices, inserted, dead, free, loop, latest>>

-----------------------------------------------------------------------------

\* FCM: the application was removed or its token has expired.
Expire(t) ==
    /\ dead' = dead \cup {t}
    /\ UNCHANGED <<devices, inserted, free, loop, req, latest>>
-----------------------------------------------------------------------------

Step(q) ==
    \/ ReadDevice(q) \/ WriteDevice(q)
    \/ Enter(q) \/ Connect(q) \/ Starve(q)
    \/ Read(q) \/ (\E success \in BOOLEAN : Operate(q, success))
    \/ Close(q)
    \/ (\E d \in req[q].left, reached \in BOOLEAN : Send(q, d, reached))
    \/ Delete(q)

Next ==
    \/ \E q \in Requests :
          \/ \E u \in Users, t \in Tokens : Register(q, u, t)
          \/ \E k \in {"read", "transfer", "admin"}, u \in Users : Call(q, k, u)
          \/ Step(q)
          \/ NotifyFails(q) \/ NoAccess(q)
    \/ \E t \in Tokens : Expire(t)

\* The loop and the threads run; FCM and PostgreSQL answer or their time-outs end the wait
\* (httpx timeout=10, pool_timeout of 30 seconds).
Spec == Init /\ [][Next]_vars /\ \A q \in Requests : WF_vars(Step(q))

-----------------------------------------------------------------------------
(* Properties *)

\* Rows and requests are those of the program, and the request that keeps the event loop
\* is the only one in the middle of a route with a synchronous session.
TypeOK ==
    /\ devices \subseteq Device
    /\ inserted \in 0..MaxRows
    /\ dead \subseteq Tokens
    /\ free \subseteq Connections
    /\ loop \in Requests \cup {None}
    /\ req \in [Requests -> Request]
    /\ latest \in [Tokens -> Requests \cup {None}]
    /\ \A q \in Requests : req[q].at \in InLoop <=> loop = q

\* However routes and notifications end, no connection is lost or used by two sessions.
PoolBalanced ==
    /\ Connections \subseteq free \cup {req[q].conn : q \in Requests}
    /\ \A q \in Requests :
          /\ req[q].conn \notin free
          /\ req[q].conn = None \/ \A p \in Requests : req[p].conn = req[q].conn => p = q

\* A device belongs to the user who registered it last, as far as that registration met no
\* other one, until FCM calls its token invalid: neither notifications in progress, with
\* rows read before, nor failures to reach FCM take it away.
LastLoginOwns ==
    \A t \in Tokens \ dead :
        LET q == latest[t] IN
        (q # None /\ req[q].alone /\ req[q].at = "done" /\ req[q].answer = "ok")
            => \E d \in RowsOf(t) : d.user = req[q].user

\* A committed transfer is answered with an error only when its second transaction got no
\* connection: what FCM, its tokens and their deletion do never fails it.
OnlyThePoolFailsTransfers ==
    \A q \in Requests :
        (req[q].committed /\ req[q].answer = "error") => req[q].starved

\* Every request ends, its notification too, even when all connections are with routes
\* that the blocked event loop cannot close: the time-out of the pool ends that wait.
EveryRequestEnds ==
    \A q \in Requests : req[q].at = "called" ~> req[q].at = "done"
=============================================================================
