------------------------------ MODULE Accounts ------------------------------
(***************************************************************************)
(* Accounts: registration, the bootstrap of the administrator, the profile *)
(* a client edits and the status an administrator sets.  The routes are    *)
(* coroutines on the asynchronous session without row locks, so each reads *)
(* in one step and writes in another.  A sign-up writes in two: its INSERT *)
(* of the user takes the key of the phone number and keeps it until the    *)
(* COMMIT, which publishes the user with the wallet.  Login and /auth/me   *)
(* only read.                                                              *)
(***************************************************************************)
EXTENDS Naturals, Sequences

CONSTANTS
    Phones,          \* phone numbers
    Names,           \* values of full_name
    RegisterCalls,   \* registrations that may be in progress at once
    BootstrapCalls,  \* bootstraps that may be in progress at once
    ProfileCalls,    \* profile updates that may be in progress at once
    StatusCalls,     \* status updates that may be in progress at once
    Idle             \* no call in progress

ASSUME CallsAssumption == RegisterCalls \cap BootstrapCalls = {}

SignUps == RegisterCalls \cup BootstrapCalls
Roles == {"USER", "ADMIN"}

VARIABLES
    users,      \* the table users, in the order of the commits
    wallets,    \* the users that have a wallet
    signing,    \* what each registration or bootstrap inserts, and where it is
    editing,    \* the user, what was read and the new name of each profile update
    ruling      \* the user, the status read and the new status of each status update

vars == <<users, wallets, signing, editing, ruling>>

Row == [phone: Phones, role: Roles, name: Names, active: BOOLEAN]
Users == DOMAIN users

SignUp == [row: Row, at: {"insert", "commit"}]
Edit   == [user: Users, read: [name: Names, active: BOOLEAN], name: Names]
Ruling == [user: Users, read: BOOLEAN, active: BOOLEAN]

Init ==
    /\ users = <<>>
    /\ wallets = {}
    /\ signing = [c \in SignUps |-> Idle]
    /\ editing = [c \in ProfileCalls |-> Idle]
    /\ ruling = [c \in StatusCalls |-> Idle]

Registered(phone) == \E u \in Users : users[u].phone = phone
Administrators == {u \in Users : users[u].role = "ADMIN"}

-----------------------------------------------------------------------------
(* POST /auth/register and POST /auth/admin/bootstrap *)

Request(c, phone, role, name) ==
    /\ signing[c] = Idle
    /\ signing' = [signing EXCEPT ![c] =
          [row |-> [phone |-> phone, role |-> role, name |-> name, active |-> TRUE],
           at  |-> "insert"]]
    /\ UNCHANGED <<users, wallets, editing, ruling>>

\* The SELECT by phone number: 400 when it is registered.
Register(c, phone, name) == ~Registered(phone) /\ Request(c, phone, "USER", name)

\* The SELECT of the administrators: 409 when there is one, 500 when there are several.
Bootstrap(c, phone, name) == Administrators = {} /\ Request(c, phone, "ADMIN", name)

\* No other transaction in progress has inserted the phone number.
KeyFreeBeforeInsert(c) ==
    \A d \in SignUps \ {c} : signing[d] # Idle => signing[d].row.phone # signing[c].row.phone
KeyFree(c) ==
    \A d \in SignUps \ {c} :
        signing[d] # Idle /\ signing[d].at = "commit" => signing[d].row.phone # signing[c].row.phone

\* The INSERT meets a committed user of the number.
DuplicateUnnoticed(c) == FALSE
Duplicate(c) == Registered(signing[c].row.phone)

End(c) == signing' = [signing EXCEPT ![c] = Idle]

\* flush: the INSERT waits for the key, then takes it or fails (500).
Insert(c) ==
    /\ signing[c] # Idle
    /\ signing[c].at = "insert"
    /\ KeyFree(c)
    /\ IF Duplicate(c) THEN End(c) ELSE signing' = [signing EXCEPT ![c].at = "commit"]
    /\ UNCHANGED <<users, wallets, editing, ruling>>

WithoutWallet(u) == {}
WalletBeforeFlush(u) == {0}
NewWallets(u) == {u}

\* commit: the INSERT of the wallet and the COMMIT.
Commit(c) ==
    /\ signing[c] # Idle
    /\ signing[c].at = "commit"
    /\ users' = Append(users, signing[c].row)
    /\ wallets' = wallets \cup NewWallets(Len(users'))
    /\ End(c)
    /\ UNCHANGED <<editing, ruling>>

-----------------------------------------------------------------------------
(* PUT /auth/me *)

\* get_current_user loads the row.
LoadProfile(c, u, name) ==
    /\ editing[c] = Idle
    /\ editing' = [editing EXCEPT ![c] =
          [user |-> u,
           read |-> [name |-> users[u].name, active |-> users[u].active],
           name |-> name]]
    /\ UNCHANGED <<users, wallets, signing, ruling>>

\* The session's UPDATE sets the columns whose value is another than the one read.
RenamedAsRead(row, read, name) == [row EXCEPT !.name = name, !.active = read.active]
Renamed(row, read, name) == IF name = read.name THEN row ELSE [row EXCEPT !.name = name]

WriteProfile(c) ==
    /\ editing[c] # Idle
    /\ LET e == editing[c] IN
          users' = [users EXCEPT ![e.user] = Renamed(@, e.read, e.name)]
    /\ editing' = [editing EXCEPT ![c] = Idle]
    /\ UNCHANGED <<wallets, signing, ruling>>

-----------------------------------------------------------------------------
(* PUT /admin/users/{user_id}/status *)

\* 400 for an administrator's account.
ReadStatus(c, u, active) ==
    /\ ruling[c] = Idle
    /\ users[u].role # "ADMIN"
    /\ ruling' = [ruling EXCEPT ![c] = [user |-> u, read |-> users[u].active, active |-> active]]
    /\ UNCHANGED <<users, wallets, signing, editing>>

Ruled(row, read, active) == IF active = read THEN row ELSE [row EXCEPT !.active = active]

WriteStatus(c) ==
    /\ ruling[c] # Idle
    /\ LET r == ruling[c] IN
          users' = [users EXCEPT ![r.user] = Ruled(@, r.read, r.active)]
    /\ ruling' = [ruling EXCEPT ![c] = Idle]
    /\ UNCHANGED <<wallets, signing, editing>>

-----------------------------------------------------------------------------

\* A call ends before its COMMIT: what it inserted is rolled back.
Lose ==
    /\ UNCHANGED <<users, wallets>>
    /\ \/ \E c \in SignUps : signing[c] # Idle /\ End(c) /\ UNCHANGED <<editing, ruling>>
       \/ \E c \in ProfileCalls : /\ editing[c] # Idle
                                  /\ editing' = [editing EXCEPT ![c] = Idle]
                                  /\ UNCHANGED <<signing, ruling>>
       \/ \E c \in StatusCalls : /\ ruling[c] # Idle
                                 /\ ruling' = [ruling EXCEPT ![c] = Idle]
                                 /\ UNCHANGED <<signing, editing>>

Proceed(c) == Insert(c) \/ Commit(c)

Next ==
    \/ \E c \in RegisterCalls, phone \in Phones, name \in Names : Register(c, phone, name)
    \/ \E c \in BootstrapCalls, phone \in Phones, name \in Names : Bootstrap(c, phone, name)
    \/ \E c \in SignUps : Proceed(c)
    \/ \E c \in ProfileCalls, u \in Users, name \in Names : LoadProfile(c, u, name)
    \/ \E c \in ProfileCalls : WriteProfile(c)
    \/ \E c \in StatusCalls, u \in Users, active \in BOOLEAN : ReadStatus(c, u, active)
    \/ \E c \in StatusCalls : WriteStatus(c)
    \/ Lose

\* PostgreSQL queues the INSERTs that wait for a key, and the event loop runs ready calls.
Spec == Init /\ [][Next]_vars /\ \A c \in SignUps : SF_vars(Proceed(c))

-----------------------------------------------------------------------------
(* Properties *)

\* Variables have their types; calls in progress are about users that exist.
TypeOK ==
    /\ users \in Seq(Row)
    /\ wallets \in SUBSET Users
    /\ signing \in [SignUps -> SignUp \cup {Idle}]
    /\ editing \in [ProfileCalls -> Edit \cup {Idle}]
    /\ ruling \in [StatusCalls -> Ruling \cup {Idle}]

\* A phone number has one account, although registrations and bootstraps look for it before
\* they insert it: login (api_auth.py:78) fails on a number that has two.
OneAccountPerPhone == \A u, v \in Users : users[u].phone = users[v].phone => u = v

\* Every account comes with its wallet, wherever a sign-up is lost: no wallet function finds
\* a client without one.
EveryAccountHasWallet == wallets = Users

\* A client's own profile update, however late it is written, neither blocks nor unblocks
\* the account nor changes its role or number: only a status update asking for it does.
StatusIsTheAdministrators ==
    [][\A u \in Users :
          /\ users'[u].role = users[u].role
          /\ users'[u].phone = users[u].phone
          /\ users'[u].active # users[u].active =>
                \E c \in StatusCalls : /\ ruling[c] # Idle
                                       /\ ruling'[c] = Idle
                                       /\ ruling[c].user = u
                                       /\ ruling[c].active = users'[u].active]_vars

\* Sign-ups with one phone number wait for one another, and every one ends.
EverySignUpEnds == \A c \in SignUps : signing[c] # Idle ~> signing[c] = Idle

\* The bootstrap is usable once, says api_auth.py:90: true of one bootstrap in progress at a
\* time; two that read before either has committed create an administrator each.
OneAdministrator == \A u, v \in Administrators : u = v

\* The status a call answers (api_admin.py:439) is the one stored: true of one administrator
\* at a time; with two, an update to the status that was read writes nothing over the other.
AnsweredStatusIsStored ==
    [][\A c \in StatusCalls :
          WriteStatus(c) => users'[ruling[c].user].active = ruling[c].active]_vars
=============================================================================
