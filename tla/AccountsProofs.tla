--------------------------- MODULE AccountsProofs ---------------------------
(***************************************************************************)
(* Theorems about Accounts, for every number of phone numbers and calls.   *)
(***************************************************************************)
EXTENDS Accounts, SequenceTheorems, TLAPS

-----------------------------------------------------------------------------
(* The two ways the table changes *)

\* A COMMIT adds a row at the end.
LEMMA CommitFacts ==
    ASSUME TypeOK, NEW c \in SignUps, Commit(c)
    PROVE  /\ signing[c] \in SignUp /\ signing[c].row \in Row
           /\ users' \in Seq(Row)
           /\ Users' = Users \cup {Len(users) + 1}
           /\ Len(users) + 1 \notin Users
           /\ users'[Len(users) + 1] = signing[c].row
           /\ \A u \in Users : users'[u] = users[u]
           /\ wallets' = wallets \cup {Len(users) + 1}
PROOF
<1>1. signing[c] \in SignUp /\ signing[c].row \in Row
    BY DEF TypeOK, Commit, SignUp
<1>2. users \in Seq(Row) /\ users' = Append(users, signing[c].row)
    BY DEF TypeOK, Commit
<1>3. users' \in Seq(Row) /\ Len(users') = Len(users) + 1
    BY <1>1, <1>2
<1>4. Users = 1 .. Len(users) /\ Users' = 1 .. Len(users) + 1 /\ Len(users) \in Nat
    BY <1>2, <1>3 DEF Users
<1> QED
    BY <1>1, <1>2, <1>3, <1>4 DEF Commit, NewWallets

\* A profile or status update rewrites one row in place.
LEMMA RewriteFacts ==
    ASSUME TypeOK, NEW u \in Users, NEW row \in Row, users' = [users EXCEPT ![u] = row]
    PROVE  /\ users' \in Seq(Row)
           /\ Users' = Users
           /\ users'[u] = row
           /\ \A v \in Users : v # u => users'[v] = users[v]
BY DEF TypeOK, Users

\* A profile update writes the name and leaves the other columns.
LEMMA ProfileFacts ==
    ASSUME TypeOK, NEW c \in ProfileCalls, WriteProfile(c)
    PROVE  /\ users' \in Seq(Row)
           /\ Users' = Users
           /\ \A u \in Users : /\ users'[u].phone = users[u].phone
                               /\ users'[u].role = users[u].role
                               /\ users'[u].active = users[u].active
PROOF
<1> DEFINE e == editing[c]
           row == Renamed(users[e.user], e.read, e.name)
<1>1. e \in Edit
    BY DEF TypeOK, WriteProfile
<1>2. e.user \in Users /\ e.name \in Names /\ users[e.user] \in Row
    BY <1>1 DEF Edit, TypeOK, Users
<1>3. /\ row \in Row
      /\ row.phone = users[e.user].phone
      /\ row.role = users[e.user].role
      /\ row.active = users[e.user].active
    BY <1>2 DEF Renamed, Row
<1>4. users' = [users EXCEPT ![e.user] = row]
    BY DEF WriteProfile
<1> HIDE DEF e, row
<1> QED
    BY <1>2, <1>3, <1>4, RewriteFacts

\* A status update writes the status, or nothing when it is the one that was read.
LEMMA StatusFacts ==
    ASSUME TypeOK, NEW c \in StatusCalls, WriteStatus(c)
    PROVE  /\ ruling[c] \in Ruling
           /\ users' \in Seq(Row)
           /\ Users' = Users
           /\ \A u \in Users : /\ users'[u].phone = users[u].phone
                               /\ users'[u].role = users[u].role
                               /\ u # ruling[c].user => users'[u] = users[u]
           /\ users'[ruling[c].user].active =
                 IF ruling[c].active = ruling[c].read
                 THEN users[ruling[c].user].active ELSE ruling[c].active
PROOF
<1> DEFINE r == ruling[c]
           row == Ruled(users[r.user], r.read, r.active)
<1>1. r \in Ruling
    BY DEF TypeOK, WriteStatus
<1>2. r.user \in Users /\ r.active \in BOOLEAN /\ users[r.user] \in Row
    BY <1>1 DEF Ruling, TypeOK, Users
<1>3. /\ row \in Row
      /\ row.phone = users[r.user].phone
      /\ row.role = users[r.user].role
      /\ row.active = IF r.active = r.read THEN users[r.user].active ELSE r.active
    BY <1>2 DEF Ruled, Row
<1>4. users' = [users EXCEPT ![r.user] = row]
    BY DEF WriteStatus
<1>5. /\ users' \in Seq(Row)
      /\ Users' = Users
      /\ users'[r.user] = row
      /\ \A v \in Users : v # r.user => users'[v] = users[v]
  <2> HIDE DEF r, row
  <2> QED
      BY <1>2, <1>3, <1>4, RewriteFacts
<1> QED
    BY <1>1, <1>2, <1>3, <1>5

-----------------------------------------------------------------------------
(* Types *)

LEMMA TypeInit == Init => TypeOK
BY DEF Init, TypeOK, Users

\* When rows are added or rewritten, calls in progress stay about users that exist.
LEMMA MoreUsers ==
    ASSUME TypeOK, Users \subseteq Users'
    PROVE  /\ editing \in [ProfileCalls -> Edit' \cup {Idle}]
           /\ ruling \in [StatusCalls -> Ruling' \cup {Idle}]
PROOF
<1>1. Edit \subseteq Edit' /\ Ruling \subseteq Ruling'
    BY DEF Edit, Ruling
<1> QED
    BY <1>1 DEF TypeOK

LEMMA TypeStep == TypeOK /\ [Next]_vars => TypeOK'
PROOF
<1> SUFFICES ASSUME TypeOK, [Next]_vars PROVE TypeOK'
    OBVIOUS
<1>1. ASSUME NEW c \in SignUps, NEW phone \in Phones, NEW role \in Roles, NEW name \in Names,
             Request(c, phone, role, name)
      PROVE  TypeOK'
  <2>1. [row |-> [phone |-> phone, role |-> role, name |-> name, active |-> TRUE],
         at |-> "insert"] \in SignUp
      BY DEF SignUp, Row
  <2>2. signing' \in [SignUps -> SignUp \cup {Idle}]
      BY <1>1, <2>1 DEF Request, TypeOK
  <2> QED
      BY <1>1, <2>2 DEF Request, TypeOK, Users, Edit, Ruling
<1>2. ASSUME NEW c \in SignUps, Insert(c) PROVE TypeOK'
  <2>1. signing[c] \in SignUp
      BY <1>2 DEF Insert, TypeOK
  <2>2. [signing[c] EXCEPT !.at = "commit"] \in SignUp
      BY <2>1 DEF SignUp
  <2>3. \/ signing' = [signing EXCEPT ![c] = Idle]
        \/ signing' = [signing EXCEPT ![c] = [signing[c] EXCEPT !.at = "commit"]]
      BY <1>2 DEF Insert, End
  <2>4. signing' \in [SignUps -> SignUp \cup {Idle}]
      BY <2>2, <2>3 DEF TypeOK
  <2> QED
      BY <1>2, <2>4 DEF Insert, TypeOK, Users, Edit, Ruling
<1>3. ASSUME NEW c \in SignUps, Commit(c) PROVE TypeOK'
  <2>1. users' \in Seq(Row) /\ Users \subseteq Users' /\ wallets' \in SUBSET Users'
      BY <1>3, CommitFacts DEF TypeOK
  <2>2. signing' \in [SignUps -> SignUp \cup {Idle}]
      BY <1>3 DEF Commit, End, TypeOK
  <2> QED
      BY <1>3, <2>1, <2>2, MoreUsers DEF TypeOK, Commit
<1>4. ASSUME NEW c \in ProfileCalls, NEW u \in Users, NEW name \in Names, LoadProfile(c, u, name)
      PROVE  TypeOK'
  <2>1. users[u] \in Row
      BY DEF TypeOK, Users
  <2>2. [user |-> u, read |-> [name |-> users[u].name, active |-> users[u].active],
         name |-> name] \in Edit
      BY <2>1 DEF Row, Edit
  <2>3. editing' \in [ProfileCalls -> Edit \cup {Idle}]
      BY <1>4, <2>2 DEF LoadProfile, TypeOK
  <2> QED
      BY <1>4, <2>3 DEF LoadProfile, TypeOK, Users, Edit, Ruling
<1>5. ASSUME NEW c \in ProfileCalls, WriteProfile(c) PROVE TypeOK'
  <2>1. users' \in Seq(Row) /\ Users' = Users
      BY <1>5, ProfileFacts
  <2>2. editing' \in [ProfileCalls -> Edit' \cup {Idle}]
      BY <1>5, <2>1, MoreUsers DEF WriteProfile
  <2>3. ruling' \in [StatusCalls -> Ruling' \cup {Idle}]
      BY <1>5, <2>1, MoreUsers DEF WriteProfile
  <2> QED
      BY <1>5, <2>1, <2>2, <2>3 DEF TypeOK, WriteProfile
<1>6. ASSUME NEW c \in StatusCalls, NEW u \in Users, NEW active \in BOOLEAN,
             ReadStatus(c, u, active)
      PROVE  TypeOK'
  <2>1. users[u] \in Row
      BY DEF TypeOK, Users
  <2>2. [user |-> u, read |-> users[u].active, active |-> active] \in Ruling
      BY <2>1 DEF Row, Ruling
  <2>3. ruling' \in [StatusCalls -> Ruling \cup {Idle}]
      BY <1>6, <2>2 DEF ReadStatus, TypeOK
  <2> QED
      BY <1>6, <2>3 DEF ReadStatus, TypeOK, Users, Edit, Ruling
<1>7. ASSUME NEW c \in StatusCalls, WriteStatus(c) PROVE TypeOK'
  <2>1. users' \in Seq(Row) /\ Users' = Users
      BY <1>7, StatusFacts
  <2>2. editing' \in [ProfileCalls -> Edit' \cup {Idle}]
      BY <1>7, <2>1, MoreUsers DEF WriteStatus
  <2>3. ruling' \in [StatusCalls -> Ruling' \cup {Idle}]
      BY <1>7, <2>1, MoreUsers DEF WriteStatus
  <2> QED
      BY <1>7, <2>1, <2>2, <2>3 DEF TypeOK, WriteStatus
<1>8. CASE Lose
    BY <1>8 DEF Lose, End, TypeOK, Users, Edit, Ruling
<1>9. CASE UNCHANGED vars
    BY <1>9 DEF vars, TypeOK, Users, Edit, Ruling
<1> QED
    BY <1>1, <1>2, <1>3, <1>4, <1>5, <1>6, <1>7, <1>8, <1>9
       DEF Next, Proceed, Register, Bootstrap, SignUps, Roles

\* Types: what a call acts on exists, however long ago it was read, because users are never
\* deleted.
THEOREM TypeCorrect == Spec => []TypeOK
PROOF
<1> QED
    BY TypeInit, TypeStep, PTL DEF Spec
-----------------------------------------------------------------------------
(* Wallets *)

LEMMA StepWallets == TypeOK /\ EveryAccountHasWallet /\ [Next]_vars => EveryAccountHasWallet'
PROOF
<1> SUFFICES ASSUME TypeOK, EveryAccountHasWallet, [Next]_vars PROVE EveryAccountHasWallet'
    OBVIOUS
<1>1. ASSUME NEW c \in SignUps, Commit(c) PROVE EveryAccountHasWallet'
    BY <1>1, CommitFacts DEF EveryAccountHasWallet
<1>2. CASE Users' = Users /\ wallets' = wallets
    BY <1>2 DEF EveryAccountHasWallet
<1>3. ASSUME NEW c \in ProfileCalls, WriteProfile(c) PROVE EveryAccountHasWallet'
    BY <1>2, <1>3, ProfileFacts DEF WriteProfile
<1>4. ASSUME NEW c \in StatusCalls, WriteStatus(c) PROVE EveryAccountHasWallet'
    BY <1>2, <1>4, StatusFacts DEF WriteStatus
<1>5. CASE UNCHANGED <<users, wallets>>
    BY <1>2, <1>5 DEF Users
<1> QED
    BY <1>1, <1>3, <1>4, <1>5
       DEF Next, Proceed, Register, Bootstrap, Request, Insert, LoadProfile, ReadStatus, Lose, vars

\* No account is without a wallet and no wallet without an account, wherever a sign-up is
\* lost: one COMMIT publishes both.
THEOREM AccountsHaveWallets == Spec => []EveryAccountHasWallet
PROOF
<1>1. Init => TypeOK /\ EveryAccountHasWallet
    BY TypeInit DEF Init, EveryAccountHasWallet, Users
<1>2. TypeOK /\ EveryAccountHasWallet /\ [Next]_vars => TypeOK' /\ EveryAccountHasWallet'
    BY TypeStep, StepWallets
<1> QED
    BY <1>1, <1>2, PTL DEF Spec

-----------------------------------------------------------------------------
(* Phone numbers *)

\* A sign-up that has inserted its user holds the key of the phone number: nobody else has
\* the number, committed or not.
KeyHeld ==
    \A c \in SignUps : signing[c] # Idle /\ signing[c].at = "commit" =>
        /\ \A u \in Users : users[u].phone # signing[c].row.phone
        /\ \A d \in SignUps \ {c} :
              signing[d] # Idle /\ signing[d].at = "commit" =>
                  signing[d].row.phone # signing[c].row.phone

LEMMA StepPhones ==
    TypeOK /\ OneAccountPerPhone /\ KeyHeld /\ [Next]_vars => OneAccountPerPhone' /\ KeyHeld'
PROOF
<1> SUFFICES ASSUME TypeOK, OneAccountPerPhone, KeyHeld, [Next]_vars
             PROVE  OneAccountPerPhone' /\ KeyHeld'
    OBVIOUS
<1>1. ASSUME NEW c \in SignUps, NEW phone \in Phones, NEW role, NEW name,
             Request(c, phone, role, name)
      PROVE  OneAccountPerPhone' /\ KeyHeld'
  <2>1. signing'[c].at = "insert" /\ \A d \in SignUps \ {c} : signing'[d] = signing[d]
      BY <1>1 DEF Request, TypeOK
  <2>2. users' = users
      BY <1>1 DEF Request
  <2> QED
      BY <2>1, <2>2 DEF OneAccountPerPhone, KeyHeld, Users
<1>2. ASSUME NEW c \in SignUps, Insert(c) PROVE OneAccountPerPhone' /\ KeyHeld'
  <2>1. users' = users /\ \A d \in SignUps \ {c} : signing'[d] = signing[d]
      BY <1>2 DEF Insert, End, TypeOK
  <2>2. CASE Duplicate(c)
    <3>1. signing'[c] = Idle
        BY <1>2, <2>2 DEF Insert, End, TypeOK
    <3> QED
        BY <2>1, <3>1 DEF OneAccountPerPhone, KeyHeld, Users
  <2>3. CASE ~Duplicate(c)
    <3>1. signing[c] \in SignUp
        BY <1>2 DEF Insert, TypeOK
    <3>2. signing'[c] = [signing[c] EXCEPT !.at = "commit"]
        BY <1>2, <2>3 DEF Insert, TypeOK
    <3>3. signing'[c].row.phone = signing[c].row.phone
        BY <3>1, <3>2 DEF SignUp
    <3>4. \A u \in Users : users[u].phone # signing[c].row.phone
        BY <2>3 DEF Duplicate, Registered
    <3>5. \A d \in SignUps \ {c} :
             signing[d] # Idle /\ signing[d].at = "commit" =>
                 signing[d].row.phone # signing[c].row.phone
        BY <1>2 DEF Insert, KeyFree
    <3> QED
        BY <2>1, <3>3, <3>4, <3>5 DEF OneAccountPerPhone, KeyHeld, Users
  <2> QED
      BY <2>2, <2>3
<1>3. ASSUME NEW c \in SignUps, Commit(c) PROVE OneAccountPerPhone' /\ KeyHeld'
  <2>1. signing'[c] = Idle /\ \A d \in SignUps \ {c} : signing'[d] = signing[d]
      BY <1>3 DEF Commit, End, TypeOK
  <2>2. \A u \in Users : users[u].phone # signing[c].row.phone
      BY <1>3 DEF Commit, KeyHeld
  <2>3. OneAccountPerPhone'
      BY <1>3, <2>2, CommitFacts DEF OneAccountPerPhone
  <2>4. ASSUME NEW d \in SignUps \ {c}, signing[d] # Idle, signing[d].at = "commit"
        PROVE  signing[d].row.phone # signing[c].row.phone
      BY <1>3, <2>4 DEF Commit, KeyHeld
  <2>5. KeyHeld'
      BY <1>3, <2>1, <2>4, CommitFacts DEF KeyHeld
  <2> QED
      BY <2>3, <2>5
<1>4. CASE /\ signing' = signing
           /\ Users' = Users
           /\ \A u \in Users : users'[u].phone = users[u].phone
    BY <1>4 DEF OneAccountPerPhone, KeyHeld
<1>5. ASSUME NEW c \in ProfileCalls, WriteProfile(c) PROVE OneAccountPerPhone' /\ KeyHeld'
    BY <1>4, <1>5, ProfileFacts DEF WriteProfile
<1>6. ASSUME NEW c \in StatusCalls, WriteStatus(c) PROVE OneAccountPerPhone' /\ KeyHeld'
    BY <1>4, <1>6, StatusFacts DEF WriteStatus
<1>7. CASE Lose
  <2>1. CASE signing' = signing
      BY <1>4, <1>7, <2>1 DEF Lose, Users
  <2>2. ASSUME NEW c \in SignUps, End(c) PROVE OneAccountPerPhone' /\ KeyHeld'
    <3>1. signing'[c] = Idle /\ \A d \in SignUps \ {c} : signing'[d] = signing[d]
        BY <2>2 DEF End, TypeOK
    <3>2. users' = users
        BY <1>7 DEF Lose
    <3> QED
        BY <3>1, <3>2 DEF OneAccountPerPhone, KeyHeld, Users
  <2> QED
      BY <1>7, <2>1, <2>2 DEF Lose
<1>8. CASE UNCHANGED <<users, signing>>
    BY <1>4, <1>8 DEF Users
<1> QED
    BY <1>1, <1>2, <1>3, <1>5, <1>6, <1>7, <1>8
       DEF Next, Proceed, Register, Bootstrap, LoadProfile, ReadStatus, SignUps, vars

\* However many registrations and bootstraps look for one phone number before any inserts it,
\* one account has it.
THEOREM PhonesAreUnique == Spec => []OneAccountPerPhone
PROOF
<1>1. Init => TypeOK /\ OneAccountPerPhone /\ KeyHeld
    BY TypeInit DEF Init, OneAccountPerPhone, KeyHeld, Users
<1>2. TypeOK /\ OneAccountPerPhone /\ KeyHeld /\ [Next]_vars
          => TypeOK' /\ OneAccountPerPhone' /\ KeyHeld'
    BY TypeStep, StepPhones
<1> QED
    BY <1>1, <1>2, PTL DEF Spec
-----------------------------------------------------------------------------
(* The status of an account *)

\* What no step does, the next theorem says for every step of a behaviour.
LEMMA StepStatus ==
    ASSUME TypeOK, [Next]_vars, NEW u \in Users
    PROVE  /\ users'[u].role = users[u].role
           /\ users'[u].phone = users[u].phone
           /\ users'[u].active # users[u].active =>
                 \E c \in StatusCalls : /\ ruling[c] # Idle
                                        /\ ruling'[c] = Idle
                                        /\ ruling[c].user = u
                                        /\ ruling[c].active = users'[u].active
PROOF
<1>1. ASSUME NEW c \in SignUps, Commit(c) PROVE users'[u] = users[u]
    BY <1>1, CommitFacts
<1>2. ASSUME NEW c \in ProfileCalls, WriteProfile(c)
      PROVE  /\ users'[u].role = users[u].role
             /\ users'[u].phone = users[u].phone
             /\ users'[u].active = users[u].active
    BY <1>2, ProfileFacts
<1>3. ASSUME NEW c \in StatusCalls, WriteStatus(c)
      PROVE  /\ users'[u].role = users[u].role
             /\ users'[u].phone = users[u].phone
             /\ users'[u].active # users[u].active =>
                   /\ ruling[c] # Idle
                   /\ ruling'[c] = Idle
                   /\ ruling[c].user = u
                   /\ ruling[c].active = users'[u].active
  <2>1. ruling[c] # Idle /\ ruling'[c] = Idle
      BY <1>3 DEF WriteStatus, TypeOK
  <2> QED
      BY <1>3, <2>1, StatusFacts
<1>4. CASE users' = users
    BY <1>4
<1> QED
    BY <1>1, <1>2, <1>3, <1>4
       DEF Next, Proceed, Register, Bootstrap, Request, Insert, LoadProfile, ReadStatus, Lose, vars

\* A profile update written long after it was loaded undoes no block, and nothing ever
\* changes a role or a number.
THEOREM StatusFromAdministrators == Spec => StatusIsTheAdministrators
PROOF
<1> DEFINE A == \A u \in Users :
          /\ users'[u].role = users[u].role
          /\ users'[u].phone = users[u].phone
          /\ users'[u].active # users[u].active =>
                \E c \in StatusCalls : /\ ruling[c] # Idle
                                       /\ ruling'[c] = Idle
                                       /\ ruling[c].user = u
                                       /\ ruling[c].active = users'[u].active
<1>1. TypeOK /\ [Next]_vars => A
    BY StepStatus
<1>2. StatusIsTheAdministrators <=> [][A]_vars
    BY DEF StatusIsTheAdministrators
<1> HIDE DEF A
<1> QED
    BY <1>1, <1>2, TypeCorrect, PTL DEF Spec

\* The status a status update read is the one stored while no other is in progress.
ReadIsCurrent ==
    \A c \in StatusCalls : ruling[c] # Idle => users[ruling[c].user].active = ruling[c].read

LEMMA StepAnswered ==
    ASSUME NEW a, StatusCalls = {a}
    PROVE  TypeOK /\ ReadIsCurrent /\ [Next]_vars => ReadIsCurrent'
PROOF
<1> SUFFICES ASSUME TypeOK, ReadIsCurrent, [Next]_vars, ruling'[a] # Idle
             PROVE  users'[ruling'[a].user].active = ruling'[a].read
    BY DEF ReadIsCurrent
<1> a \in StatusCalls
    OBVIOUS
<1>1. CASE ruling' = ruling
  <2>1. ruling[a] \in Ruling /\ users[ruling[a].user].active = ruling[a].read
      BY <1>1 DEF TypeOK, ReadIsCurrent
  <2>2. ruling[a].user \in Users
      BY <2>1 DEF Ruling
  <2>3. users'[ruling[a].user].active = users[ruling[a].user].active
    <3>1. users'[ruling[a].user].active # users[ruling[a].user].active =>
             \E c \in StatusCalls : ruling[c] # Idle /\ ruling'[c] = Idle
        BY <2>2, StepStatus
    <3> QED
        BY <1>1, <3>1
  <2> QED
      BY <1>1, <2>1, <2>3
<1>2. ASSUME NEW u \in Users, NEW active \in BOOLEAN, ReadStatus(a, u, active)
      PROVE  users'[ruling'[a].user].active = ruling'[a].read
    BY <1>2 DEF ReadStatus, TypeOK
<1>3. ~WriteStatus(a)
    BY DEF WriteStatus, TypeOK
<1>4. CASE Lose
    BY <1>1, <1>4 DEF Lose, TypeOK
<1> QED
    BY <1>1, <1>2, <1>3, <1>4
       DEF Next, Proceed, Register, Bootstrap, Request, Insert, Commit, LoadProfile, WriteProfile, vars

\* With one status update in progress at a time its answer is the status stored, so what two
\* administrators can lose they lose to one another.
THEOREM AnsweredForOneAdministrator ==
    ASSUME NEW a, StatusCalls = {a}
    PROVE  Spec => AnsweredStatusIsStored
PROOF
<1> DEFINE A == \A c \in StatusCalls :
          WriteStatus(c) => users'[ruling[c].user].active = ruling[c].active
<1>1. Init => TypeOK /\ ReadIsCurrent
    BY TypeInit DEF Init, ReadIsCurrent
<1>2. TypeOK /\ ReadIsCurrent /\ [Next]_vars => TypeOK' /\ ReadIsCurrent'
    BY TypeStep, StepAnswered
<1>3. TypeOK /\ ReadIsCurrent => A
  <2> SUFFICES ASSUME TypeOK, ReadIsCurrent, NEW c \in StatusCalls, WriteStatus(c)
               PROVE  users'[ruling[c].user].active = ruling[c].active
      OBVIOUS
  <2>1. users[ruling[c].user].active = ruling[c].read
      BY DEF ReadIsCurrent, WriteStatus
  <2> QED
      BY <2>1, StatusFacts
<1>4. AnsweredStatusIsStored <=> [][A]_vars
    BY DEF AnsweredStatusIsStored
<1> HIDE DEF A
<1> QED
    BY <1>1, <1>2, <1>3, <1>4, PTL DEF Spec

-----------------------------------------------------------------------------
(* The bootstrap *)

\* A bootstrap in progress has found no administrator, and there is none until it commits.
BootstrapIsAlone ==
    /\ \A c \in RegisterCalls : signing[c] # Idle => signing[c].row.role = "USER"
    /\ \A c \in BootstrapCalls : signing[c] # Idle => Administrators = {}

LEMMA StepBootstrap ==
    ASSUME NEW b, BootstrapCalls = {b}
    PROVE  TypeOK /\ OneAdministrator /\ BootstrapIsAlone /\ [Next]_vars
               => OneAdministrator' /\ BootstrapIsAlone'
PROOF
<1> SUFFICES ASSUME TypeOK, OneAdministrator, BootstrapIsAlone, [Next]_vars
             PROVE  OneAdministrator' /\ BootstrapIsAlone'
    OBVIOUS
<1> b \in SignUps /\ b \notin RegisterCalls /\ RegisterCalls \subseteq SignUps
    BY CallsAssumption DEF SignUps
<1>1. CASE /\ Administrators' = Administrators
           /\ \A c \in SignUps : signing'[c] # Idle =>
                 signing[c] # Idle /\ signing'[c].row = signing[c].row
    BY <1>1 DEF OneAdministrator, BootstrapIsAlone
<1>2. ASSUME NEW c \in RegisterCalls, NEW phone \in Phones, NEW name \in Names,
             Register(c, phone, name)
      PROVE  OneAdministrator' /\ BootstrapIsAlone'
  <2>1. /\ signing'[c].row.role = "USER"
        /\ \A d \in SignUps \ {c} : signing'[d] = signing[d]
        /\ users' = users
      BY <1>2 DEF Register, Request, TypeOK
  <2> QED
      BY <2>1 DEF OneAdministrator, BootstrapIsAlone, Administrators, Users
<1>3. ASSUME NEW phone \in Phones, NEW name \in Names, Bootstrap(b, phone, name)
      PROVE  OneAdministrator' /\ BootstrapIsAlone'
  <2>1. /\ \A d \in SignUps \ {b} : signing'[d] = signing[d]
        /\ users' = users
        /\ Administrators = {}
      BY <1>3 DEF Bootstrap, Request, TypeOK
  <2> QED
      BY <2>1 DEF OneAdministrator, BootstrapIsAlone, Administrators, Users
<1>4. ASSUME NEW c \in SignUps, Insert(c) PROVE OneAdministrator' /\ BootstrapIsAlone'
  <2>1. signing[c] \in SignUp /\ users' = users
      BY <1>4 DEF Insert, TypeOK
  <2>2. \A d \in SignUps : signing'[d] # Idle =>
           signing[d] # Idle /\ signing'[d].row = signing[d].row
      BY <1>4, <2>1 DEF Insert, End, TypeOK, SignUp
  <2>3. Administrators' = Administrators
      BY <2>1 DEF Administrators, Users
  <2> QED
      BY <1>1, <2>2, <2>3
<1>5. ASSUME NEW c \in RegisterCalls, Commit(c) PROVE OneAdministrator' /\ BootstrapIsAlone'
  <2>1. signing[c].row.role = "USER"
      BY <1>5 DEF Commit, BootstrapIsAlone
  <2>2. Administrators' = Administrators
      BY <1>5, <2>1, CommitFacts DEF Administrators
  <2>3. \A d \in SignUps : signing'[d] # Idle =>
           signing[d] # Idle /\ signing'[d].row = signing[d].row
      BY <1>5 DEF Commit, End, TypeOK
  <2> QED
      BY <1>1, <2>2, <2>3
<1>6. CASE Commit(b)
  <2>1. Administrators = {}
      BY <1>6 DEF Commit, BootstrapIsAlone
  <2>2. Administrators' \subseteq {Len(users) + 1}
      BY <1>6, <2>1, CommitFacts DEF Administrators
  <2>3. /\ signing'[b] = Idle
        /\ \A d \in SignUps \ {b} : signing'[d] = signing[d]
      BY <1>6 DEF Commit, End, TypeOK
  <2> QED
      BY <2>2, <2>3 DEF OneAdministrator, BootstrapIsAlone
<1>7. ASSUME NEW c \in ProfileCalls, WriteProfile(c) PROVE OneAdministrator' /\ BootstrapIsAlone'
  <2>1. Administrators' = Administrators
      BY <1>7, ProfileFacts DEF Administrators
  <2> QED
      BY <1>1, <1>7, <2>1 DEF WriteProfile
<1>8. ASSUME NEW c \in StatusCalls, WriteStatus(c) PROVE OneAdministrator' /\ BootstrapIsAlone'
  <2>1. Administrators' = Administrators
      BY <1>8, StatusFacts DEF Administrators
  <2> QED
      BY <1>1, <1>8, <2>1 DEF WriteStatus
<1>9. CASE Lose
  <2>1. Administrators' = Administrators
      BY <1>9 DEF Lose, Administrators, Users
  <2>2. \A d \in SignUps : signing'[d] # Idle => signing'[d] = signing[d]
      BY <1>9 DEF Lose, End, TypeOK
  <2> QED
      BY <1>1, <2>1, <2>2
<1>10. CASE UNCHANGED <<users, signing>>
    BY <1>1, <1>10 DEF Administrators, Users
<1> QED
    BY <1>2, <1>3, <1>4, <1>5, <1>6, <1>7, <1>8, <1>9, <1>10
       DEF Next, Proceed, LoadProfile, ReadStatus, SignUps, vars

\* With one bootstrap in progress at a time there is never a second administrator, whatever
\* registrations do: the route is usable once (api_auth.py:90).
THEOREM OneBootstrapOneAdministrator ==
    ASSUME NEW b, BootstrapCalls = {b}
    PROVE  Spec => []OneAdministrator
PROOF
<1>1. Init => TypeOK /\ OneAdministrator /\ BootstrapIsAlone
    BY TypeInit, CallsAssumption DEF Init, OneAdministrator, BootstrapIsAlone, Administrators, Users, SignUps
<1>2. TypeOK /\ OneAdministrator /\ BootstrapIsAlone /\ [Next]_vars
          => TypeOK' /\ OneAdministrator' /\ BootstrapIsAlone'
    BY TypeStep, StepBootstrap
<1> QED
    BY <1>1, <1>2, PTL DEF Spec
=============================================================================
