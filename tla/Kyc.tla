--------------------------------- MODULE Kyc --------------------------------
(***************************************************************************)
(* Identity dossiers: POST /kyc/submit by clients, and the two routes by   *)
(* which administrators decide (the dashboard's POST and the HTML page's   *)
(* GET).  The routes use the asynchronous session without row locks: each  *)
(* reads, yields, and writes what it decided from what it read, so here    *)
(* every call is a reading step and a writing step.  The writing step is   *)
(* the UPDATE or INSERT with its COMMIT: a second writer waits for them.   *)
(***************************************************************************)
EXTENDS Naturals, Sequences, FiniteSetsExt

CONSTANTS
    Users,         \* clients
    SubmitCalls,   \* submissions that may be in progress at once
    DecideCalls,   \* decisions that may be in progress at once
    MaxDossiers,   \* bound: rows of kyc_submissions
    NoCall         \* no call in progress

ASSUME BoundAssumption == MaxDossiers \in Nat

Statuses == {"PENDING", "APPROVED", "REJECTED"}
Decisions == {"approve", "reject"}

VARIABLES
    dossiers,     \* kyc_submissions, in the order of insertion
    submitting,   \* the client of each submission that found no active dossier
    deciding      \* the dossier and decision of each call that found it PENDING

vars == <<dossiers, submitting, deciding>>

\* noted: review_note holds the reason of a rejection.
Dossier == [user: Users, status: Statuses, noted: BOOLEAN]
Dossiers == DOMAIN dossiers

Init ==
    /\ dossiers = <<>>
    /\ submitting = [c \in SubmitCalls |-> NoCall]
    /\ deciding = [c \in DecideCalls |-> NoCall]

Active(u) == {d \in Dossiers : dossiers[d].user = u /\ dossiers[d].status \in {"PENDING", "APPROVED"}}

\* uq_kyc_active_per_user lets u's dossier d be active: no other one is.
AllowedForPending(u, d) == \A e \in Active(u) \ {d} : dossiers[e].status # "PENDING"
Allowed(u, d) == Active(u) \ {d} = {}

-----------------------------------------------------------------------------
(* POST /kyc/submit *)

\* The SELECT: 409 when the client has an active dossier.
Submit(c, u) ==
    /\ submitting[c] = NoCall
    /\ Active(u) = {}
    /\ submitting' = [submitting EXCEPT ![c] = u]
    /\ UNCHANGED <<dossiers, deciding>>

\* The INSERT and its COMMIT, or the error of the unique index (500, rolled back).
Insert(c) ==
    LET u == submitting[c] IN
    /\ u # NoCall
    /\ Len(dossiers) < MaxDossiers
    /\ submitting' = [submitting EXCEPT ![c] = NoCall]
    /\ dossiers' = IF Allowed(u, 0)
                   THEN Append(dossiers, [user |-> u, status |-> "PENDING", noted |-> FALSE])
                   ELSE dossiers
    /\ UNCHANGED deciding

-----------------------------------------------------------------------------
(* POST /kyc/{id}/decide and GET /kyc/decide *)

DecidableAgain(d) == dossiers[d].status # "APPROVED"
Decidable(d) == dossiers[d].status = "PENDING"

\* The SELECT: 409, or a page that says so, when the dossier is no longer PENDING.
Decide(c, d, decision) ==
    /\ deciding[c] = NoCall
    /\ Decidable(d)
    /\ deciding' = [deciding EXCEPT ![c] = [dossier |-> d, decision |-> decision]]
    /\ UNCHANGED <<dossiers, submitting>>

RejectedWithoutNote(row) == [row EXCEPT !.status = "REJECTED"]
Rejected(row) == [row EXCEPT !.status = "REJECTED", !.noted = TRUE]

\* review_note = None is no change of the row as it was read (a PENDING dossier has no
\* note), so the session's UPDATE leaves the column out.
ApprovedAsVerified(row) == [row EXCEPT !.status = "VERIFIED"]
Approved(row) == [row EXCEPT !.status = "APPROVED"]

\* The UPDATE ... WHERE id = ... and its COMMIT, whatever the row has become since it was
\* read; the unique index stops an approval when the client has another active dossier.
Write(c) ==
    LET d == deciding[c].dossier IN
    /\ deciding[c] # NoCall
    /\ deciding' = [deciding EXCEPT ![c] = NoCall]
    /\ \/ /\ deciding[c].decision = "reject"
          /\ dossiers' = [dossiers EXCEPT ![d] = Rejected(@)]
       \/ /\ deciding[c].decision = "approve"
          /\ dossiers' = IF Allowed(dossiers[d].user, d)
                         THEN [dossiers EXCEPT ![d] = Approved(@)]
                         ELSE dossiers
    /\ UNCHANGED submitting

\* A call ends before its COMMIT (process killed, connection cut): nothing is written.
Lose ==
    /\ UNCHANGED dossiers
    /\ \/ \E c \in SubmitCalls : submitting[c] # NoCall
            /\ submitting' = [submitting EXCEPT ![c] = NoCall] /\ UNCHANGED deciding
       \/ \E c \in DecideCalls : deciding[c] # NoCall
            /\ deciding' = [deciding EXCEPT ![c] = NoCall] /\ UNCHANGED submitting

Next ==
    \/ \E c \in SubmitCalls, u \in Users : Submit(c, u)
    \/ \E c \in SubmitCalls : Insert(c)
    \/ \E c \in DecideCalls, d \in Dossiers, decision \in Decisions : Decide(c, d, decision)
    \/ \E c \in DecideCalls : Write(c)
    \/ Lose

Spec == Init /\ [][Next]_vars

-----------------------------------------------------------------------------
(* Properties *)

\* The statuses stored are those of the enum of models.py (a row with another one makes
\* every query that reads it fail, migration_011_fix_kyc_verified_status), and the calls
\* in progress are about clients and dossiers that exist.
TypeOK ==
    /\ dossiers \in Seq(Dossier)
    /\ Len(dossiers) <= MaxDossiers
    /\ submitting \in [SubmitCalls -> Users \cup {NoCall}]
    /\ deciding \in [DecideCalls -> [dossier: Dossiers, decision: Decisions] \cup {NoCall}]

\* One active dossier per client at a time, although submissions and decisions act on what
\* they read before: a late approval cannot add a second one to a resubmission.
OneActiveDossier == \A u \in Users : \A d, e \in Active(u) : d = e

\* /kyc/status shows the reason of a rejection with the rejected dossiers, and no other: true
\* while one administrator decides at a time (a late approval leaves the reason there).
ReasonIfRejected == \A d \in Dossiers : dossiers[d].noted <=> dossiers[d].status = "REJECTED"

\* Every rejected dossier has its reason, whichever decisions were read and written in
\* between: a late approval cannot take it from a rejection that follows.
RejectionHasReason == \A d \in Dossiers : dossiers[d].status = "REJECTED" => dossiers[d].noted

\* A decision is final: the routes do nothing to a dossier that is no longer PENDING, says
\* api_admin.py:873-874.
DecisionIsFinal ==
    [][\A d \in Dossiers : dossiers[d].status # "PENDING" => dossiers'[d] = dossiers[d]]_vars
=============================================================================
