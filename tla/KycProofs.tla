------------------------------ MODULE KycProofs -----------------------------
(***************************************************************************)
(* Theorems about Kyc, for every number of clients, dossiers and calls.    *)
(***************************************************************************)
EXTENDS Kyc, SequenceTheorems, TLAPS

-----------------------------------------------------------------------------
(* Types *)

\* A dossier stays well formed under each of the three writes.
LEMMA WritesAreDossiers ==
    ASSUME NEW row \in Dossier
    PROVE  Rejected(row) \in Dossier /\ Approved(row) \in Dossier
BY DEF Dossier, Statuses, Rejected, Approved

\* Writing one dossier keeps the number of rows.
LEMMA RewriteType ==
    ASSUME TypeOK, NEW d \in Dossiers, NEW row \in Dossier,
           dossiers' = [dossiers EXCEPT ![d] = row]
    PROVE  /\ dossiers' \in Seq(Dossier)
           /\ Len(dossiers') = Len(dossiers)
           /\ DOMAIN dossiers' = DOMAIN dossiers
           /\ dossiers'[d] = row
           /\ \A e \in Dossiers : e # d => dossiers'[e] = dossiers[e]
BY DEF TypeOK, Dossiers

\* Adding one at the end.
LEMMA InsertType ==
    ASSUME TypeOK, NEW row \in Dossier, Len(dossiers) < MaxDossiers,
           dossiers' = Append(dossiers, row)
    PROVE  /\ dossiers' \in Seq(Dossier)
           /\ Len(dossiers') = Len(dossiers) + 1
           /\ DOMAIN dossiers' = DOMAIN dossiers \cup {Len(dossiers) + 1}
           /\ dossiers'[Len(dossiers) + 1] = row
           /\ \A e \in Dossiers : dossiers'[e] = dossiers[e]
BY AppendProperties, BoundAssumption DEF TypeOK, Dossiers

LEMMA TypeStep ==
    ASSUME TypeOK, [Next]_vars
    PROVE  TypeOK'
PROOF
<1>1. ASSUME NEW c \in SubmitCalls, NEW u \in Users, Submit(c, u)
      PROVE  TypeOK'
    BY <1>1 DEF TypeOK, Submit, Dossiers
<1>2. ASSUME NEW c \in SubmitCalls, Insert(c)
      PROVE  TypeOK'
  <2> DEFINE row == [user |-> submitting[c], status |-> "PENDING", noted |-> FALSE]
  <2>1. submitting[c] \in Users /\ submitting' \in [SubmitCalls -> Users \cup {NoCall}]
    BY <1>2 DEF Insert, TypeOK
  <2>2. CASE dossiers' = dossiers
    BY <1>2, <2>1, <2>2 DEF Insert, TypeOK, Dossiers
  <2>3. CASE dossiers' = Append(dossiers, row)
    <3>1. row \in Dossier
      BY <2>1 DEF Dossier, Statuses
    <3>2. /\ dossiers' \in Seq(Dossier)
          /\ Len(dossiers') = Len(dossiers) + 1
          /\ DOMAIN dossiers' = DOMAIN dossiers \cup {Len(dossiers) + 1}
      BY <1>2, <2>3, <3>1, InsertType DEF Insert
    <3> QED
      BY <1>2, <2>1, <3>2, BoundAssumption DEF Insert, TypeOK, Dossiers
  <2> QED
    BY <1>2, <2>2, <2>3 DEF Insert
<1>3. ASSUME NEW c \in DecideCalls, NEW d \in Dossiers, NEW decision \in Decisions,
             Decide(c, d, decision)
      PROVE  TypeOK'
    BY <1>3 DEF TypeOK, Decide, Dossiers
<1>4. ASSUME NEW c \in DecideCalls, Write(c)
      PROVE  TypeOK'
  <2> DEFINE d == deciding[c].dossier
  <2>1. d \in Dossiers /\ dossiers[d] \in Dossier
    BY <1>4 DEF Write, TypeOK, Dossiers
  <2>2. Rejected(dossiers[d]) \in Dossier /\ Approved(dossiers[d]) \in Dossier
    BY <2>1, WritesAreDossiers
  <2>3. dossiers' \in Seq(Dossier) /\ Len(dossiers') = Len(dossiers)
        /\ DOMAIN dossiers' = DOMAIN dossiers
    <3>1. \/ dossiers' = dossiers
          \/ dossiers' = [dossiers EXCEPT ![d] = Rejected(dossiers[d])]
          \/ dossiers' = [dossiers EXCEPT ![d] = Approved(dossiers[d])]
      BY <1>4 DEF Write
    <3> QED
      BY <2>1, <2>2, <3>1, RewriteType DEF TypeOK
  <2> QED
    BY <1>4, <2>3 DEF Write, TypeOK, Dossiers
<1>5. CASE Lose
    BY <1>5 DEF Lose, TypeOK, Dossiers
<1>6. CASE UNCHANGED vars
    BY <1>6 DEF vars, TypeOK, Dossiers
<1> QED
    BY <1>1, <1>2, <1>3, <1>4, <1>5, <1>6 DEF Next

\* Every row of kyc_submissions has a status the application can read, and the calls in
\* progress are about clients and dossiers that exist.
THEOREM TypeCorrect == Spec => []TypeOK
PROOF
<1>1. Init => TypeOK
    BY BoundAssumption DEF Init, TypeOK, Dossiers
<1> QED
    BY <1>1, TypeStep, PTL DEF Spec

-----------------------------------------------------------------------------
(* One active dossier *)

\* What the three writes do to the status of a row.
LEMMA WrittenStatus ==
    ASSUME NEW row \in Dossier
    PROVE  /\ Rejected(row).status = "REJECTED" /\ Rejected(row).noted = TRUE
           /\ Rejected(row).user = row.user
           /\ Approved(row).status = "APPROVED" /\ Approved(row).user = row.user
BY DEF Dossier, Statuses, Rejected, Approved

\* An insertion happens only when the client has no active dossier, an approval only when
\* the client has no other one, and a rejection activates nothing.
LEMMA OneActiveStep ==
    ASSUME TypeOK, OneActiveDossier, [Next]_vars
    PROVE  OneActiveDossier'
PROOF
<1> SUFFICES ASSUME NEW u \in Users, NEW d \in Active(u)', NEW e \in Active(u)'
             PROVE  d = e
    BY DEF OneActiveDossier
<1>1. CASE dossiers' = dossiers
    BY <1>1 DEF OneActiveDossier, Active, Dossiers
<1>2. ASSUME NEW c \in SubmitCalls, Insert(c), dossiers' # dossiers
      PROVE  d = e
  <2> DEFINE row == [user |-> submitting[c], status |-> "PENDING", noted |-> FALSE]
             n == Len(dossiers) + 1
  <2>1. /\ submitting[c] \in Users /\ Allowed(submitting[c], 0)
        /\ dossiers' = Append(dossiers, row)
    BY <1>2 DEF Insert, TypeOK
  <2>2. row \in Dossier /\ row.user = submitting[c]
    BY <2>1 DEF Dossier, Statuses
  <2>3. /\ DOMAIN dossiers' = Dossiers \cup {n}
        /\ dossiers'[n] = row
        /\ \A f \in Dossiers : dossiers'[f] = dossiers[f]
    BY <1>2, <2>1, <2>2, InsertType DEF Insert, Dossiers
  <2>4. 0 \notin Dossiers
    BY DEF Dossiers, TypeOK
  <2>5. Active(submitting[c]) = {}
    BY <2>1, <2>4 DEF Allowed, Active
  <2> QED
    BY <2>2, <2>3, <2>5 DEF Active, Dossiers, OneActiveDossier
<1>3. ASSUME NEW c \in DecideCalls, Write(c), dossiers' # dossiers
      PROVE  d = e
  <2> DEFINE w == deciding[c].dossier
  <2>1. w \in Dossiers /\ dossiers[w] \in Dossier
    BY <1>3 DEF Write, TypeOK, Dossiers
  <2>2. CASE dossiers' = [dossiers EXCEPT ![w] = Rejected(dossiers[w])]
    <3>1. /\ Dossiers' = Dossiers
          /\ dossiers'[w].status = "REJECTED"
          /\ \A f \in Dossiers : f # w => dossiers'[f] = dossiers[f]
      BY <2>1, <2>2, WritesAreDossiers, RewriteType, WrittenStatus DEF Dossiers
    <3> QED
      BY <3>1 DEF Active, OneActiveDossier
  <2>3. CASE /\ Allowed(dossiers[w].user, w)
             /\ dossiers' = [dossiers EXCEPT ![w] = Approved(dossiers[w])]
    <3>1. /\ Dossiers' = Dossiers
          /\ dossiers'[w].user = dossiers[w].user
          /\ \A f \in Dossiers : f # w => dossiers'[f] = dossiers[f]
      BY <2>1, <2>3, WritesAreDossiers, RewriteType, WrittenStatus DEF Dossiers
    <3>2. \A f \in Dossiers \ {w} : dossiers[f].user = dossiers[w].user
              => dossiers[f].status \notin {"PENDING", "APPROVED"}
      BY <2>3 DEF Allowed, Active
    <3> QED
      BY <3>1, <3>2 DEF Active, OneActiveDossier
  <2> QED
    BY <1>3, <2>2, <2>3 DEF Write
<1> QED
    BY <1>1, <1>2, <1>3 DEF Next, vars, Submit, Decide, Lose

\* A client never has two active dossiers, whatever submissions and decisions are in
\* progress and however late they write.
THEOREM AtMostOneActive == Spec => []OneActiveDossier
PROOF
<1>1. Init => OneActiveDossier
    BY DEF Init, OneActiveDossier, Active, Dossiers
<1> QED
    BY <1>1, TypeCorrect, OneActiveStep, PTL DEF Spec

-----------------------------------------------------------------------------
(* Reasons *)

\* A new dossier is not rejected, a rejection writes its note, and an approval, however
\* late, leaves no rejected dossier.
LEMMA ReasonKeptStep ==
    ASSUME TypeOK, RejectionHasReason, [Next]_vars
    PROVE  RejectionHasReason'
PROOF
<1>1. CASE dossiers' = dossiers
    BY <1>1 DEF RejectionHasReason, Dossiers
<1>2. ASSUME NEW c \in SubmitCalls, Insert(c), dossiers' # dossiers
      PROVE  RejectionHasReason'
  <2> DEFINE row == [user |-> submitting[c], status |-> "PENDING", noted |-> FALSE]
  <2>1. submitting[c] \in Users
    BY <1>2 DEF Insert, TypeOK
  <2>2. row \in Dossier /\ row.status # "REJECTED"
    BY <2>1 DEF Dossier, Statuses
  <2> QED
    BY <1>2, <2>2, InsertType DEF Insert, RejectionHasReason, Dossiers
<1>3. ASSUME NEW c \in DecideCalls, Write(c), dossiers' # dossiers
      PROVE  RejectionHasReason'
  <2> DEFINE w == deciding[c].dossier
  <2>1. w \in Dossiers /\ dossiers[w] \in Dossier
    BY <1>3 DEF Write, TypeOK, Dossiers
  <2>2. PICK row \in {Rejected(dossiers[w]), Approved(dossiers[w])} :
            dossiers' = [dossiers EXCEPT ![w] = row]
    BY <1>3 DEF Write
  <2>3. row \in Dossier /\ (row.status = "REJECTED" => row.noted)
    BY <2>1, <2>2, WritesAreDossiers, WrittenStatus
  <2> QED
    BY <2>1, <2>2, <2>3, RewriteType DEF RejectionHasReason, Dossiers
<1> QED
    BY <1>1, <1>2, <1>3 DEF Next, vars, Submit, Decide, Lose

\* A rejected dossier has its reason, for any number of administrators deciding at once.
THEOREM RejectionsHaveReasons == Spec => []RejectionHasReason
PROOF
<1>1. Init => RejectionHasReason
    BY DEF Init, RejectionHasReason, Dossiers
<1> QED
    BY <1>1, TypeCorrect, ReasonKeptStep, PTL DEF Spec

-----------------------------------------------------------------------------
(* One administrator at a time *)

\* What a decision in progress has read is still so when it writes.
ReadIsCurrent == \A c \in DecideCalls : deciding[c] # NoCall => Decidable(deciding[c].dossier)

\* With one decision in progress at a time nobody else writes to the dossier it has read.
LEMMA ReadIsCurrentStep ==
    ASSUME TypeOK, ReadIsCurrent, [Next]_vars, NEW a, DecideCalls = {a}
    PROVE  ReadIsCurrent'
PROOF
<1>1. ASSUME NEW c \in SubmitCalls, NEW u \in Users, Submit(c, u)
      PROVE  ReadIsCurrent'
    BY <1>1 DEF ReadIsCurrent, Submit, Decidable
<1>2. ASSUME NEW c \in SubmitCalls, Insert(c)
      PROVE  ReadIsCurrent'
  <2> DEFINE row == [user |-> submitting[c], status |-> "PENDING", noted |-> FALSE]
  <2>1. submitting[c] \in Users
    BY <1>2 DEF Insert, TypeOK
  <2>2. row \in Dossier
    BY <2>1 DEF Dossier, Statuses
  <2>3. \A d \in Dossiers : dossiers'[d] = dossiers[d]
    BY <1>2, <2>2, InsertType DEF Insert
  <2> QED
    BY <1>2, <2>3 DEF Insert, ReadIsCurrent, Decidable, TypeOK
<1>3. ASSUME NEW c \in DecideCalls, NEW d \in Dossiers, NEW decision \in Decisions,
             Decide(c, d, decision)
      PROVE  ReadIsCurrent'
    BY <1>3 DEF ReadIsCurrent, Decide, Decidable, TypeOK
<1>4. ASSUME NEW c \in DecideCalls, Write(c)
      PROVE  ReadIsCurrent'
    BY <1>4 DEF ReadIsCurrent, Write, TypeOK
<1>5. CASE Lose
    BY <1>5 DEF Lose, ReadIsCurrent, Decidable, TypeOK
<1>6. CASE UNCHANGED vars
    BY <1>6 DEF vars, ReadIsCurrent, Decidable
<1> QED
    BY <1>1, <1>2, <1>3, <1>4, <1>5, <1>6 DEF Next

DecisionKept ==
    \A d \in Dossiers : dossiers[d].status # "PENDING" => dossiers'[d] = dossiers[d]

LEMMA DecisionKeptStep ==
    ASSUME TypeOK, ReadIsCurrent, [Next]_vars
    PROVE  DecisionKept
PROOF
<1>1. ASSUME NEW c \in SubmitCalls, Insert(c), dossiers' # dossiers
      PROVE  DecisionKept
  <2> DEFINE row == [user |-> submitting[c], status |-> "PENDING", noted |-> FALSE]
  <2>1. submitting[c] \in Users
    BY <1>1 DEF Insert, TypeOK
  <2>2. row \in Dossier
    BY <2>1 DEF Dossier, Statuses
  <2> QED
    BY <1>1, <2>2, InsertType DEF Insert, DecisionKept
<1>2. ASSUME NEW c \in DecideCalls, Write(c), dossiers' # dossiers
      PROVE  DecisionKept
  <2> DEFINE w == deciding[c].dossier
  <2>1. w \in Dossiers /\ dossiers[w] \in Dossier /\ dossiers[w].status = "PENDING"
    BY <1>2 DEF Write, TypeOK, Dossiers, ReadIsCurrent, Decidable
  <2>2. \/ dossiers' = [dossiers EXCEPT ![w] = Rejected(dossiers[w])]
        \/ dossiers' = [dossiers EXCEPT ![w] = Approved(dossiers[w])]
    BY <1>2 DEF Write
  <2> QED
    BY <2>1, <2>2, WritesAreDossiers, RewriteType DEF DecisionKept
<1> QED
    BY <1>1, <1>2 DEF Next, vars, Submit, Decide, Lose, DecisionKept

\* While one administrator decides at a time a decision is final; with two, the
\* second may replace the first.
THEOREM FinalForOneAdministrator ==
    ASSUME NEW a, DecideCalls = {a}
    PROVE  Spec => DecisionIsFinal
PROOF
<1>1. Init => ReadIsCurrent
    BY DEF Init, ReadIsCurrent
<1>2. TypeOK /\ ReadIsCurrent /\ [Next]_vars => ReadIsCurrent'
    BY ReadIsCurrentStep
<1>3. TypeOK /\ ReadIsCurrent /\ [Next]_vars => [DecisionKept]_vars
    BY DecisionKeptStep
<1>4. DecisionIsFinal <=> [][DecisionKept]_vars
    BY PTL DEF DecisionIsFinal, DecisionKept
<1> QED
    BY <1>1, <1>2, <1>3, <1>4, TypeCorrect, PTL DEF Spec


\* A new dossier has no note, a rejection writes one, and an approval finds none.
LEMMA ReasonStep ==
    ASSUME TypeOK, ReadIsCurrent, ReasonIfRejected, [Next]_vars
    PROVE  ReasonIfRejected'
PROOF
<1>1. CASE dossiers' = dossiers
    BY <1>1 DEF ReasonIfRejected, Dossiers
<1>2. ASSUME NEW c \in SubmitCalls, Insert(c), dossiers' # dossiers
      PROVE  ReasonIfRejected'
  <2> DEFINE row == [user |-> submitting[c], status |-> "PENDING", noted |-> FALSE]
  <2>1. submitting[c] \in Users
    BY <1>2 DEF Insert, TypeOK
  <2>2. row \in Dossier /\ (row.noted <=> row.status = "REJECTED")
    BY <2>1 DEF Dossier, Statuses
  <2> QED
    BY <1>2, <2>2, InsertType DEF Insert, ReasonIfRejected, Dossiers
<1>3. ASSUME NEW c \in DecideCalls, Write(c), dossiers' # dossiers
      PROVE  ReasonIfRejected'
  <2> DEFINE w == deciding[c].dossier
  <2>1. w \in Dossiers /\ dossiers[w] \in Dossier /\ dossiers[w].status = "PENDING"
    BY <1>3 DEF Write, TypeOK, Dossiers, ReadIsCurrent, Decidable
  <2>2. PICK row \in {Rejected(dossiers[w]), Approved(dossiers[w])} :
            dossiers' = [dossiers EXCEPT ![w] = row]
    BY <1>3 DEF Write
  <2>3. Approved(dossiers[w]).noted = dossiers[w].noted
    BY <2>1 DEF Approved, Dossier
  <2>4. ~dossiers[w].noted
    BY <2>1 DEF ReasonIfRejected
  <2>5. row \in Dossier /\ (row.noted <=> row.status = "REJECTED")
    BY <2>1, <2>2, <2>3, <2>4, WritesAreDossiers, WrittenStatus
  <2> QED
    BY <2>1, <2>2, <2>5, RewriteType DEF ReasonIfRejected, Dossiers
<1> QED
    BY <1>1, <1>2, <1>3 DEF Next, vars, Submit, Decide, Lose

\* While one administrator decides at a time, /kyc/status shows a reason with the rejected
\* dossiers and with no other.
THEOREM ReasonForOneAdministrator ==
    ASSUME NEW a, DecideCalls = {a}
    PROVE  Spec => []ReasonIfRejected
PROOF
<1>1. Init => ReadIsCurrent /\ ReasonIfRejected
    BY DEF Init, ReadIsCurrent, ReasonIfRejected, Dossiers
<1>2. TypeOK /\ ReadIsCurrent /\ [Next]_vars => ReadIsCurrent'
    BY ReadIsCurrentStep
<1>3. TypeOK /\ ReadIsCurrent /\ ReasonIfRejected /\ [Next]_vars => ReasonIfRejected'
    BY ReasonStep
<1> QED
    BY <1>1, <1>2, <1>3, TypeCorrect, PTL DEF Spec

=============================================================================
