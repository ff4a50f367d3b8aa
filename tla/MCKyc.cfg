\* Two administrators decide at the same time.
CONSTANTS
    Users = {u1, u2}
    SubmitCalls = {s1, s2}
    DecideCalls = {a1, a2}
    MaxDossiers = 4
    NoCall = NoCall
SPECIFICATION Spec
SYMMETRY Symmetry
INVARIANTS TypeOK OneActiveDossier RejectionHasReason
CHECK_DEADLOCK FALSE
