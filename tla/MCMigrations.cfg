\* Two processes start side by side on a database in any state, with two failures.
CONSTANTS
    Processes = {p1, p2}
    LastFile = 13
    credit = credit
    deduct = deduct
    decide = decide
    proofs = proofs
    Objects <- MCObjects
    Defines <- MCDefines
    MaxFailures = 2
SPECIFICATION Spec
INVARIANTS TypeOK RecordedInOrder 
PROPERTIES EveryProcessServes
CHECK_DEADLOCK FALSE
