\* Withdrawal decisions on the rows the dashboard lists.
CONSTANTS
    Users = {u1, u2}
    Operators = {wave, orange}
    Proofs = {manual, p1}
    ManualProof = manual
    DeclaredProofs = {manual, p1}
    NoProof = NoProof
    Amounts = {10}
    FeePercents = {4, 8}
    DecidedTypes = {"PAY_OUT"}
    MaxRows = 4
SPECIFICATION Spec
SYMMETRY Symmetry
INVARIANTS TypeOK Reconciled Conserved ProofsUnique AuditMatchesDecisions
PROPERTIES RowsKeepTheirHistory
CHECK_DEADLOCK FALSE
