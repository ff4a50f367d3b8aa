\* Withdrawal decisions on any PENDING id, as the route and the SQL function accept them.
CONSTANTS
    Users = {u1, u2}
    Operators = {wave, orange}
    Proofs = {manual, p1}
    ManualProof = manual
    DeclaredProofs = {manual, p1}
    NoProof = NoProof
    Amounts = {10}
    FeePercents = {4, 8}
    DecidedTypes = {"PAY_OUT", "PAY_IN"}
    MaxRows = 4
SPECIFICATION Spec
SYMMETRY Symmetry
PROPERTIES CreditOnlyOnConfirmedPayin
CHECK_DEADLOCK FALSE
