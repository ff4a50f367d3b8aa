\* Two deposits declared with proofs of their own, one payment to confirm them with.
CONSTANTS
    Users = {u1, u2}
    Operators = {wave}
    Proofs = {manual, p1, p2}
    ManualProof = manual
    DeclaredProofs = {p1, p2}
    NoProof = NoProof
    Amounts = {10}
    FeePercents = {8}
    DecidedTypes = {"PAY_OUT"}
    MaxRows = 2
SPECIFICATION EvidenceSpec
INVARIANT OneProofOneCredit
CHECK_DEADLOCK FALSE
