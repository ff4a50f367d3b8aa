\* Two server processes, as while a deployment replaces one by the other, a call in each.
CONSTANTS
    Users = {1, 2}
    Operators = {wave}
    Proofs = {manual}
    ManualProof = manual
    DeclaredProofs = {manual}
    NoProof = NoProof
    Amounts = {10}
    FeePercents = {4, 8}
    DecidedTypes = {"PAY_OUT"}
    MaxRows = 3
    Workers = {w1, w2}
    Slots = {s1}
    Routes = {"declare"}
    NoJob = NoJob
SPECIFICATION SSpec
SYMMETRY Symmetry
INVARIANTS STypeOK NoDeadlock
PROPERTIES ImplementsLedger
CHECK_DEADLOCK FALSE
