\* Two server processes with a call each: every call ends.
CONSTANTS
    Users = {1, 2}
    Operators = {wave}
    Proofs = {manual}
    ManualProof = manual
    DeclaredProofs = {manual}
    NoProof = NoProof
    Amounts = {10}
    FeePercents = {4, 8}
    DecidedTypes = {"PAY_OUT"}
    MaxRows = 2
    Workers = {w1, w2}
    Slots = {s1}
    Routes = {"declare"}
    NoJob = NoJob
SPECIFICATION SSpec

PROPERTIES EveryCallFinishes
CHECK_DEADLOCK FALSE
