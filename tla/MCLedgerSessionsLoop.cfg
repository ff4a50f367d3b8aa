\* One server process, as start.sh deploys it, serving two calls.
CONSTANTS
    Users = {1, 2}
    Operators = {wave}
    Proofs = {manual}
    ManualProof = manual
    DeclaredProofs = {manual}
    NoProof = NoProof
    Amounts = {10}
    FeePercents = {4, 8}
    DecidedTypes = {"PAY_OUT"}
    MaxRows = 2
    Workers = {w1}
    Slots = {s1, s2}
    Routes = {"declare", "declare-async"}
    NoJob = NoJob
SPECIFICATION SSpec
PROPERTIES EveryCallFinishes
CHECK_DEADLOCK FALSE
