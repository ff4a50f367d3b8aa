\* One payment of any type, with troubles of every kind; the system stops when all is settled.
CONSTANTS
    Refs = {p}
    NoRow = NoRow
    Attempts = 2
    Wakes = 2
    Deliveries = 2
    AtOnce = 2
    MaxOps = 2
    MaxManual = 1
    MaxTrouble = 2
SPECIFICATION Spec
INVARIANTS TypeOK MoneyComesFirst AckedIsAnswered
PROPERTIES  CollectedIsSettled
CHECK_DEADLOCK FALSE
