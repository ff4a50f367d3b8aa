\* No trouble at all, two payouts: the webhook and the task handle one pay-in.
CONSTANTS
    Refs = {p}
    NoRow = NoRow
    Attempts = 2
    Wakes = 2
    Deliveries = 2
    AtOnce = 2
    MaxOps = 3
    MaxManual = 0
    MaxTrouble = 0
SPECIFICATION Spec
INVARIANT CreditedOnce
CHECK_DEADLOCK FALSE
