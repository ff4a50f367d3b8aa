\* Requests are used once: the system stops when all are done.
CONSTANTS
    Requests = {q1, q2, q3}
    Users = {u1, u2}
    Tokens = {t1}
    Connections = {c1, c2}
    None = None
    MaxRows = 2
SPECIFICATION Spec
INVARIANTS TypeOK PoolBalanced LastLoginOwns 
PROPERTIES EveryRequestEnds
CHECK_DEADLOCK FALSE
