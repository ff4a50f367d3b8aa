\* Three sign-ups, a profile update and a status update in progress at once.
CONSTANTS
    Phones = {p1, p2}
    Names = {n1, n2}
    RegisterCalls = {r1, r2}
    BootstrapCalls = {b1}
    ProfileCalls = {e1}
    StatusCalls = {a1}
    Idle = Idle
SPECIFICATION Spec
INVARIANTS TypeOK OneAccountPerPhone EveryAccountHasWallet
PROPERTIES StatusIsTheAdministrators EverySignUpEnds
CHECK_DEADLOCK FALSE
