CONSTANTS
    Nil = Nil
    Addresses = {home}
    Requests = {r1, r2}
    Entries = {e1, e2, e3}
    Burst = 3
    Idle = 5
    Stall = 1
SPECIFICATION FairSpec
INVARIANTS
    TypeOK
    AdmissionBound
PROPERTIES
    RefusedOnlyWhenBusy
    LimitersReclaimed
