CONSTANTS
    Keys = {key}
    Callers = {c1, c2}
    Entries = {e1, e2, e3}
    NoEntry = NoEntry
    MaxAttempts = 2
    BlockDuration = 2
    Window = 1
    LastCall = 3
    MaxTime = 6
SPECIFICATION FairSpec
INVARIANTS
    TypeOK
    FailuresAreBounded
PROPERTIES
    EntriesReclaimed
