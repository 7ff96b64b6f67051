CONSTANTS
    Gone = Gone
    Nothing = Nothing
    Contents = {original, edited, badRules, broken}
    Valid = {original, edited, badRules}
    Compilable = {original, edited}
    MayFail = {edited}
    MaxTime = 3
    MaxInflight = 1
SPECIFICATION FairSpec
INVARIANTS
    TypeOK
    OnlyLoadableInUse
    NoEditMissed
PROPERTIES
    EditsTakeEffect
    ShutdownTerminates
CHECK_DEADLOCK FALSE
