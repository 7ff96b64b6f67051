CONSTANTS
    Gone = Gone
    Nothing = Nothing
    Contents = {original, edited, badRules, broken}
    Valid = {original, edited, badRules}
    Compilable = {original, edited}
    MayFail = {edited}
    MaxTime = 3
    MaxInflight = 1
SPECIFICATION Spec
INVARIANT
    InvalidConfigNotApplied
