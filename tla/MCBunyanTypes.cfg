CONSTANTS
    Keys <- MCKeys
    KeyLen <- MCKeyLen
    Origins <- MCOrigins
    Objects <- MCObjects
    MaxDepth = 3
    BaseRecord <- MCBaseRecord
    MaxTruncateIterations = 10
    Inputs <- MCInputs
    Targets <- MCTargets
    DestAdds <- MCDestAdds
    Spaced <- MCSpaced
    DestKind <- MCDestKind
    MaxMessage <- MCMaxMessage
SPECIFICATION Spec
INVARIANT
    BunyanTypes
CHECK_DEADLOCK FALSE
