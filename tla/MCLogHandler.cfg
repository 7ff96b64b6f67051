CONSTANTS
    Requests = {r1}
    Sites <- MCSites
    Gtms <- MCGtms
    NoGtm <- MCNoGtm
    ValidIds <- MCValidIds
    Traits = {"public", "intranet"}
    Decision <- MCDecision
    Message <- MCMessage
    Garbage <- MCGarbage
    Sec = 2
    Duration = 3
    MaxTime = 6
    MaxIssued = 2
SPECIFICATION Spec
INVARIANTS
    TypeOK
    Authorised
    ToldMeansLogged
    AnswerTellsOutcome
