CONSTANTS
    access = access
    audit = audit
    errors = errors
    graylog = graylog
    NoLogger = NoLogger
    AllEnabled = AllEnabled
    Requests = {r1}
    Dests = {access, audit, errors, graylog}
    Configs <- MCConfigs
    TargetLists <- MCTargetLists
    BadAdds = {errors}
    MaxGen = 3
SPECIFICATION FairSpec
INVARIANTS
    TypeOK
    PublishedIffOpen
    CompleteBetweenReloads
    OrderedOnce
    RotatedSurvivesReload
    LeakIsBounded
PROPERTIES
    MapFollowsConfig
    ClosedOnceFromMap
    LookUpFindsOpen
    KeepsPromise
    EveryRequestAnswered
