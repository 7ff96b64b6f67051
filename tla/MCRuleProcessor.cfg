CONSTANTS
    Nil = Nil
    RuleSet <- MCRuleSet
    RequestSet <- MCRequestSet
    MaxRules = 4
    Names = {"team", "agent"}
    Values = {1, 2}
    Urls = {"/a.js", "/b.js"}
    Trusted = {"proxy"}
SPECIFICATION Spec
INVARIANTS
    TypeOK
    FirstFinalDecides
    LastAddWins
    FirstScriptWins
    SenderDecides
CHECK_DEADLOCK FALSE
