CONSTANTS
    Nil = Nil
    RuleSet <- MCRuleSet
    RequestSet <- MCRequestSet
    MaxRules = 2
    Names = {"team", "agent"}
    Values = {1, 2}
    Urls = {"/a.js", "/b.js"}
    Trusted = {"proxy"}
SPECIFICATION Spec
INVARIANT
    DownloadsAccumulate
CHECK_DEADLOCK FALSE
