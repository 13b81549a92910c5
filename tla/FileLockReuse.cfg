CONSTANTS
    p1 = p1
    p2 = p2
    p3 = p3
    None = None
    Proc = {p1, p2}
    File = {"f1", "f2"}
    NoLinks = {"f2"}
    Answers = {"proceed", "steal", "abort"}
    AskModes = {TRUE, FALSE}
    MaxBoot = 1
    MaxRefs = 1
    MaxRetries = 5
    MayCrash = {p1, p2}
    Host <- OneHost
SPECIFICATION FairSpec
INVARIANT Exclusion
PROPERTY Returns
CHECK_DEADLOCK FALSE
