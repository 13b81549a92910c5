CONSTANTS
    p1 = p1
    p2 = p2
    p3 = p3
    None = None
    Proc = {p1, p2, p3}
    File = {"f1"}
    NoLinks = {}
    Answers = {}
    AskModes = {FALSE}
    MaxBoot = 0
    MaxRefs = 1
    MaxRetries = 5
    MayCrash = {p1}
    Host <- OneHost
SPECIFICATION Spec
INVARIANT TakeoverExclusive
CHECK_DEADLOCK FALSE
