CONSTANTS
    p1 = p1
    p2 = p2
    p3 = p3
    None = None
    Proc = {p1, p2}
    File = {"f1"}
    NoLinks = {}
    Answers = {}
    AskModes = {FALSE}
    MaxBoot = 0
    MaxRefs = 1
    MaxRetries = 5
    MayCrash = {}
    Host <- OneHost
SPECIFICATION FairSpec
PROPERTY FailedReadRetried
CHECK_DEADLOCK FALSE
