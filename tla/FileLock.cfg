CONSTANTS
    p1 = p1
    p2 = p2
    p3 = p3
    None = None
    Proc = {p1, p2, p3}
    File = {"f1"}
    NoLinks = {}
    Answers = {"proceed", "steal", "abort"}
    AskModes = {TRUE, FALSE}
    MaxBoot = 0
    MaxRefs = 2
    MaxRetries = 2
    MayCrash = {p1, p2}
    Host <- TwoHosts
SPECIFICATION Spec
INVARIANTS TypeOK Exclusion NoOrphan
PROPERTY SharedLockKept
CHECK_DEADLOCK FALSE
