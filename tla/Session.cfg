CONSTANTS
    p1 = p1
    p2 = p2
    None = None
    Proc = {p1, p2}
    File = {"f1", "f2"}
    NoLinks = {}
    Answers = {"abort"}
    AskModes = {TRUE}
    MaxRefs = 2
    MaxRetries = 0
    MayCrash = {p1}
    Host <- OneHost
    Strict = {p1}
    Initially = {{}, {"f1"}}
    Uses <- Shared
    Names <- SecondName
    Rereads = {p2}
    Failing = {p1}
    MaxClock = 1
    MaxEdits = 2
SPECIFICATION Spec
CONSTRAINT FewerIfBold
INVARIANTS TypeOK BackedUp LockFollowsBuffer ModifiedIsLocked ExitKeepsWork
PROPERTIES NoLostUpdate
CHECK_DEADLOCK FALSE
