SPECIFICATION Spec
CONSTANTS
    x = x
    sp = sp
    nl = nl
    None = None
    Torn = Torn
    NL = nl
    Spaces = {sp}
    Letters = {x}
    Strings <- Short
    Typing = TRUE
    Elsewhere = FALSE
    Redo = FALSE
    Moves = {FALSE, TRUE}
    Pasts = {"no"}
    Saves = {"ok"}
    Bottom = {"insert"}
    MaxText = 3
    MaxLog = 5
INVARIANTS
    Replayable
    MarkStands
    Unmodified
    ChangedShown
