SPECIFICATION Spec
CONSTANTS
    x = x
    sp = sp
    nl = nl
    None = None
    Torn = Torn
    NL = nl
    Spaces = {}
    Letters = {x}
    Strings <- Lines
    Typing = FALSE
    Elsewhere = TRUE
    Redo = TRUE
    Moves = {FALSE}
    Pasts = {"ask"}
    Saves = {"ok", "write"}
    Bottom = {}
    MaxText = 3
    MaxLog = 4
INVARIANTS
    TypeOK
    Replayable
    UndoRestores
