SPECIFICATION Spec
CONSTANTS
    x = x
    sp = sp
    nl = nl
    None = None
    Torn = Torn
    NL = nl
    Spaces = {sp}
    Letters = {x}
    Strings <- Short
    Typing = FALSE
    Elsewhere = FALSE
    Redo = TRUE
    Moves = {FALSE}
    Pasts = {"no"}
    Saves = {"ok"}
    Bottom = {}
    MaxText = 3
    MaxLog = 5
INVARIANTS
    Unmodified
