CONSTANTS
    Slices = 2
    SliceSize = 2
    Header = 1
    Data = {x, y}
    x = x
    Zero = Zero
    Absent = Absent
    MaxEof = 8
    MaxLen = 2
    MaxFails = 1
SPECIFICATION Spec
CONSTRAINTS OneValue UntilFailed
INVARIANTS TypeOK OneSlice ReadBack SeeksWhereNeeded
