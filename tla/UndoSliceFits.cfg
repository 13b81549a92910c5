CONSTANTS
    Slices = 3
    SliceSize = 2
    Header = 1
    Data = {a, b}
    Zero = Zero
    Absent = Absent
    MaxEof = 6
    MaxLen = 3
    MaxFails = 0
SPECIFICATION Spec
PROPERTY FlatFile
