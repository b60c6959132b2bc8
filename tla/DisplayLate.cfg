SPECIFICATION Spec
CONSTANTS
    Rows = 2
    Cols = 1
    ColumnModulus = 256
    Colours = {c1, c2}
    BarRow = 0
    Strings <- MCStrings
INVARIANT WaitsForTransfer
