CONSTANTS
    ScrollOffset = 1
    MaxRows = 5
    NrRows = {0, 1, 3, 4}
    MaxStep = 2
    StackValues <- MCStackValues
SPECIFICATION Spec
INVARIANTS
    TypeOK
    SelVisible
    ScreenCurrent
PROPERTIES
    NoNewEmptyLines
    OffsetKept
