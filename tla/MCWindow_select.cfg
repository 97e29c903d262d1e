CONSTANTS
    ScrollOffset = 1
    MaxRows = 5
    NrRows = {0, 1, 2, 3, 4}
    MaxStep = 3
    StackValues <- MCStackValues
SPECIFICATION Spec
INVARIANTS
    TopNotEmpty
