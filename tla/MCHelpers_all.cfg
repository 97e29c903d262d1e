SPECIFICATION Spec
CONSTANTS
    FieldWidths = {0, 1, 2, 3, 4, 5, 6, 7, 8}
    MaxFrames = 4
    SOFT_VOL_SCALE = 8
    Volumes = {0, 3, 8, 12}
    MaxSample = 3
    Preamble <- MCPreamble
    HEADER_SIZE = 6
    ID3_SIZE = 3
    Files <- MCFiles
    MaxRead = 3
    MaxSize = 24
    Word = 8
INVARIANTS
    FieldFilled
    ScaledOnce
    NearestSample
    SearchExact
    ItemsInBounds
CHECK_DEADLOCK FALSE
