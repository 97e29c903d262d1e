CONSTANTS
    ScrollOffset = 1
    Names = {"a", "b", "f", "h", "p"}
    Paths <- MCPaths
    Dirs <- MCDirs
    PlaylistNames = {"p"}
    Shown = {"f"}
    HiddenNames = {"h"}
    Rank <- MCRank
    PlaylistLines <- MCLines
    NoRead <- MCNoDirs
    NoSearch <- MCNoDirs
    Interference = FALSE
    StackValues <- MCStackValues
    NrRows = 2
SPECIFICATION Spec
INVARIANTS
    WindowOnList
    RowsOfDir
    Sorted
PROPERTIES
    ActsOnSelected
