CONSTANTS
    ScrollOffset = 1
    Names = {"a", "b", "f", "h", "p"}
    Paths <- MCSmallPaths
    Dirs <- MCSmallDirs
    PlaylistNames = {"p"}
    Shown = {"f"}
    HiddenNames = {"h"}
    Rank <- MCRank
    PlaylistLines <- MCLines
    NoRead <- MCNoDirs
    NoSearch <- MCNoDirs
    Interference = TRUE
    StackValues <- MCZero
    NrRows = 2
SPECIFICATION FairSpec
PROPERTIES
    SelectionKept
    LoadEnds
