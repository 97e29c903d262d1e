CONSTANTS
    ScrollOffset = 1
    Names = {"a", "b", "f", "h", "p"}
    Paths <- MCDeepPaths
    Dirs <- MCDeepDirs
    PlaylistNames = {"p"}
    Shown = {"f"}
    HiddenNames = {"h"}
    Rank <- MCRank
    PlaylistLines <- MCLines
    NoRead <- MCA
    NoSearch <- MCNoDirs
    Interference = FALSE
    StackValues <- MCStackValues
    NrRows = 2
SPECIFICATION Spec
PROPERTIES
    DeletesSelected
