SPECIFICATION FairSpec
CONSTANTS
    Views = {"tree", "sorted"}
    Environments <- TestEnvironments
INVARIANTS
    ShownBeforeWaiting
    ResizePending
PROPERTIES
    ChangesPickedUp
    ErrorShown
    RequestAnswered
    QuitSeen
CHECK_DEADLOCK FALSE
