CONSTANTS
    LineSize = 4
    ReadSize = 3
    Arguments <- MCShort
    Inputs <- MCShortInput
    Answers <- MCAnswers
    ServerQuits = TRUE
SPECIFICATION FairSpec
INVARIANTS
    InStep
    ShowsAnswers
    NoCommandRefused
PROPERTIES
    Finishes
