CONSTANTS
    t = t
    u = u
    r = r
    stereo = stereo
    surround = surround
    NoTrack = NoTrack
    NoFormat = NoFormat
    Tracks <- MCOneTrack
    Remote = {}
    Formats <- MCFormats
    Format <- MCOneFormat
    NrChunks = 1
    PrebufChunks = 1
    ReadErrors = {TRUE}
    Calls = {"play", "stop"}
    Cont = {TRUE, FALSE}
    Repeat = {TRUE, FALSE}
    MaxSpace = 1
    SleepOutcomes = {TRUE}
SPECIFICATION FairSpec
CHECK_DEADLOCK FALSE
PROPERTY StopTakesEffect
