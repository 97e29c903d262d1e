CONSTANTS
    t = t
    u = u
    r = r
    stereo = stereo
    surround = surround
    NoTrack = NoTrack
    NoFormat = NoFormat
    Tracks <- MCTracks
    Remote = {r}
    Formats <- MCFormats
    Format <- MCFormat
    NrChunks = 2
    PrebufChunks = 1
    ReadErrors = {TRUE}
    Calls = {"play", "stop", "pause", "pause_playback", "set_file", "play_file", "exit"}
    Cont = {TRUE, FALSE}
    Repeat = {TRUE, FALSE}
    MaxSpace = 2
    SleepOutcomes = {TRUE}
SPECIFICATION Spec
CHECK_DEADLOCK FALSE
INVARIANT StatusReported
