\* One agent with two updates, one with one, and a page that loses its socket once.
CONSTANTS
    a1 = a1
    a2 = a2
    Agents = {a1, a2}
    Activities = {busy}
    NoActivity = NoActivity
    ChannelSize = 1
    MaxUpdates <- MCUpdates
    MaxBreaks = 1
SPECIFICATION FairSpec
INVARIANTS StreamIsExact SettledStreamIsCurrent
PROPERTIES ShownNeverGoesBack PageCatchesUp
CHECK_DEADLOCK FALSE
