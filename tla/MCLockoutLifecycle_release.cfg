SPECIFICATION Spec
CONSTANTS
    p1 = p1
    p2 = p2
    Pids = {p1, p2}
    NoPid = nopid
    Strangers = {}
    Lengths = {2}
    DefaultLength = 1
    ReleaseDelays = {0}
    MaxTime = 2
    MaxEvents = 1
    Shutdowns = {TRUE}
INVARIANTS ReleaseSkipsShutdown
