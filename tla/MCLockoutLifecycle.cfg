SPECIFICATION FairSpec
CONSTANTS
    p1 = p1
    p2 = p2
    Pids = {p1, p2}
    NoPid = nopid
    Strangers = {p1}
    Lengths = {1}
    DefaultLength = 1
    ReleaseDelays = {0}
    MaxTime = 1
    MaxEvents = 2
    Shutdowns = {FALSE}
INVARIANTS TypeOK ShutdownWasAsked
PROPERTIES OverlayReturns 
