SPECIFICATION Spec
CONSTANTS
    Contents = {a, b}
    NoFrame = none
    Lateness = {0, 1}
    ActiveTick = 2
    SustainedTick = 3
    IdleTick = 3
    IdleAfter = 8
    SustainedAfter = 5
    BurstMin = 3
    BurstSpacing = 4
    SustainedScan = 5
    FullSweep = 6
    SettleMin = 1
    SafetySweep = 6
    ShareTick = 3
    FullscreenTick = 3
    TransitionPause = 2
    DeferTick = 1
    IdlePass = 3
    Far = 9
INVARIANTS TypeOK  NoticedSoon
PROPERTIES  VideoSweptWide
