SPECIFICATION GuardSpec
CONSTANTS
    Horizons = {2, 3, 4}
    Placeholder = placeholder
    Code = code
    Backdoor = override
    DurationDefault = 15
    Texts = {pw, code, override}
    ShortTexts = {override}
    BackdoorSet = FALSE
    UnlockDelayDefault = 1
    Window = 3
    Durations = {}
    UnlockDelays = {}
    ReleaseDelays = {}
    UseLimits = {}
    Releases = {}
    Toggles = {}
    Lockouts = {}
    MaxTime = 3
    MaxPerUnit = 2
PROPERTIES AcceptedCommitmentStays
CHECK_DEADLOCK FALSE
