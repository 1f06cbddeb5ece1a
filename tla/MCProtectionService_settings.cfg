SPECIFICATION Spec
CONSTANTS
    Horizons = {2}
    Placeholder = placeholder
    Code = code
    Backdoor = override
    DurationDefault = 15
    Texts = {code, override}
    ShortTexts = {override}
    BackdoorSet = TRUE
    UnlockDelayDefault = 2
    Window = 2
    Durations = {0, 14, 15}
    UnlockDelays = {1, 2}
    ReleaseDelays = {0, 1}
    UseLimits = {0, 1, 2}
    Releases = {TRUE, FALSE}
    Toggles = {TRUE, FALSE}
    Lockouts = {"active"}
    MaxTime = 1
    MaxPerUnit = 2
PROPERTIES NothingLoosens 
