SPECIFICATION BridgeSpec
CONSTANTS
    Horizons = {1, 2}
    Placeholder = placeholder
    Code = code
    Backdoor = override
    DurationDefault = 15
    Texts = {"pw", code, override}
    ShortTexts = {override}
    BackdoorSet = FALSE
    UnlockDelayDefault = 1
    Window = 3
    Durations = {14}
    UnlockDelays = {1}
    ReleaseDelays = {0}
    UseLimits = {0}
    Releases = {TRUE}
    Toggles = {FALSE}
    Lockouts = {}
    MaxTime = 1
    MaxPerUnit = 2
    DevPassword = "pw"
    Versions = {1, 2, 3, 4, 5, 6, 7, 8, 9, 10, 11, 12}
    OldRecords <- FoundRecords
INVARIANTS  CommitmentProtects
PROPERTIES DecidesAsService 
CHECK_DEADLOCK FALSE
