SPECIFICATION Spec
CONSTANTS
    Horizons = {1, 2, 3, 4, 5, 6}
    Placeholder = placeholder
    Code = code
    Backdoor = override
    DurationDefault = 15
    Texts = {pw, code, override}
    ShortTexts = {override}
    BackdoorSet = FALSE
    UnlockDelayDefault = 1
    Window = 3
    Durations = {15}
    UnlockDelays = {0, 1, 2}
    ReleaseDelays = {0}
    UseLimits = {1}
    Releases = {TRUE}
    Toggles = {}
    Lockouts = {}
    MaxTime = 5
    MaxPerUnit = 2
INVARIANTS TypeOK CommitmentProtects UnlockWasEarned
PROPERTIES CommitmentHonoured  ImplementsProtection
