SPECIFICATION Spec
CONSTANTS
    Results <- Remembered
    Labels = {genital, anus}
    Natives = {TRUE, FALSE}
    HardWindow = 2
    ArtWindow = 2
    ArtSpan = 1
    ExposureWindow = 3
    ExposureSpan = 2
    FastSpan = 1
    CleanReset = 2
    MaxTime = 4
    MaxScans = 4
INVARIANTS TypeOK ConfirmationsBounded
PROPERTIES LockNeedsEvidence SecondStrikeLocks PersistentExposureLocks
