SPECIFICATION Spec
CONSTANTS
    Window = 1
    MaxTime = 2
    MaxLockouts = 2
    MaxFaults = 1
    MaxLosses = 1
INVARIANTS TypeOK RecordsVerify RepeatsScale
PROPERTIES DeletionNoticed
