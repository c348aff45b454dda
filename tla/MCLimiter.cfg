CONSTANTS
    k1 = k1
    p1 = p1
    p2 = p2
    Keys <- MCKeys
    Stoppers <- MCStoppers
    RequestsPerKey = 1
    BurstSize = 1
    Window = 2
    MaxTime = 7
    MaxCleaners = 2
SPECIFICATION FairSpec
INVARIANTS RateBound DeniedOnlyAtLimit ClosedOnce NoOrphanCleaner
PROPERTIES ImplementsWindow StoppedCleanerExits
CHECK_DEADLOCK FALSE
