\* A kill between truncating and completing the cache file.
CONSTANTS
    AccessLife = 9
    AccessMargin = 6
    RefreshLife = 16
    RefreshMargin = 3
    Period = 2
    MaxSync = 1
    MaxCall = 1
    MaxTime = 4
    MaxFailures = 0
    MaxCrashes = 1
SPECIFICATION Spec
INVARIANTS
    CorruptCacheReauthorizes
\* Time ends at MaxTime.
CHECK_DEADLOCK FALSE
