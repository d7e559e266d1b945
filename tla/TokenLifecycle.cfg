\* Several updates and more than a refresh token's life, all three chances to
\* authorize used up or not, one kill; the margins as tight as they may be.
CONSTANTS
    AccessLife = 7
    AccessMargin = 6
    RefreshLife = 8
    RefreshMargin = 2
    Period = 2
    MaxSync = 1
    MaxCall = 1
    MaxTime = 10
    MaxFailures = 3
    MaxCrashes = 1
SPECIFICATION FairSpec
INVARIANTS
    TypeOK
    TimestampsHonest
    AccessAlwaysValid
    RefreshUsedAlive
    CacheFollowsMemory
    ResumedAfterUpdate
PROPERTY CloseReturns
\* Time ends at MaxTime.
CHECK_DEADLOCK FALSE
