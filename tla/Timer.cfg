\* A timer started, restarted and stopped in any order, whose callback may call it.
CONSTANTS
    MaxLaunches = 3
    MayReenter = TRUE
SPECIFICATION FairSpec
INVARIANTS
    TypeOK
    NeverReplacesJoinable
    StopIsPrompt
PROPERTIES
    KeepsPromise
    StopReturns
\* A callback that stops its own timer hangs or ends the process.
CHECK_DEADLOCK FALSE
