\* The unlocked relaunch may overlap a locked flag update.
CONSTANTS
    p1 = p1
    p2 = p2
    c1 = c1
    c2 = c2
    Producers <- MCProducers
    Controllers <- MCControllers
    MaxPush = 1
    MaxLaunch = 2
SPECIFICATION Spec
INVARIANT LaunchedKeepsRunning
