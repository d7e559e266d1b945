\* Two producers and a controller, two requests each, the daemon launched twice.
\* No symmetry: two of the properties are liveness.
CONSTANTS
    p1 = p1
    p2 = p2
    c1 = c1
    c2 = c2
    Producers <- MCProducers
    Controllers <- MCControllers
    MaxPush = 2
    MaxLaunch = 2
SPECIFICATION FairSpec
INVARIANTS
    TypeOK
    FlagCoversQueue
    NoLostWakeup
    AtMostOneLate
PROPERTIES
    ImplementsFifo
    EventuallyDrained
    StopTerminates
