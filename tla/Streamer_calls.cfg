\* Two threads that subscribe, pause, resume and stop on a connection that holds.
CONSTANTS
    c1 = c1
    c2 = c2
    Callers <- TwoCallers
    MaxSubs = 1
    MaxLogins = 1
    MaxFaults = 0
    MaxPauses = 2
    MayStop = TRUE
SPECIFICATION Spec
INVARIANTS
    NothingLost
    
    QuietAfterStop
    StopDisconnects
SYMMETRY Symmetry
\* The modelled process dies of an uncaught exception or a null pointer.
CHECK_DEADLOCK FALSE
