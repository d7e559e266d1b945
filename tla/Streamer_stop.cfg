\* Stopping at any moment, the connection lost or not.
CONSTANTS
    c1 = c1
    c2 = c2
    Callers = {c1}
    MaxSubs = 0
    MaxLogins = 1
    MaxFaults = 1
    MaxPauses = 0
    MayStop = TRUE
SPECIFICATION FairSpec
PROPERTIES
    StopReturns
    StopEndsDaemons
\* The modelled process dies of an uncaught exception or a null pointer.
CHECK_DEADLOCK FALSE
