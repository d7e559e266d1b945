\* Reconnections, no pause, no stop.
CONSTANTS
    c1 = c1
    c2 = c2
    Callers <- TwoCallers
    MaxSubs = 2
    MaxLogins = 2
    MaxFaults = 2
    MaxPauses = 0
    MayStop = FALSE
SPECIFICATION FairSpec
INVARIANTS
    TypeOK
    OneReadOutstanding
    ActiveMeansLoggedIn
    ActiveIsReading
    NothingGlued
    Resubscribed
PROPERTIES
    Recovers
    
\* The modelled process dies of an uncaught exception or a null pointer.
CHECK_DEADLOCK FALSE
