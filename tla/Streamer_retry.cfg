\* A login is refused once, or not answered.
CONSTANTS
    c1 = c1
    c2 = c2
    Callers = {c1}
    MaxSubs = 0
    MaxLogins = 2
    MaxFaults = 1
    MaxPauses = 0
    MayStop = FALSE
SPECIFICATION FairSpec
PROPERTIES
    LoginRetrySucceeds
\* The modelled process dies of an uncaught exception or a null pointer.
CHECK_DEADLOCK FALSE
