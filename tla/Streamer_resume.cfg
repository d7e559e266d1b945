\* A resume finds a loop that is just stopping.
CONSTANTS
    c1 = c1
    c2 = c2
    Callers = {c1}
    MaxSubs = 0
    MaxLogins = 2
    MaxFaults = 0
    MaxPauses = 2
    MayStop = FALSE
SPECIFICATION Spec
INVARIANTS
    ResumeStartsLoop
\* The modelled process dies of an uncaught exception or a null pointer.
CHECK_DEADLOCK FALSE
