\* A stop while connecting.
CONSTANTS
    c1 = c1
    c2 = c2
    Callers = {c1}
    MaxSubs = 0
    MaxLogins = 2
    MaxFaults = 0
    MaxPauses = 0
    MayStop = TRUE
SPECIFICATION Spec
INVARIANTS
    StopLeavesNothingDangling
\* The modelled process dies of an uncaught exception or a null pointer.
CHECK_DEADLOCK FALSE
