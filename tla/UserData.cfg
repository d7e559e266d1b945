\* Two changes of the data, two bad answers, one caller.
CONSTANTS
    c1 = c1
    Callers = {c1}
    FieldLists <- MCFieldLists
    MaxChanges = 2
    MaxBad = 2
    MaxRecord = 2
SPECIFICATION FairSpec
INVARIANTS
    TypeOK
    FieldsAsRequired
    TornOneWay
PROPERTY CatchesUp
\* The modelled process dies of undefined behaviour.
CHECK_DEADLOCK FALSE
