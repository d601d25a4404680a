\* A call with two further processes and one exception raised into the wait.
SPECIFICATION FairSpec
CONSTANTS
    Others = {m1, m2}
    MaxInterrupts = 1
INVARIANTS
    LeavesNothing
PROPERTIES
    KeepsPromise
    ComesBack
    SignalsOwnGroup
\* The call is over.
CHECK_DEADLOCK FALSE
