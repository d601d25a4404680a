\* A run killed or failing twice where a resume recovers, and resumed until it is done.
SPECIFICATION RecoverSpec
CONSTANTS
    r1 = r1
    r2 = r2
    r3 = r3
    Runners = {r1, r2, r3}
    Nobody = Nobody
    Inputs = {i1}
    NoInputs = NoInputs
    Starter = start
    Contents = {start}
    Solved = {start}
    NoContent = NoContent
    Overlap = FALSE
    Strays = FALSE
    CrashAt <- Recoverable
    RaiseAt <- RecoverableFailure
INVARIANTS
    SealedIsClean
    CompleteIsIntact
PROPERTIES
    EventuallySealed
    RunnersEnd
\* Every runner lives once and ends.
CHECK_DEADLOCK FALSE
