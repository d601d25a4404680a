\* Two runners in one directory at once.
SPECIFICATION Spec
CONSTANTS
    r1 = r1
    r2 = r2
    r3 = r3
    Runners = {r1, r2}
    Nobody = Nobody
    Inputs = {i1}
    NoInputs = NoInputs
    Starter = start
    Contents = {start, solved}
    Solved = {solved}
    NoContent = NoContent
    Overlap = TRUE
    Strays = TRUE
    CrashAt <- KilledInOverlap
    RaiseAt <- FailedInOverlap
SYMMETRY Symmetric
VIEW Essential
CONSTRAINT NobodyRefused
INVARIANTS
    SoleAuthor
    AtMostOneAgent
    OneCreator
    SolvedIsSealed
\* Every runner lives once and ends.
CHECK_DEADLOCK FALSE
