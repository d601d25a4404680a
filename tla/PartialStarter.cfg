\* Refuted: an agent starts from the whole, committed starter.
SPECIFICATION Spec
CONSTANTS
    r1 = r1
    r2 = r2
    r3 = r3
    Runners = {r1, r2}
    Nobody = Nobody
    Inputs = {i1}
    NoInputs = NoInputs
    Starter = start
    Contents = {start, solved}
    Solved = {solved}
    NoContent = NoContent
    Overlap = FALSE
    Strays = TRUE
    CrashAt <- OnlyInBaseline
    RaiseAt <- NoPoints
INVARIANTS
    AgentStartsFromBaseline
\* Every runner lives once and ends.
CHECK_DEADLOCK FALSE
