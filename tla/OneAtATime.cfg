\* One runner at a time over one directory, killed or failing anywhere (a kill does
\* not leave a grader behind), with tools that outlive an agent ended by force.
SPECIFICATION Spec
CONSTANTS
    r1 = r1
    r2 = r2
    r3 = r3
    Runners = {r1, r2}
    Nobody = Nobody
    Inputs = {i1, i2}
    NoInputs = NoInputs
    Starter = start
    Contents = {start, solved}
    Solved = {solved}
    NoContent = NoContent
    Overlap = FALSE
    Strays = TRUE
    CrashAt <- NotGrading
    RaiseAt <- InTry
SYMMETRY Symmetric
VIEW Essential
INVARIANTS
    StatusIsAuthors
    ResumeKeepsInputs
    EvidenceIsSealed
PROPERTIES
    CountedStays
    IsOneCell
\* Every runner lives once and ends.
CHECK_DEADLOCK FALSE
