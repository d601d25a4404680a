SPECIFICATION Spec
CONSTANTS
    Files = {a, b}
    Ignored = {b}
    MaxContent = 2
    Binary = {2}
    MaxActs = 3
    MaxCrashes = 1
INVARIANTS PatchIsExact
CHECK_DEADLOCK FALSE
