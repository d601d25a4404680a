SPECIFICATION Spec
CONSTANTS
    Helpers = {h1}
    Calls = {c1, c2}
    MaxAgents = 2
    MaxLaunches = 2
SYMMETRY Symmetric
VIEW Essential
INVARIANTS TypeOK GoodRunVerifies VerifiedIsConfined NoSelfRefusal NothingOutlives
CHECK_DEADLOCK FALSE
