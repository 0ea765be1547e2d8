SPECIFICATION Spec
CONSTANTS
    r1 = r1
    r2 = r2
    c1 = c1
    c2 = c2
    rita = rita
    chitra = chitra
    None = None
    RunIds = {r1, r2}
    Cases = {c1}
    Users = {chitra}
    Starters = {chitra}
    Requested = {"approved"}
    FaultPoints = {}
    MaxFaults = 0
    MaxData = 1
    MaxCrashes = 1
    MaxResets = 0
    Environment = "staging"
CONSTANTS
    Role <- MCRole
    Found <- MCFound
SYMMETRY RunSymmetry
INVARIANT RunningMeansExecuting
CHECK_DEADLOCK FALSE
