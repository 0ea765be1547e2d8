SPECIFICATION FairSpec
CONSTANTS
    r1 = r1
    r2 = r2
    c1 = c1
    c2 = c2
    rita = rita
    chitra = chitra
    None = None
    RunIds = {r1, r2}
    Cases = {c1, c2}
    Users = {chitra}
    Starters = {chitra}
    Requested = {"overridden"}
    FaultPoints = {"create", "audit_start", "load", "commit", "complete", "audit_end"}
    MaxFaults = 1
    MaxData = 2
    MaxCrashes = 0
    MaxResets = 1
    Environment = "staging"
CONSTANTS
    Role <- MCRole
    Found <- MCFoundAnew
INVARIANT CompletedRunIsWhole
PROPERTY AcceptedRunsEnd
CHECK_DEADLOCK FALSE
