SPECIFICATION Spec
CONSTANTS
    r1 = r1
    r2 = r2
    c1 = c1
    c2 = c2
    rita = rita
    chitra = chitra
    None = None
    RunIds = {r1, r2}
    Cases = {c1}
    Users = {rita, chitra}
    Starters = {chitra}
    Requested = {"approved"}
    FaultPoints = {"set_running", "complete", "fail", "decision", "audit_decision"}
    MaxFaults = 1
    MaxData = 2
    MaxCrashes = 1
    MaxResets = 1
    Environment = "staging"
CONSTANTS
    Role <- MCRole
    Found <- MCFound
SYMMETRY RunSymmetry
INVARIANT TypeOK
INVARIANT CompletedRunIsWhole
INVARIANT RowsComeFromTheirRun
INVARIANT ResolvedRowsAreAudited
INVARIANT ServedIsCommitted
PROPERTY SettledVerdictStands
PROPERTY DeletedRunStaysDeleted
CHECK_DEADLOCK FALSE
