SPECIFICATION Spec
CONSTANTS
    AutoResolveMax = 25
    Tolerance = 1
    WindowDays = 3
    MinConfidence = 9500
    CandidateMargin = 500
    Payouts = {1, 2, 3}
    Money = {31, 32}
CONSTANTS
    NeverAutoResolve <- MCBlockList
    Truncations <- MCTruncations
    Books <- Orders
INVARIANT GroupsShareNothing
CHECK_DEADLOCK FALSE
