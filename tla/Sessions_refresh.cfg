SPECIFICATION FairSpec
CONSTANTS
    c1 = c1
    c2 = c2
    Calls = {c1, c2}
    MaxTokens = 3
    MaxFaults = 1
INVARIANT TypeOK
INVARIANT ExchangedOnce
INVARIANT EndedFamilyIsDead
PROPERTY QuietSessionSurvives
PROPERTY OverIsDropped
CHECK_DEADLOCK FALSE
