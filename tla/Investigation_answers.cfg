SPECIFICATION FairSpec
CONSTANTS
    ask1 = ask1
    ask2 = ask2
    Requests = {ask1, ask2}
    Exponent = 2
    FloatBits = 24
    MaxRetries = 1
    MaxResets = 1
    MaxCrashes = 1
CONSTANTS
    Digest  <- MCDigest
    CaseOf  <- MCCaseOf
    Answers <- MCAnswers
INVARIANT TypeOK
INVARIANT KeptAnswerIsGrounded
INVARIANT GivesUpInTime
INVARIANT ShownWasRecorded
INVARIANT NamesStayApart
PROPERTY LoopEnds
CHECK_DEADLOCK FALSE
