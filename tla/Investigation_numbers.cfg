SPECIFICATION Spec
CONSTANTS
    ask1 = ask1
    ask2 = ask2
    Requests = {ask1, ask2}
    Exponent = 2
    FloatBits = 24
    MaxRetries = 1
    MaxResets = 1
    MaxCrashes = 1
CONSTANTS
    Digest  <- MCDigest
    CaseOf  <- MCCaseOf
    Answers <- MCAnswers
INVARIANT NumbersAreTheEngines
CHECK_DEADLOCK FALSE
