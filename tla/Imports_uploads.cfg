SPECIFICATION Spec
CONSTANTS
    ContextDigits = 6
    MinorMax = 99999
    Zone = 330
    Day = 1440
    r1 = r1
    r2 = r2
    r3 = r3
    march = march
    april = april
    twice = twice
    None = None
    Requests = {r1, r2, r3}
    Files = {march, april, twice}
    Declared = {"bank_statement", "ledger"}
    Keys = {"k"}
    MaxResets = 1
CONSTANTS
    Content <- MCContent
SYMMETRY RequestSymmetry
INVARIANT TypeOK
INVARIANT CompletedImportIsWhole
INVARIANT OneAnswerPerKey
PROPERTY ImplementsIntake
CHECK_DEADLOCK FALSE
