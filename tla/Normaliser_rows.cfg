SPECIFICATION Spec
CONSTANTS
    ContextDigits = 9
    MinorMax = 99999999
    Zone = 330
    Day = 1440
CONSTANTS
    Jobs <- MCJobs
INVARIANT AcceptedExactlyWhenSound
INVARIANT NothingIsCoerced
INVARIANT BusinessDateIsLocal
INVARIANT AllocationIsExact
INVARIANT WrittenAmountsReadBack
CHECK_DEADLOCK FALSE
