SPECIFICATION Spec
CONSTANTS
    Plans <- EmptyToPage
    MaxPending = 1
    MaxRuns = 1
    MaxAttempts = 2
INVARIANT
    EmptyReachesBrowser
CHECK_DEADLOCK FALSE
