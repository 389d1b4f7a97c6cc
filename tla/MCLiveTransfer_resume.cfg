SPECIFICATION Spec
CONSTANTS
    Plans <- BrokenToAgent
    MaxPending = 1
    MaxRuns = 2
    MaxAttempts = 2
INVARIANT
    EndsAgreeOnOffset
CHECK_DEADLOCK FALSE
