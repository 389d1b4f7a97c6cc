SPECIFICATION FairSpec
CONSTANTS
    Plans <- AllPlans
    MaxPending = 1
    MaxRuns = 2
    MaxAttempts = 2
INVARIANTS
    TypeOK
    DeliversSource
    NoCandidateLost
PROPERTIES
    UndisturbedDelivers
    CutEndsAttempt
CHECK_DEADLOCK FALSE
