SPECIFICATION FairSpec
CONSTANTS
    x = x
    y = y
    Zero = z
    Block = {x, y, z}
    ChunkSize = 2
    FileSize = 3
    MaxAttempts = 2
    MaxCuts = 2
    MaxEdits = 1
    MaxFaults = 0
    Overlap = FALSE
    Originals <- ThreeBytes
    Rewrites <- ThreeByteRewrites
INVARIANTS RetryableMatchesPartial
PROPERTIES ResumedDelivers ReceiverReturns
CHECK_DEADLOCK FALSE
