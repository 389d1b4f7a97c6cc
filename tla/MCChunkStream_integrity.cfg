SPECIFICATION Spec
CONSTANTS
    x = x
    y = y
    Zero = z
    Block = {x, y, z}
    ChunkSize = 2
    FileSize = 3
    MaxAttempts = 2
    MaxCuts = 1
    MaxEdits = 1
    MaxFaults = 1
    Overlap = TRUE
    Originals <- ThreeBytes
    Rewrites <- AnyRewrites
INVARIANTS TypeOK CommittedIsSource CommittedWasPromised CompletedHasFile
PROPERTIES PromisesSource NoReplace
CHECK_DEADLOCK FALSE
