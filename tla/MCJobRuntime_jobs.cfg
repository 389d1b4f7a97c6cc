SPECIFICATION Spec
CONSTANTS
    Directions = {"send", "receive"}
    FileSize = 1
    r1 = r1
    r2 = r2
    g1 = g1
    g2 = g2
    c1 = c1
    Runs = {r1, r2}
    FirstRun = r1
    Lives = {g1, g2}
    Cancels = {c1}
    Mail <- AllMail
    None = None
    MaxMail = 4
SYMMETRY Symmetry
INVARIANTS TypeOK InterruptedIsBrief RunsBlameFairly CompletedWasReported CompletedHasCommit
PROPERTY FollowsLifecycle
CHECK_DEADLOCK FALSE
