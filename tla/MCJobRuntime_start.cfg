SPECIFICATION Spec
CONSTANTS
    Directions = {"receive"}
    FileSize = 1
    r1 = r1
    r2 = r2
    g1 = g1
    g2 = g2
    c1 = c1
    Runs = {r1}
    FirstRun = r1
    Lives = {g1}
    Cancels = {}
    Mail <- StartMail
    None = None
    MaxMail = 3
SYMMETRY Symmetry
INVARIANT FailedForCause
CHECK_DEADLOCK FALSE
