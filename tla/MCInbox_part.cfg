SPECIFICATION Spec
CONSTANTS
    t1 = t1
    t2 = t2
    Transfers = {t1, t2}
    Names <- MCNames
    UserPaths <- MCUserPaths
    Numbers <- MCNumbers
    Nobody = Nobody
    MaxEvents = 0
SYMMETRY Symmetry
PROPERTY DefendsAgainstCollisions
CHECK_DEADLOCK FALSE
