SPECIFICATION Spec
CONSTANTS
    t1 = t1
    t2 = t2
    Transfers = {t1, t2}
    Names <- MCNames
    UserPaths <- MCUserPaths
    Numbers <- MCNumbers
    Nobody = Nobody
    MaxEvents = 2
SYMMETRY Symmetry
INVARIANTS TypeOK DistinctDestinations MetadataTellsOrigin PartialsAreOwn
PROPERTIES KeepsFinishedFiles
CHECK_DEADLOCK FALSE
