SPECIFICATION Spec
CONSTANTS
    t1 = t1
    t2 = t2
    c1 = c1
    c2 = c2
    Transfers = {t1, t2}
    Callers = {c1, c2}
    None = None
    TTLs = {1}
    TicketTTL = 2
    MaxTime = 1
    MaxTickets = 2
SYMMETRY Symmetry
INVARIANTS TypeOK TicketWithinTransfer AdmittedWithTicket CountsDownloads StampsTellStatus
PROPERTIES ReplacedStaysReplaced NoTicketForDead DeadStaysDead FollowsLifecycle
CHECK_DEADLOCK FALSE
