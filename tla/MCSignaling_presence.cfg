SPECIFICATION Spec
CONSTANTS
    a = a
    b = b
    r = r
    d = d
    t1 = t1
    t2 = t2
    c1 = c1
    c2 = c2
    c3 = c3
    c4 = c4
    Conns = {c2, c3}
    Agents = {a, b}
    Devices = {d}
    Transfers = {t1}
    AlwaysOn = AlwaysOn
    None = None
    MaxRouting = 1
    Identity <- IdentityValue
    Parties <- PartiesValue
INVARIANTS PresenceTellsTruth
CHECK_DEADLOCK FALSE
