\* Two handlers over two rows of one domain, with attacks, bans and a protection switch.
CONSTANTS
    d1 = d1  s1 = s1  s2 = s2
    None = None
    Workers = {w1, w2}
    Ips = {i1}
    Domains = {d1}
    Sites = {s1, s2}
    DomainOf <- OneDomain
    Threshold = 1
    Window = 1
    BanTime = 1
    MaxTime = 1
    MaxRows = 2
    Verdicts = {"safe", "block"}
SPECIFICATION Spec
SYMMETRY Symmetry
CHECK_DEADLOCK FALSE
INVARIANTS TypeOK Shield AuditTrail
