\* A request over the traffic limit.
CONSTANTS
    d1 = d1  s1 = s1  s2 = s2
    None = None
    Workers = {w1}
    Ips = {i1}
    Domains = {d1}
    Sites = {s1, s2}
    DomainOf <- OneDomain
    Threshold = 1
    Window = 1
    BanTime = 1
    MaxTime = 0
    MaxRows = 1
    Verdicts = {"safe"}
SPECIFICATION Spec
CHECK_DEADLOCK FALSE
INVARIANT BypassLogged
