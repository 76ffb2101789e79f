\* The comment "3 or more attacks: we ban" against an address whose first ban
\* has expired.
CONSTANTS
    d1 = d1  s1 = s1
    None = None
    Workers = {w1}
    Ips = {i1}
    Domains = {d1}
    Sites = {s1}
    DomainOf <- OneRow
    Threshold = 3
    Window = 2
    BanTime = 3
    MaxTime = 4
    MaxRows = 6
SPECIFICATION BanSpec
CHECK_DEADLOCK FALSE
PROPERTY ThresholdBans
