\* Three threads race five attacks of one address, two of them enough for a ban,
\* across a window and the life of a ban.
CONSTANTS
    d1 = d1  s1 = s1
    None = None
    Workers = {w1, w2, w3}
    Ips = {i1}
    Domains = {d1}
    Sites = {s1}
    DomainOf <- OneRow
    Threshold = 2
    Window = 1
    BanTime = 2
    MaxTime = 2
    MaxRows = 5
SPECIFICATION FairBanSpec
CHECK_DEADLOCK FALSE
INVARIANTS BanTypeOK NoMissedBan BanJustified FewAttacks
PROPERTIES ImplementsPolicy StrikesLeadToBan
