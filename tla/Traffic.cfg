\* Two handlers and a flush over two domains, of which one has two rows.
CONSTANTS
    d1 = d1  d2 = d2
    s1 = s1  s2 = s2  s3 = s3
    None = None
    Workers = {w1, w2}
    Domains = {d1, d2}
    Sites = {s1, s2, s3}
    DomainOf <- ThreeSites
    Limits <- ThreeLimits
    Sizes = {1}
    MaxBytes = 1
SPECIFICATION FairSpec
INVARIANTS TypeOK AtMostOnce NothingLost BypassEarned
PROPERTIES HandlersServed CacheDrains ImplementsMeter
