\* Two requests at a time and one open form, on a message and a rule; a rule has
\* every operation that a site has.
CONSTANTS
    r1 = r1  m1 = m1
    None = None  Gone = Gone
    Workers = {w1, w2}
    Browsers = {b1}
    Ids = {r1, m1}
    KindOf <- Kinds
    Keys = {k1, k2}
SPECIFICATION Spec
SYMMETRY Symmetry
INVARIANT TypeOK
PROPERTY ImplementsRegister
