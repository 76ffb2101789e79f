\* Two requests at a time on three tokens and two addresses.
CONSTANTS
    None = None
    Workers = {w1, w2}
    Tokens = {t1, t2, t3}
    IPs = {a, b}
SPECIFICATION Spec
SYMMETRY Symmetry
CONSTRAINT Bounds
INVARIANTS TypeOK AnswersHold FewTokens
PROPERTY RevokedStaysOut
