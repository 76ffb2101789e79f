\* One account and three requests at a time: all that can overlap on a row.
CONSTANTS
    None = None
    Workers = {w1, w2, w3}
    Users = {u1}
SPECIFICATION Spec
SYMMETRY Symmetry
INVARIANTS TypeOK ActivationEarned BlockHolds NotLockedOut
