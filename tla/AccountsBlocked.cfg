\* The claim BlockedStaysOut, with one request at a time: nothing overlaps.
CONSTANTS
    None = None
    Workers = {w1}
    Users = {u1}
SPECIFICATION Spec
INVARIANT BlockedStaysOut
