\* Two requests at a time, four sessions of one account, two new passwords.
CONSTANTS
    None = None
    Workers = {w1, w2}
    Users = {u1}
    Keys = {k1, k2, k3, k4}
    MaxPasswords = 2
SPECIFICATION Spec
SYMMETRY Symmetry
INVARIANTS TypeOK OutStaysOut OthersWork ScannedIsChecked
