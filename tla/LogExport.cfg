\* Two exports in two seconds, by a user and an administrator, of two rows.
CONSTANTS
    None = None
    Users = {u1, a}
    Admins = {a}
    Tasks = {t1, t2}
    MaxRows = 2
    MaxTime = 1
SPECIFICATION FairSpec
CHECK_DEADLOCK FALSE
INVARIANTS TypeOK ExportKept ExportPrivate
PROPERTIES ExportsEnd
