\* Two threads, one rule that compiles and one that does not, calls of up to two
\* instants, the limits of anomalies.py.
CONSTANTS
    Workers = {w1, w2}
    u1 = u1
    u2 = u2
    Rules = {u1, u2}
    Valid = {u1}
    TTL = 1
    MaxTime = 5
    ActionOf <- LogOnly
    Requests <- SomeRequests
    MAX_PARAM_LENGTH = 250
    MAX_HEADER_LENGTH = 1024
    MIN_LEN_FOR_RATIO = 20
    SPECIAL_CHAR_RATIO = 35
SPECIFICATION Spec
SYMMETRY Symmetry
CONSTRAINT AlwaysOn
INVARIANT TypeOK
PROPERTIES UpToDate SafeIsClean AlarmHasCause
