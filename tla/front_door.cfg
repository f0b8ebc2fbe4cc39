SPECIFICATION Spec
CONSTANTS
    Source = {a1, a2}
    Handler = {h1, h2}
    State = {n1, n2}
    Token = {k1, k2}
    Nobody = Nobody
    Threshold = 2
    Window = 2
    Lockout = 2
    MaxSources = 1
    StateTtl = 1
    SessionTtl = 2
    MaxRecords = 2
    MaxTime = 3
    MaxRequests = 5
SYMMETRY Alike
INVARIANTS
    RefusedForCause
    GuessesBounded
    NoRecordLost
\* Requests come to an end.
CHECK_DEADLOCK FALSE
