SPECIFICATION Spec
CONSTANTS
    Pings = {p1, p2}
    Shutdowns = {s1, s2}
    Nobody = Nobody
    MAX_POLLS = 1
INVARIANTS
    TypeOK
    PingFailureExplained
PROPERTIES
    NotRunningExplained
    ShutdownsComplete
