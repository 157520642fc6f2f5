SPECIFICATION Spec
CONSTANTS
    Pings = {p1, p2}
    Shutdowns = {s1}
    Nobody = Nobody
    MAX_POLLS = 2
PROPERTIES
    FirstPingsSucceed
