SPECIFICATION Spec
CONSTANTS
    r1 = r1
    r2 = r2
    Processes = {p1, p2}
    Records = {r1, r2, r3}
    Long = {r1}
    AnswerAt <- AnswerAtCases
    Split <- SplitCases
    MAX_CUTS = 2
SYMMETRY Symmetry
INVARIANTS
    TypeOK
    DamageBounded
PROPERTIES
    ImplementsRecordLog
