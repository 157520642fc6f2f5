SPECIFICATION Spec
CONSTANTS
    SUBSCRIBERS = 3
    MAX_ITERATIONS = 3
    MAX_THOUGHTS = 1
INVARIANTS
    TypeOK
    EndIsAnnounced
    FileTellsTheOutcome
    FileIsNearlyComplete
    AnswersAreRemembered
