SPECIFICATION Spec
CONSTANTS
    MAX_DIRECT_ANSWER_RETRIES = 1
    MAX_TOOL_RETRIES = 2
    MAX_CHAT_RETRIES = 1
    MAX_ROUTER_RETRIES = 2
INVARIANTS
    TypeOK
    AnswersUseCurrentResults
    RunIsBounded
    CheaperRetriesFirst
    EndStatusTellsTheOutcome
    OnlyAnswersRemembered
