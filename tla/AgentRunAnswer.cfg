SPECIFICATION Spec
CONSTANTS
    StepIds = {1, 2, 3}
    Tools = {t1}
    NO_FINDING_LIMIT = 2
    MAX_PLAN_STEPS = 2
    MAX_REACT_TURNS_PER_STEP = 3
    THINK_LIMIT = 2
    PlannerResponses <- NumberedPlans
INVARIANTS
    AnswerIsTheStepsOwn
