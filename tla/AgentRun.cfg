SPECIFICATION Spec
CONSTANTS
    StepIds = {1, 2, 3}
    Tools = {t1, t2}
    NO_FINDING_LIMIT = 2
    MAX_PLAN_STEPS = 2
    MAX_REACT_TURNS_PER_STEP = 3
    THINK_LIMIT = 2
    PlannerResponses <- SomePlans
INVARIANTS
    TypeOK
    StepsDoneInOrder
    PlanLength
    FreshTrace
    NoFailedToolReuse
    VisitBounded
    EvidenceForEveryStep
    LimitLeavesNoStep
PROPERTIES
    DoneStepsKept
    StepsRunOut
    ImplementsPlanExecution
    Termination
