---- MODULE PlanExecution ----
(***************************************************************************)
(* What running a goal through the agent promises its caller, without the  *)
(* runner, the cursor, the memory or the turns: a plan is worked off step  *)
(* by step from the front, is replaced at most once, has its tail replaced *)
(* at most once, and is answered only when it has been worked off.         *)
(***************************************************************************)
EXTENDS Naturals

CONSTANT MAX_PLAN_STEPS

VARIABLES
    phase,      \* "planning", "working", "answered" or "failed"
    mode,       \* the planner_mode of the plan being made
    size,       \* how many steps the plan has
    completed,  \* the positions that are done
    replans     \* which of the two replans have been spent

vars == <<phase, mode, size, completed, replans>>

Init ==
    /\ phase = "planning"
    /\ mode = "initial"
    /\ size = 0
    /\ completed = {}
    /\ replans = {}

(* A step replan keeps what is completed, any other plan starts from nothing. *)
MakePlan ==
    /\ phase = "planning"
    /\ \E kept \in 0 .. size, fresh \in 1 .. MAX_PLAN_STEPS :
         /\ 1 .. kept = IF mode = "step_replan" THEN completed ELSE {}
         /\ completed' = 1 .. kept
         /\ size' = kept + fresh
    /\ phase' = "working"
    /\ mode' = "initial"
    /\ UNCHANGED replans

CompleteStep ==
    /\ phase = "working"
    /\ \E i \in 1 .. size :
         /\ completed = 1 .. (i - 1)
         /\ completed' = 1 .. i
    /\ UNCHANGED <<phase, mode, size, replans>>

AskReplan ==
    /\ phase = "working"
    /\ completed # 1 .. size
    /\ mode' \in {"replan", "step_replan"} \ replans
    /\ replans' = replans \cup {mode'}
    /\ phase' = "planning"
    /\ UNCHANGED <<size, completed>>

Answer ==
    /\ phase = "working"
    /\ completed = 1 .. size
    /\ phase' = "answered"
    /\ UNCHANGED <<mode, size, completed, replans>>

GiveUp ==
    /\ phase \in {"planning", "working"}
    /\ phase' = "failed"
    /\ UNCHANGED <<mode, size, completed, replans>>

Next == MakePlan \/ CompleteStep \/ AskReplan \/ Answer \/ GiveUp

Spec == Init /\ [][Next]_vars
====
