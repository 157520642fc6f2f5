---- MODULE AgentPlanner ----
(***************************************************************************)
(* The two nodes that own the plan: planner_node (nodes/planner.py), which *)
(* writes it, and select_next_step_node (nodes/select_next_step.py), which *)
(* moves the cursor over it.                                               *)
(*                                                                         *)
(* A planner response is the list of its step ids; the tasks are data.     *)
(***************************************************************************)
EXTENDS AgentState

ShouldPlan == planner_mode \in {"replan", "step_replan"} \/ plan = <<>>

(* _parse_agent_plan refuses an empty list and a list that is too long. *)
ParsedPlans == {ids \in PlannerResponses : Len(ids) \in 1 .. MAX_PLAN_STEPS}

(* _restore_plan_content: every step pending, ids kept or forced to step_<n>. *)
RestorePlanContent(ids, start_index, force_step_ids) ==
    [i \in 1 .. Len(ids) |->
        [step_id |-> IF force_step_ids \/ ids[i] = NoStep
                     THEN start_index + i - 1
                     ELSE ids[i],
         status  |-> "pending",
         result  |-> NoResult]]

(* _step_replan_start_index: the cursor, or, off the plan, the first step     *)
(* with the current id.  It raises when there is none.                        *)
IdOnPlan == \E i \in 1 .. Len(plan) : plan[i].step_id = current_step_id

(* Mistakes: the new steps go after the whole plan, or replace all of it. *)
AfterWholePlan == Len(plan)
FromFirstStep == 0

StepReplanStartIndex ==
    IF current_step_index < Len(plan)
    THEN current_step_index
    ELSE (CHOOSE i \in 1 .. Len(plan) :
            /\ plan[i].step_id = current_step_id
            /\ \A j \in 1 .. (i - 1) : plan[j].step_id # current_step_id) - 1

CursorUsable ==
    planner_mode = "step_replan" => current_step_index < Len(plan) \/ IdOnPlan

(* _planned_steps_for_mode: a step replan keeps what is before the cursor. *)
PlannedSteps(ids) ==
    IF planner_mode = "step_replan"
    THEN SubSeq(plan, 1, StepReplanStartIndex)
         \o RestorePlanContent(ids, StepReplanStartIndex + 1, TRUE)
    ELSE RestorePlanContent(ids, 1, FALSE)

(* The planner answered and the answer parsed. *)
PlannerNode ==
    /\ pc = "head"
    /\ iteration < MAX_AGENT_NODE_ITERATIONS
    /\ ShouldPlan
    /\ CursorUsable
    /\ \E ids \in ParsedPlans :
         LET planned == PlannedSteps(ids)
         IN  /\ plan' = planned
             /\ IF planner_mode = "initial"
                THEN UNCHANGED cursor_vars
                ELSE LET start == IF planner_mode = "replan" THEN 0 ELSE StepReplanStartIndex
                     IN  /\ current_step_index' = start
                         /\ current_step_id' = planned[start + 1].step_id
    /\ plan_revision' = plan_revision + 1
    /\ planner_mode' = "initial"
    /\ saved' = [saved EXCEPT !.react_results = {},
                              !.no_finding_counts =
                                  IF planner_mode = "initial" THEN @ ELSE NoCounts]
    /\ iteration' = iteration + 1
    /\ UNCHANGED <<pc, error, budget_vars, loop_vars, history_vars>>

(* The call failed, or its answer is not a plan of 1..MAX_PLAN_STEPS steps:  *)
(* _planner_failed, and the runner raises.                                   *)
PlannerFailed ==
    /\ pc = "head"
    /\ iteration < MAX_AGENT_NODE_ITERATIONS
    /\ ShouldPlan
    /\ pc' = "failed"
    /\ error' = "planner"
    /\ iteration' = iteration + 1
    /\ UNCHANGED <<planner_vars, cursor_vars, budget_vars, saved, loop_vars, history_vars>>

Pending(i) == plan[i].status = "pending"

(* Mistake: any pending step will do. *)
SelectAnyStep ==
    /\ pc = "head"
    /\ iteration < MAX_AGENT_NODE_ITERATIONS
    /\ ~ShouldPlan
    /\ \E i \in 1 .. Len(plan) :
         /\ Pending(i)
         /\ current_step_index' = i - 1
         /\ current_step_id' = plan[i].step_id
    /\ pc' = "enter"
    /\ iteration' = iteration + 1
    /\ UNCHANGED <<error, planner_vars, budget_vars, saved, loop_vars, history_vars>>

(* select_next_step_node found the first pending step: the loop node is next. *)
SelectNextStep ==
    /\ pc = "head"
    /\ iteration < MAX_AGENT_NODE_ITERATIONS
    /\ ~ShouldPlan
    /\ \E i \in 1 .. Len(plan) :
         /\ Pending(i)
         /\ \A j \in 1 .. (i - 1) : ~Pending(j)
         /\ current_step_index' = i - 1
         /\ current_step_id' = plan[i].step_id
    /\ pc' = "enter"
    /\ iteration' = iteration + 1
    /\ UNCHANGED <<error, planner_vars, budget_vars, saved, loop_vars, history_vars>>

(* Mistake: the last step is taken for done because the cursor is on it. *)
FinishOnLastStep ==
    /\ pc = "head"
    /\ iteration < MAX_AGENT_NODE_ITERATIONS
    /\ ~ShouldPlan
    /\ current_step_index + 1 = Len(plan)
    /\ current_step_index' = Len(plan)
    /\ current_step_id' = NoStep
    /\ pc' = "summarize"
    /\ iteration' = iteration + 1
    /\ UNCHANGED <<error, planner_vars, budget_vars, saved, loop_vars, history_vars>>

(* It found none, should_continue_next is "finish": the answer is summarised. *)
SelectFinish ==
    /\ pc = "head"
    /\ iteration < MAX_AGENT_NODE_ITERATIONS
    /\ ~ShouldPlan
    /\ \A i \in 1 .. Len(plan) : ~Pending(i)
    /\ current_step_index' = Len(plan)
    /\ current_step_id' = NoStep
    /\ pc' = "summarize"
    /\ iteration' = iteration + 1
    /\ UNCHANGED <<error, planner_vars, budget_vars, saved, loop_vars, history_vars>>
====
