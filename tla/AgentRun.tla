---- MODULE AgentRun ----
(***************************************************************************)
(* A whole agent run: the for loop of AgentRuner._run_agent                *)
(* (src/core/llm/Agent/AgentRuner.py), which agent_node of langgraph.py    *)
(* repeats, around the planner, the step selection and the agent loop.     *)
(***************************************************************************)
EXTENDS AgentLoop

(* _merge_agent_state(state, update), then _raise_if_failed.  The node's     *)
(* locals are gone.                                                          *)
NodeReturned ==
    /\ pc = "return"
    /\ ~InSubagent
    /\ update' = NoUpdate
    /\ memory' = InitialMemory
    /\ turn_index' = 0
    /\ consecutive_think_count' = 0
    /\ decisions' = 0
    /\ UNCHANGED <<callers, iteration, plan_revision, cursor_vars, tool_history>>

MergeStepDone ==
    /\ NodeReturned
    /\ update.kind = "done"
    /\ plan' = [plan EXCEPT ![current_step_index + 1] =
                  [@ EXCEPT !.status = "done", !.result = update.result]]
    /\ saved' = memory
    /\ pc' = "head"
    /\ UNCHANGED <<error, planner_mode, budget_vars>>

MergeReplan ==
    /\ NodeReturned
    /\ update.kind = "replan"
    /\ planner_mode' = "replan"
    /\ replan_count' = replan_count + 1
    /\ saved' = memory
    /\ pc' = "head"
    /\ UNCHANGED <<error, plan, step_replan_count>>

MergeStepReplan ==
    /\ NodeReturned
    /\ update.kind = "step_replan"
    /\ planner_mode' = "step_replan"
    /\ step_replan_count' = step_replan_count + 1
    /\ saved' = memory
    /\ pc' = "head"
    /\ UNCHANGED <<error, plan, replan_count>>

MergeFailed ==
    /\ NodeReturned
    /\ update.kind = "failed"
    /\ saved' = FailedFields(saved, memory)
    /\ error' = update.error
    /\ pc' = "failed"
    /\ UNCHANGED <<plan, planner_mode, budget_vars>>

(* The for loop ran out: "agent exceeded graph iteration limit". *)
IterationLimit ==
    /\ pc = "head"
    /\ iteration = MAX_AGENT_NODE_ITERATIONS
    /\ pc' = "failed"
    /\ error' = "iteration_limit"
    /\ UNCHANGED <<iteration, planner_vars, cursor_vars, budget_vars, saved,
                   loop_vars, history_vars>>

(* _summarize_agent_answer falls back on the raw content, and raises only if *)
(* the model call does.                                                      *)
Summarize ==
    /\ pc = "summarize"
    /\ pc' = "finished"
    /\ UNCHANGED <<runner_vars, planner_vars, cursor_vars, budget_vars, saved,
                   loop_vars, history_vars>>

SummarizeRaises ==
    /\ pc = "summarize"
    /\ pc' = "failed"
    /\ error' = "summary"
    /\ UNCHANGED <<iteration, planner_vars, cursor_vars, budget_vars, saved,
                   loop_vars, history_vars>>

(* bus.publish calls the handlers around every node: one that raises ends    *)
(* the run where it is.                                                      *)
HandlerRaises ==
    /\ \/ pc = "head" /\ iteration < MAX_AGENT_NODE_ITERATIONS
       \/ pc \in {"enter", "summarize"}
       \/ pc = "return" /\ ~InSubagent
    /\ pc' = "failed"
    /\ error' = "handler"
    /\ UNCHANGED <<iteration, planner_vars, cursor_vars, budget_vars, saved,
                   loop_vars, history_vars>>

(* The run is over and run() has returned or raised. *)
Over ==
    /\ pc \in {"finished", "failed"}
    /\ UNCHANGED vars

Next ==
    \/ PlannerNode
    \/ PlannerFailed
    \/ SelectNextStep
    \/ SelectFinish
    \/ AgentLoopNode
    \/ LoopTurn
    \/ MergeStepDone
    \/ MergeReplan
    \/ MergeStepReplan
    \/ MergeFailed
    \/ IterationLimit
    \/ Summarize
    \/ SummarizeRaises
    \/ HandlerRaises
    \/ Over

(* One thread runs the loop and every model call has a timeout, so a run     *)
(* that can take a step takes one.                                           *)
Spec == Init /\ [][Next]_vars /\ WF_vars(Next)
====
