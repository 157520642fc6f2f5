---- MODULE AgentRunProperties ----
(***************************************************************************)
(* What an agent run promises.  The runs of MCAgentRun check these on small *)
(* instances; AgentRunProofs proves them for all constants, of termination  *)
(* all but that the run goes on while it can.                               *)
(***************************************************************************)
EXTENDS AgentRun

TypeOK ==
    /\ pc \in ControlStates
    /\ iteration \in 0 .. MAX_AGENT_NODE_ITERATIONS
    /\ error \in Errors
    /\ plan \in Seq(PlanSteps)
    /\ plan_revision \in Nat
    /\ planner_mode \in {"initial", "replan", "step_replan"}
    /\ current_step_index \in Nat
    /\ current_step_id \in StepIds \cup {NoStep}
    /\ replan_count \in 0 .. MAX_REPLAN_COUNT
    /\ step_replan_count \in 0 .. MAX_STEP_REPLAN_COUNT
    /\ saved \in Memories
    /\ memory \in Memories
    /\ turn_index \in 0 .. MAX_REACT_TURNS_PER_STEP
    /\ consecutive_think_count \in 0 .. (THINK_LIMIT - 1)
    /\ callers \in Seq(Memories)
    /\ update \in Updates
    /\ decisions \in 0 .. DECISION_CAP
    /\ tool_history \in [Tools -> {"clean", "raised", "reused"}]

InVisit == pc \in {"enter", "loop", "return"}

(* Steps are done strictly from the front of the plan, over every replan and *)
(* partial replan, and while a step is being worked on the cursor and the id *)
(* name the first one that is not done: _current_step never refuses.         *)
StepsDoneInOrder ==
    /\ \A i, j \in 1 .. Len(plan) : i < j /\ plan[j].status = "done" => plan[i].status = "done"
    /\ InVisit => /\ CursorMatchesPlan
                  /\ plan[current_step_index + 1].status = "pending"
                  /\ \A i \in 1 .. current_step_index : plan[i].status = "done"
    /\ error # "cursor"

(* A plan never outgrows MAX_PLAN_STEPS until the one step replan, which may *)
(* keep all but the last of its steps and append as many again.              *)
PlanLength ==
    /\ Len(plan) <= 2 * MAX_PLAN_STEPS - 1
    /\ step_replan_count = 0 \/ planner_mode = "step_replan" => Len(plan) <= MAX_PLAN_STEPS

(* The loop results shown to the model in a step, and those a partial replan *)
(* is asked for with, were obtained in that step of that plan and since its  *)
(* last restart: no trace of a finished step, of a replaced plan or of the   *)
(* turns a restart threw away is ever taken for the current one's, in the    *)
(* loop or in the subagent that works on a copy of its trace.                *)
FreshTrace ==
    /\ pc = "loop" \/ (pc = "return" /\ update.kind # "failed") =>
         memory.react_results \subseteq {Round(memory)}
    /\ \A i \in 1 .. Len(callers) : callers[i].react_results \subseteq {Round(callers[i])}
    /\ pc = "enter" => saved.react_results = {}

(* A tool that failed once, with an error to show for it, is not executed    *)
(* again in the run: not by a later turn, the subagent, a later step or      *)
(* after a replan.                                                           *)
NoFailedToolReuse == \A tool \in Tools : tool_history[tool] # "reused"

(* Subagents do not nest, though the loop that starts one is the loop it     *)
(* runs: agent_depth counts the suspended callers.                           *)
NoNestedSubagent ==
    /\ Len(callers) <= 1
    /\ pc \in {"loop", "return"} => memory.agent_depth = Len(callers)

(* One visit of a step takes at most three times the advertised number of    *)
(* decisions: a full round, one round after the restart and one in the       *)
(* subagent, wherever the restart falls.                                     *)
DecisionBound == decisions <= 3 * MAX_REACT_TURNS_PER_STEP

(* A visit of a step is bounded in depth and in length (agent_loop_node and  *)
(* the subagent it calls itself as).                                         *)
VisitBounded == NoNestedSubagent /\ DecisionBound

(* Every answer that is announced or cited has its evidence: a step is done  *)
(* with a result that step_results, the only evidence that replanning and    *)
(* FINAL_RESULT_SUMMARY_PROMPT let the model use, holds under the step's id; *)
(* so agent.step.finished, which looks a step up by its id, tells an answer  *)
(* recorded under that id even when it is repeated.  A run that summarises   *)
(* has done every step.                                                      *)
EvidenceForEveryStep ==
    /\ \A i \in 1 .. Len(plan) :
         plan[i].status = "done" =>
             \E k \in 1 .. Len(saved.step_results) :
                 saved.step_results[k] = [step_id |-> plan[i].step_id,
                                          result  |-> plan[i].result]
    /\ pc \in {"summarize", "finished"} =>
         \A i \in 1 .. Len(plan) : plan[i].status = "done"

(* The iteration limit stops no run that has a step left to do: it is        *)
(* reached only with every step done and both replans spent.                 *)
LimitLeavesNoStep ==
    error = "iteration_limit" =>
        /\ ~ShouldPlan
        /\ \A i \in 1 .. Len(plan) : plan[i].status = "done"
        /\ replan_count = MAX_REPLAN_COUNT
        /\ step_replan_count = MAX_STEP_REPLAN_COUNT

(* A plan revision never loses finished work except by a full replan, and a  *)
(* step that is done stays done with the result it has.                      *)
KeepsDoneSteps ==
    planner_mode # "replan" =>
        \A i \in 1 .. Len(plan) :
            plan[i].status = "done" => i <= Len(plan') /\ plan'[i] = plan[i]

DoneStepsKept == [][KeepsDoneSteps]_vars

(* How far PlanExecution has come in a state of the run. *)
Phase ==
    CASE pc = "finished" -> "answered"
      [] pc = "failed"   -> "failed"
      [] OTHER           -> IF ShouldPlan THEN "planning" ELSE "working"

CompletedSteps == {i \in 1 .. Len(plan) : plan[i].status = "done"}

ReplansSpent ==
    (IF replan_count = 0 THEN {} ELSE {"replan"})
        \cup (IF step_replan_count = 0 THEN {} ELSE {"step_replan"})

PE == INSTANCE PlanExecution WITH
    phase     <- Phase,
    mode      <- planner_mode,
    size      <- Len(plan),
    completed <- CompletedSteps,
    replans   <- ReplansSpent

(* The run is an execution of PlanExecution: whatever the model, the tools   *)
(* and the subagents answer, the plan is worked off from the front, replaced *)
(* and truncated at most once each, and answered only when it is worked off. *)
ImplementsPlanExecution == PE!Spec

(* What a visit of a step may take: its decisions, and four steps to enter   *)
(* it, to give up, to come back from a subagent and to merge the update.     *)
VisitSteps == 3 * MAX_REACT_TURNS_PER_STEP + 5

StepsLeft ==
    (MAX_AGENT_NODE_ITERATIONS - iteration) * VisitSteps
      + CASE pc = "enter"               -> VisitSteps
          [] pc = "loop"                -> VisitSteps - 1 - decisions
          [] pc = "return"              -> 2 + Len(callers)
          [] pc \in {"head", "summarize"} -> 1
          [] pc \in {"finished", "failed"} -> 0

(* A run takes boundedly many steps: whatever the model, the planner, the    *)
(* tools and the subagents answer, each step uses up one that was left, over *)
(* every restart, subagent and replan.                                       *)
StepsRunOut == [][0 <= StepsLeft' /\ StepsLeft' < StepsLeft]_vars

(* Every run ends. *)
Termination == <>(pc \in {"finished", "failed"})

----
(* What the repository says and the code does not do: each of these has a run *)
(* that violates it.                                                          *)

(* FINAL_RESULT_SUMMARY_PROMPT: the final answer is generated "after all     *)
(* required plan steps have passed".  A run whose steps have all passed is   *)
(* therefore not cut off by the iteration limit.                             *)
LimitSparesCompletedPlans ==
    error = "iteration_limit" => \E i \in 1 .. Len(plan) : plan[i].status # "done"

(* _handle_signal fails a step that "triggered overthink more than once in   *)
(* the same plan step": more than once since the step was entered.           *)
OverthinkCountedPerPlanStep ==
    pc = "return" /\ update.error = "overthink" =>
        memory.overthink_counts[current_step_id]
            >= saved.overthink_counts[current_step_id] + 2

(* _subagent_answer raises when the subagent "returned no usable result": a  *)
(* step is done with an answer found for it, not one of an earlier step.     *)
AnswerIsTheStepsOwn ==
    pc = "return" /\ ~InSubagent /\ update.kind = "done" => update.result = Owner
====
