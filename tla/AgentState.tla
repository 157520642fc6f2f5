---- MODULE AgentState ----
(***************************************************************************)
(* The state of an agent run: the dictionary AgentState of                 *)
(* src/core/llm/Agent/state.py, the locals of the runner's for loop        *)
(* (AgentRuner.py and agent_node of langgraph.py, which run the same three *)
(* nodes) and the locals of agent_loop_node.                               *)
(***************************************************************************)
EXTENDS OneRunMemory

CONSTANTS
    MAX_PLAN_STEPS,             \* 8
    MAX_REACT_TURNS_PER_STEP,   \* 7
    THINK_LIMIT,                \* the literal 3 of agent_loop_node
    PlannerResponses            \* the step-id lists the planner model may return

MAX_REPLAN_COUNT == 1
MAX_STEP_REPLAN_COUNT == 1

(* Mistake: step replans are not provided for. *)
IterationsForReplansOnly == MAX_PLAN_STEPS * (1 + MAX_REPLAN_COUNT) + 2

MAX_AGENT_NODE_ITERATIONS ==
    MAX_PLAN_STEPS * (1 + MAX_REPLAN_COUNT + MAX_STEP_REPLAN_COUNT) + 3

(* The empty string: no current step, or a planned step without an id. *)
NoStep == 0

ASSUME LimitsAssumption ==
    /\ MAX_PLAN_STEPS \in Nat \ {0}
    /\ MAX_REACT_TURNS_PER_STEP \in Nat \ {0}
    /\ NO_FINDING_LIMIT \in Nat \ {0}
    /\ THINK_LIMIT \in Nat \ {0}

(* step_<n> for every position a plan can reach: a step replan keeps at    *)
(* most MAX_PLAN_STEPS - 1 steps and appends at most MAX_PLAN_STEPS.       *)
ASSUME StepIdsAssumption ==
    /\ StepIds \subseteq Nat \ {NoStep}
    /\ 1 .. (2 * MAX_PLAN_STEPS - 1) \subseteq StepIds

(* The model's answers that parse as a list of steps, of any length. *)
ASSUME ResponsesAssumption ==
    PlannerResponses \subseteq Seq(StepIds \cup {NoStep})

VARIABLES
    pc,                       \* where the runner, or the node it called, is
    iteration,                \* for loop iterations begun
    error,                    \* why the run failed
    plan,                     \* <<>> while agent_state has no "plan"
    plan_revision,
    planner_mode,
    current_step_index,       \* 0-based, as in the code
    current_step_id,
    replan_count,
    step_replan_count,
    saved,                    \* the OneRunMemory fields held in agent_state
    memory,                   \* agent_loop_node's OneRunMemory
    turn_index,
    consecutive_think_count,
    callers,                  \* the memories of the agent loops suspended in a subagent
    update,                   \* what agent_loop_node returns
    decisions,                \* history: model decisions taken in this visit of a step
    tool_history              \* history: what this run knows of each tool

runner_vars  == <<iteration, error>>
planner_vars == <<plan, plan_revision, planner_mode>>
cursor_vars  == <<current_step_index, current_step_id>>
budget_vars  == <<replan_count, step_replan_count>>
loop_vars    == <<memory, turn_index, consecutive_think_count, callers, update>>
history_vars == <<decisions, tool_history>>

vars == <<pc, runner_vars, planner_vars, cursor_vars, budget_vars, saved,
          loop_vars, history_vars>>

(* A step that has not run has no result. *)
NoResult == <<>>

PlanSteps ==
    [step_id : StepIds, status : {"pending", "done"}, result : Owners \cup {NoResult}]

Errors ==
    {"none", "planner", "cursor", "raised", "turns", "overthink", "replan_twice",
     "step_replan_twice", "subagent_tool_error", "subagent_failed",
     "no_usable_result", "iteration_limit", "summary", "handler"}

Updates ==
    [kind   : {"none", "done", "replan", "step_replan", "failed"},
     result : Owners \cup {NoResult},
     error  : Errors]

NoUpdate == [kind |-> "none", result |-> NoResult, error |-> "none"]

ControlStates ==
    {"head", "enter", "loop", "return", "summarize", "finished", "failed"}

(* The plan step being worked on, which owns what is produced meanwhile. *)
Owner == <<plan_revision, current_step_index>>

(* What is recorded while a memory counts so many restarts of that step. *)
Round(m) ==
    <<plan_revision, current_step_index, m.overthink_counts[current_step_id]>>

Init ==
    /\ pc = "head"
    /\ iteration = 0
    /\ error = "none"
    /\ plan = <<>>
    /\ plan_revision = 0
    /\ planner_mode = "initial"
    /\ current_step_index = 0
    /\ current_step_id = NoStep
    /\ replan_count = 0
    /\ step_replan_count = 0
    /\ saved = InitialMemory
    /\ memory = InitialMemory
    /\ turn_index = 0
    /\ consecutive_think_count = 0
    /\ callers = <<>>
    /\ update = NoUpdate
    /\ decisions = 0
    /\ tool_history = [tool \in Tools |-> "clean"]
====
