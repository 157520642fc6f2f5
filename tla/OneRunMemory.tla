---- MODULE OneRunMemory ----
(***************************************************************************)
(* The working memory of one agent run, src/core/llm/Agent/memory.py.      *)
(*                                                                         *)
(* A memory is a record; every method of the class is an operator from     *)
(* memories to memories.  A step answer is represented by the plan step    *)
(* that produced it, its owner <<plan_revision, current_step_index>>, and a *)
(* loop result (an entry of react_results) by its round: the plan step and *)
(* the number of times that step had been restarted.  That is all the      *)
(* properties tell apart.  A step id that a dictionary lacks counts 0, as  *)
(* .get(id, 0) reads it.  subagent_results and tool_calls are written and  *)
(* never read by the agent, and are left out.                              *)
(***************************************************************************)
EXTENDS Naturals, Sequences

CONSTANTS
    StepIds,          \* the ids a plan step may have: step_1, step_2, ...
    Tools,            \* the names in TOOL_REGISTRY
    NO_FINDING_LIMIT  \* the literal 6 of update_no_finding

Owners == Nat \X Nat

Rounds == Nat \X Nat \X Nat

StepResults == [step_id : StepIds, result : Owners]

Memories ==
    [react_results     : SUBSET Rounds,
     step_results      : Seq(StepResults),
     overthink_counts  : [StepIds -> Nat],
     no_finding_counts : [StepIds -> Nat],
     failed_tools      : SUBSET Tools,
     agent_depth       : Nat]

NoCounts == [id \in StepIds |-> 0]

InitialMemory ==
    [react_results     |-> {},
     step_results      |-> <<>>,
     overthink_counts  |-> NoCounts,
     no_finding_counts |-> NoCounts,
     failed_tools      |-> {},
     agent_depth       |-> 0]

AppendLoopResult(m, round) == [m EXCEPT !.react_results = @ \cup {round}]

ResetReactResults(m) == [m EXCEPT !.react_results = {}]

UpdateNoFinding(m, id, no_finding) ==
    [m EXCEPT !.no_finding_counts[id] = IF no_finding = 0 THEN 0 ELSE @ + 1]

(* The signal update_no_finding returns: the run of unrelated turns is as *)
(* long as the limit.                                                     *)
SignalsFindingMissing(m, id, no_finding) ==
    /\ no_finding = 1
    /\ m.no_finding_counts[id] + 1 >= NO_FINDING_LIMIT

(* Mistake: the count is computed and not stored. *)
UnstoredOverthink(m, id) == m

RecordOverthink(m, id) == [m EXCEPT !.overthink_counts[id] = @ + 1]

RecordFailedTool(m, tool) == [m EXCEPT !.failed_tools = @ \cup {tool}]

(* Mistake: the list is replaced instead of extended. *)
ReplaceStepResults(m, id, answer) ==
    [m EXCEPT !.step_results = <<[step_id |-> id, result |-> answer]>>]

AppendStepResult(m, id, answer) ==
    [m EXCEPT !.step_results = Append(@, [step_id |-> id, result |-> answer])]

(* Mistakes: a field of the copy is forgotten. *)
SubagentWithoutFailedTools(m) == [m EXCEPT !.agent_depth = 1, !.failed_tools = {}]
SubagentWithoutOverthinks(m) == [m EXCEPT !.agent_depth = 1, !.overthink_counts = NoCounts]

(* What a subagent starts from: a copy of everything, one level down. *)
SubagentState(m) == [m EXCEPT !.agent_depth = 1]

(* What _agent_loop_failed copies from the failing state into the run's. *)
FailedFields(saved_memory, m) ==
    [saved_memory EXCEPT !.failed_tools      = m.failed_tools,
                         !.overthink_counts  = m.overthink_counts,
                         !.no_finding_counts = m.no_finding_counts]
====
