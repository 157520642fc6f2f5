---- MODULE AgentLoop ----
(***************************************************************************)
(* agent_loop_node, src/core/llm/Agent/nodes/agent_loop.py: the turns the  *)
(* model takes on one plan step.                                           *)
(*                                                                         *)
(* One action is one pass of the while loop: a model decision and all the  *)
(* node does about it.  The nested call of _run_tool_error_subagent pushes *)
(* the caller's memory on callers and runs the same actions on a copy, as  *)
(* the code does; the pass that returns leaves pc at "return", from where the *)
(* suspended caller resumes or, without one, the runner merges the update. *)
(***************************************************************************)
EXTENDS AgentPlanner

(* _current_step raises unless the cursor and the id name the same step. *)
CursorMatchesPlan ==
    /\ current_step_index < Len(plan)
    /\ current_step_id # NoStep
    /\ plan[current_step_index + 1].step_id = current_step_id

InSubagent == callers # <<>>

Caller == callers[Len(callers)]

(* Mistake: the count is looked up in a dictionary that never has it. *)
UnreadReplanCount == 0

(* The counts that a subagent's state dictionary does not carry read as 0. *)
ReplanCount     == IF InSubagent THEN 0 ELSE replan_count
StepReplanCount == IF InSubagent THEN 0 ELSE step_replan_count

(* The memory in the dictionary this call was given, which the except clause *)
(* reports: what the call has since recorded is lost.                        *)
StateMemory == IF InSubagent THEN SubagentState(Caller) ELSE saved

Failed(why) == [kind |-> "failed", result |-> NoResult, error |-> why]
Answered(answer) == [kind |-> "done", result |-> answer, error |-> "none"]
Requested(mode) == [kind |-> mode, result |-> NoResult, error |-> "none"]

Return(result, m) ==
    /\ pc' = "return"
    /\ update' = result
    /\ memory' = m

(* while turn_index < MAX_REACT_TURNS_PER_STEP: one more decision.  The      *)
(* history counter stops one past the bound that DecisionBound states.       *)
DECISION_CAP == 3 * MAX_REACT_TURNS_PER_STEP + 1

TakeDecision ==
    /\ pc = "loop"
    /\ turn_index < MAX_REACT_TURNS_PER_STEP
    /\ decisions' = IF decisions < DECISION_CAP THEN decisions + 1 ELSE decisions

NextTurn(m) ==
    /\ memory' = m
    /\ turn_index' = turn_index + 1
    /\ UNCHANGED <<pc, update>>

Unmoved == <<runner_vars, planner_vars, cursor_vars, budget_vars, saved>>

AgentLoopNode ==
    /\ pc = "enter"
    /\ IF CursorMatchesPlan
       THEN /\ pc' = "loop"
            /\ memory' = saved
            /\ UNCHANGED update
       ELSE Return(Failed("cursor"), saved)
    /\ turn_index' = 0
    /\ consecutive_think_count' = 0
    /\ decisions' = 0
    /\ UNCHANGED <<Unmoved, callers, tool_history>>

(* Anything in the pass that raises: the model call, a malformed answer, an  *)
(* event handler, a tool the run must not use, Signal tool_error or          *)
(* finding_missing, decide_type fail, finish without an answer.              *)
DecisionRaises ==
    /\ TakeDecision
    /\ Return(Failed("raised"), StateMemory)
    /\ UNCHANGED <<Unmoved, turn_index, consecutive_think_count, callers, tool_history>>

(* _handle_overturning_signal: ask for a full replan, once per run. *)
Overturning ==
    /\ TakeDecision
    /\ IF ReplanCount >= MAX_REPLAN_COUNT
       THEN Return(Failed("replan_twice"), memory)
       ELSE Return(Requested("replan"), ResetReactResults(memory))
    /\ turn_index' = turn_index + 1
    /\ UNCHANGED <<Unmoved, consecutive_think_count, callers, tool_history>>

(* Mistake: the trace of the turns that led nowhere is kept. *)
RestartKeepingTrace(m) ==
    LET recorded == RecordOverthink(m, current_step_id)
    IN  IF recorded.overthink_counts[current_step_id] > 1
        THEN /\ Return(Failed("overthink"), recorded)
             /\ UNCHANGED <<turn_index, consecutive_think_count>>
        ELSE /\ memory' = recorded
             /\ turn_index' = 0
             /\ consecutive_think_count' = 0
             /\ UNCHANGED <<pc, update>>

(* _handle_signal and what its callers do: restart the step, once. *)
RestartStep(m) ==
    LET recorded == RecordOverthink(m, current_step_id)
    IN  IF recorded.overthink_counts[current_step_id] > 1
        THEN /\ Return(Failed("overthink"), recorded)
             /\ UNCHANGED <<turn_index, consecutive_think_count>>
        ELSE /\ memory' = ResetReactResults(recorded)
             /\ turn_index' = 0
             /\ consecutive_think_count' = 0
             /\ UNCHANGED <<pc, update>>

Overthinking ==
    /\ TakeDecision
    /\ RestartStep(memory)
    /\ UNCHANGED <<Unmoved, callers, tool_history>>

(* A decision without a signal has its no_finding counted before it is acted *)
(* on.  These are the memories the rest of such a pass may work with.        *)
CountedMemories ==
    {UpdateNoFinding(memory, current_step_id, no_finding) :
        no_finding \in {n \in {0, 1} : ~SignalsFindingMissing(memory, current_step_id, n)}}

(* _handle_finding_missing_signal: replan from this step on, once per run.  *)
FindingMissing ==
    /\ TakeDecision
    /\ SignalsFindingMissing(memory, current_step_id, 1)
    /\ LET counted == UpdateNoFinding(memory, current_step_id, 1)
       IN  IF StepReplanCount >= MAX_STEP_REPLAN_COUNT
           THEN Return(Failed("step_replan_twice"), counted)
           ELSE Return(Requested("step_replan"), AppendLoopResult(counted, Round(counted)))
    /\ turn_index' = turn_index + 1
    /\ UNCHANGED <<Unmoved, consecutive_think_count, callers, tool_history>>

Think ==
    /\ TakeDecision
    /\ \E counted \in CountedMemories :
         /\ IF consecutive_think_count + 1 >= THINK_LIMIT
            THEN RestartStep(counted)
            ELSE /\ NextTurn(AppendLoopResult(counted, Round(counted)))
                 /\ consecutive_think_count' = consecutive_think_count + 1
    /\ UNCHANGED <<Unmoved, callers, tool_history>>

(* _decide_next_loop refuses a tool that is not offered or has failed. *)
Usable(tool) == tool \notin memory.failed_tools

(* The tool returned, or raised with a blank message: _observation_error     *)
(* takes that for no error.                                                  *)
ToolSucceeds ==
    /\ TakeDecision
    /\ \E tool \in Tools, counted \in CountedMemories :
         /\ Usable(tool)
         /\ NextTurn(AppendLoopResult(counted, Round(counted)))
         /\ tool_history' = [tool_history EXCEPT ![tool] = IF @ = "clean" THEN @ ELSE "reused"]
    /\ consecutive_think_count' = 0
    /\ UNCHANGED <<Unmoved, callers>>

(* The tool raised: a subagent finishes the step without it; in a subagent, *)
(* which must not start another, the loop fails.                            *)
ToolRaises ==
    /\ TakeDecision
    /\ \E tool \in Tools, counted \in CountedMemories :
         LET recorded == RecordFailedTool(AppendLoopResult(counted, Round(counted)), tool)
         IN  /\ Usable(tool)
             /\ IF memory.agent_depth >= 1
                THEN /\ Return(Failed("subagent_tool_error"), recorded)
                     /\ UNCHANGED <<callers, turn_index>>
                ELSE /\ callers' = Append(callers, recorded)
                     /\ memory' = SubagentState(recorded)
                     /\ turn_index' = 0
                     /\ UNCHANGED <<pc, update>>
             /\ tool_history' = [tool_history EXCEPT ![tool] =
                                   IF @ = "clean" THEN "raised" ELSE "reused"]
    /\ consecutive_think_count' = 0
    /\ UNCHANGED Unmoved

Finish ==
    /\ TakeDecision
    /\ \E counted \in CountedMemories :
         /\ Return(Answered(Owner),
                   ResetReactResults(AppendStepResult(counted, current_step_id, Owner)))
    /\ turn_index' = turn_index + 1
    /\ consecutive_think_count' = 0
    /\ UNCHANGED <<Unmoved, callers, tool_history>>

TurnsExhausted ==
    /\ pc = "loop"
    /\ turn_index >= MAX_REACT_TURNS_PER_STEP
    /\ Return(Failed("turns"), StateMemory)
    /\ UNCHANGED <<Unmoved, turn_index, consecutive_think_count, callers, history_vars>>

(* _subagent_answer: the last answer under this step's id in the step        *)
(* results that the subagent's update carries.                               *)
AnswersFor(id) ==
    {i \in 1 .. Len(memory.step_results) : memory.step_results[i].step_id = id}

(* The suspended loop goes on with its own memory and returns in its turn. *)
SubagentReturned ==
    /\ pc = "return"
    /\ InSubagent
    /\ callers' = SubSeq(callers, 1, Len(callers) - 1)
    /\ UNCHANGED <<Unmoved, turn_index, consecutive_think_count, history_vars>>

SubagentFailed ==
    /\ SubagentReturned
    /\ update.kind = "failed"
    /\ Return(Failed("subagent_failed"), Caller)

SubagentUseless ==
    /\ SubagentReturned
    /\ update.kind # "failed"
    /\ AnswersFor(current_step_id) = {}
    /\ Return(Failed("no_usable_result"), saved)

SubagentAnswered ==
    /\ SubagentReturned
    /\ update.kind # "failed"
    /\ \E last \in AnswersFor(current_step_id) :
         LET answer == memory.step_results[last].result
         IN  /\ \A i \in AnswersFor(current_step_id) : i <= last
             /\ Return(Answered(answer),
                       ResetReactResults(AppendStepResult(Caller, current_step_id, answer)))

LoopTurn ==
    \/ DecisionRaises
    \/ Overturning
    \/ Overthinking
    \/ FindingMissing
    \/ Think
    \/ ToolSucceeds
    \/ ToolRaises
    \/ Finish
    \/ TurnsExhausted
    \/ SubagentFailed
    \/ SubagentUseless
    \/ SubagentAnswered
====
