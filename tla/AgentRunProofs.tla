---- MODULE AgentRunProofs ----
(***************************************************************************)
(* Proofs of the safety properties of AgentRun for every value of its      *)
(* constants: first the types and the order of the plan's steps, on which  *)
(* the rest stands, then what one visit of a step promises, and last what  *)
(* becomes of the plan over a whole run.                                   *)
(***************************************************************************)
EXTENDS AgentRunProperties, SequenceTheorems, TLAPS

USE DEF NoStep, MAX_REPLAN_COUNT, MAX_STEP_REPLAN_COUNT

(***************************************************************************)
(* The inductive invariant.  ControlOK says what each control state and    *)
(* each pending update owe to the budgets and to the cursor.               *)
(***************************************************************************)
(* _current_step never has a cause to refuse, so no update reports it; and   *)
(* the iteration limit is the runner's.                                      *)
OrderlyUpdates == {u \in Updates : u.error \notin {"cursor", "iteration_limit"}}

ControlOK ==
    /\ callers # <<>> => pc \in {"loop", "return"}
    /\ InVisit => planner_mode = "initial" /\ plan # <<>>
    /\ pc = "return" => update.kind # "none"
    /\ update \in OrderlyUpdates
    /\ update.kind = "done" => update.result \in Owners
    /\ pc = "return" /\ ~InSubagent =>
         /\ update.kind = "replan" => replan_count = 0
         /\ update.kind = "step_replan" => step_replan_count = 0
    /\ planner_mode = "replan" => replan_count = 1
    /\ planner_mode = "step_replan" =>
         /\ step_replan_count = 1
         /\ current_step_index < Len(plan)
         /\ \A i \in 1 .. current_step_index : plan[i].status = "done"

RunInv == TypeOK /\ ControlOK /\ StepsDoneInOrder /\ PlanLength

----
(* Lemmas about the memory: every operator maps memories to memories. *)

LEMMA MemoryUpdates ==
    ASSUME NEW m \in Memories, NEW id \in StepIds, NEW no_finding \in {0, 1}
    PROVE  /\ \A round \in Rounds : AppendLoopResult(m, round) \in Memories
           /\ ResetReactResults(m) \in Memories
           /\ UpdateNoFinding(m, id, no_finding) \in Memories
           /\ RecordOverthink(m, id) \in Memories
<1>1. \A round \in Rounds : AppendLoopResult(m, round) \in Memories
    BY DEF AppendLoopResult, Memories
<1>2. ResetReactResults(m) \in Memories
    BY DEF ResetReactResults, Memories
<1>3. UpdateNoFinding(m, id, no_finding) \in Memories
    <2> DEFINE counts == [m.no_finding_counts EXCEPT ![id] = IF no_finding = 0 THEN 0 ELSE @ + 1]
    <2>1. counts \in [StepIds -> Nat]
        BY DEF Memories
    <2>2. UpdateNoFinding(m, id, no_finding) = [m EXCEPT !.no_finding_counts = counts]
        BY DEF UpdateNoFinding
    <2> HIDE DEF counts
    <2> QED BY <2>1, <2>2 DEF Memories
<1>4. RecordOverthink(m, id) \in Memories
    <2> DEFINE counts == [m.overthink_counts EXCEPT ![id] = @ + 1]
    <2>1. counts \in [StepIds -> Nat]
        BY DEF Memories
    <2>2. RecordOverthink(m, id) = [m EXCEPT !.overthink_counts = counts]
        BY DEF RecordOverthink
    <2> HIDE DEF counts
    <2> QED BY <2>1, <2>2 DEF Memories
<1> QED BY <1>1, <1>2, <1>3, <1>4

LEMMA SubagentStateCopied ==
    ASSUME NEW m \in Memories
    PROVE  SubagentState(m) \in Memories
BY DEF SubagentState, Memories

LEMMA FailedToolRecorded ==
    ASSUME NEW m \in Memories, NEW tool \in Tools
    PROVE  RecordFailedTool(m, tool) \in Memories
BY DEF RecordFailedTool, Memories

LEMMA FailedFieldsCopied ==
    ASSUME NEW m \in Memories, NEW n \in Memories
    PROVE  FailedFields(m, n) \in Memories
BY DEF FailedFields, Memories

LEMMA StepResultAppended ==
    ASSUME NEW m \in Memories, NEW id \in StepIds, NEW answer \in Owners
    PROVE  AppendStepResult(m, id, answer) \in Memories
<1> DEFINE results == Append(m.step_results, [step_id |-> id, result |-> answer])
<1>1. results \in Seq(StepResults)
    BY DEF Memories, StepResults
<1>2. AppendStepResult(m, id, answer) = [m EXCEPT !.step_results = results]
    BY DEF AppendStepResult
<1> HIDE DEF results
<1> QED BY <1>1, <1>2 DEF Memories

LEMMA InitialMemoryType == InitialMemory \in Memories
BY DEF InitialMemory, Memories, NoCounts

----
(* What a pass of the agent loop has to establish: it touches nothing but the *)
(* node's locals.                                                             *)
TurnOK ==
    /\ pc \in {"loop", "return"}
    /\ memory \in Memories
    /\ turn_index \in 0 .. MAX_REACT_TURNS_PER_STEP
    /\ consecutive_think_count \in 0 .. (THINK_LIMIT - 1)
    /\ callers \in Seq(Memories)
    /\ update \in OrderlyUpdates
    /\ decisions \in 0 .. DECISION_CAP
    /\ tool_history \in [Tools -> {"clean", "raised", "reused"}]
    /\ pc = "return" => update.kind # "none"
    /\ update.kind = "done" => update.result \in Owners
    /\ pc = "return" /\ ~InSubagent =>
         /\ update.kind = "replan" => replan_count = 0
         /\ update.kind = "step_replan" => step_replan_count = 0

LEMMA TurnKeepsRunInv == RunInv /\ InVisit /\ UNCHANGED Unmoved /\ TurnOK' => RunInv'
<1> SUFFICES ASSUME RunInv, InVisit, UNCHANGED Unmoved, TurnOK'
             PROVE  RunInv'
    OBVIOUS
<1> USE DEF RunInv, InVisit, Unmoved, runner_vars, planner_vars, cursor_vars, budget_vars
<1>1. TypeOK'
    BY DEF TypeOK, TurnOK, ControlStates, OrderlyUpdates
<1>2. ControlOK'
    BY DEF ControlOK, TurnOK, InSubagent
<1>3. StepsDoneInOrder'
    BY DEF StepsDoneInOrder, TurnOK, CursorMatchesPlan
<1>4. PlanLength'
    BY DEF PlanLength
<1> QED BY <1>1, <1>2, <1>3, <1>4

(* While a step is worked on there is a cursor, an id and an owner. *)
LEMMA VisitFacts ==
    ASSUME RunInv, InVisit
    PROVE  /\ current_step_id \in StepIds
           /\ Owner \in Owners
           /\ \A m \in Memories : Round(m) \in Rounds
           /\ current_step_index + 1 \in 1 .. Len(plan)
<1>1. /\ current_step_id \in StepIds
      /\ plan_revision \in Nat /\ current_step_index \in Nat
      /\ current_step_index + 1 \in 1 .. Len(plan)
  BY DEF RunInv, InVisit, TypeOK, StepsDoneInOrder, CursorMatchesPlan
<1>2. \A m \in Memories : m.overthink_counts[current_step_id] \in Nat
  BY <1>1 DEF Memories
<1> QED  BY <1>1, <1>2 DEF Owner, Owners, Round, Rounds

(* The memories a pass may continue with, and the updates it may return. *)
LEMMA CountedTypes ==
    ASSUME RunInv, InVisit, NEW counted \in CountedMemories
    PROVE  counted \in Memories
<1>1. PICK no_finding \in {0, 1} :
        counted = UpdateNoFinding(memory, current_step_id, no_finding)
    BY DEF CountedMemories
<1>2. memory \in Memories
    BY DEF RunInv, TypeOK
<1> QED BY <1>1, <1>2, VisitFacts, MemoryUpdates

LEMMA FailedUpdate ==
    ASSUME NEW why \in Errors \ {"cursor", "iteration_limit"}
    PROVE  Failed(why) \in OrderlyUpdates /\ Failed(why).kind = "failed"
BY DEF Failed, Updates, OrderlyUpdates

LEMMA AnsweredUpdate ==
    ASSUME NEW answer \in Owners
    PROVE  Answered(answer) \in OrderlyUpdates /\ Answered(answer).kind = "done"
           /\ Answered(answer).result = answer
BY DEF Answered, Updates, OrderlyUpdates, Errors

LEMMA RequestedUpdate ==
    ASSUME NEW mode \in {"replan", "step_replan"}
    PROVE  Requested(mode) \in OrderlyUpdates /\ Requested(mode).kind = mode
BY DEF Requested, Updates, OrderlyUpdates, Errors

LEMMA CallerIsMemory ==
    ASSUME RunInv, InSubagent
    PROVE  Caller \in Memories /\ SubSeq(callers, 1, Len(callers) - 1) \in Seq(Memories)
BY DEF RunInv, TypeOK, InSubagent, Caller

LEMMA StateMemoryIsMemory == RunInv => StateMemory \in Memories
BY CallerIsMemory, SubagentStateCopied DEF StateMemory, RunInv, TypeOK

LEMMA DecisionCounted ==
    ASSUME RunInv, TakeDecision
    PROVE  /\ decisions' \in 0 .. DECISION_CAP
           /\ InVisit
           /\ turn_index + 1 \in 0 .. MAX_REACT_TURNS_PER_STEP
BY LimitsAssumption DEF RunInv, TypeOK, TakeDecision, InVisit, DECISION_CAP

LEMMA RestartOK ==
    ASSUME RunInv, TakeDecision, NEW m \in Memories, RestartStep(m),
           UNCHANGED <<Unmoved, callers, tool_history>>
    PROVE  TurnOK'
<1> DEFINE recorded == RecordOverthink(m, current_step_id)
<1>1. recorded \in Memories /\ ResetReactResults(recorded) \in Memories
    BY DecisionCounted, VisitFacts, MemoryUpdates
<1>2. Failed("overthink") \in OrderlyUpdates /\ Failed("overthink").kind = "failed"
    BY FailedUpdate DEF Errors
<1> USE LimitsAssumption DEF RunInv, TypeOK, ControlOK, TurnOK, TakeDecision, InSubagent
<1> USE DecisionCounted
<1>3. CASE recorded.overthink_counts[current_step_id] > 1
    BY <1>1, <1>2, <1>3 DEF RestartStep, Return
<1>4. CASE ~(recorded.overthink_counts[current_step_id] > 1)
    BY <1>1, <1>4 DEF RestartStep
<1> QED BY <1>3, <1>4

LEMMA LoopTurnOK == RunInv /\ LoopTurn => TurnOK' /\ InVisit /\ UNCHANGED Unmoved
<1> SUFFICES ASSUME RunInv, LoopTurn
             PROVE  TurnOK' /\ InVisit /\ UNCHANGED Unmoved
    OBVIOUS
<1> USE DEF RunInv
<1> USE DEF RunInv, TypeOK, ControlOK, TurnOK, InSubagent, Return
<1>1. CASE DecisionRaises
    <2>1. Failed("raised") \in OrderlyUpdates /\ Failed("raised").kind = "failed"
        BY FailedUpdate DEF Errors
    <2> QED BY <1>1, <2>1, DecisionCounted, StateMemoryIsMemory DEF DecisionRaises
<1>2. CASE Overturning
    <2>1. Failed("replan_twice") \in OrderlyUpdates /\ Failed("replan_twice").kind = "failed"
        BY FailedUpdate DEF Errors
    <2>2. Requested("replan") \in OrderlyUpdates /\ Requested("replan").kind = "replan"
        BY RequestedUpdate
    <2>3. ResetReactResults(memory) \in Memories
        BY <1>2, DecisionCounted, VisitFacts, MemoryUpdates DEF Overturning
    <2>4. CASE ReplanCount >= MAX_REPLAN_COUNT
        BY <1>2, <2>1, <2>4, DecisionCounted DEF Overturning
    <2>5. CASE ~(ReplanCount >= MAX_REPLAN_COUNT)
        <3>1. callers = <<>> => replan_count = 0
            BY <2>5 DEF ReplanCount
        <3> QED BY <1>2, <2>2, <2>3, <2>5, <3>1, DecisionCounted DEF Overturning, Unmoved, budget_vars
    <2> QED BY <2>4, <2>5
<1>3. CASE Overthinking
    BY <1>3, RestartOK, DecisionCounted DEF Overthinking
<1>4. CASE FindingMissing
    <2> DEFINE counted == UpdateNoFinding(memory, current_step_id, 1)
    <2>1. counted \in Memories /\ AppendLoopResult(counted, Round(counted)) \in Memories
        BY <1>4, DecisionCounted, VisitFacts, MemoryUpdates DEF FindingMissing
    <2>2. Failed("step_replan_twice") \in OrderlyUpdates /\ Failed("step_replan_twice").kind = "failed"
        BY FailedUpdate DEF Errors
    <2>3. Requested("step_replan") \in OrderlyUpdates /\ Requested("step_replan").kind = "step_replan"
        BY RequestedUpdate
    <2>4. CASE StepReplanCount >= MAX_STEP_REPLAN_COUNT
        BY <1>4, <2>1, <2>2, <2>4, DecisionCounted DEF FindingMissing
    <2>5. CASE ~(StepReplanCount >= MAX_STEP_REPLAN_COUNT)
        <3>1. callers = <<>> => step_replan_count = 0
            BY <2>5 DEF StepReplanCount
        <3> QED BY <1>4, <2>1, <2>3, <2>5, <3>1, DecisionCounted DEF FindingMissing, Unmoved, budget_vars
    <2> QED BY <2>4, <2>5
<1>5. CASE Think
    <2>1. PICK counted \in CountedMemories :
            IF consecutive_think_count + 1 >= THINK_LIMIT
            THEN RestartStep(counted)
            ELSE /\ NextTurn(AppendLoopResult(counted, Round(counted)))
                 /\ consecutive_think_count' = consecutive_think_count + 1
        BY <1>5 DEF Think
    <2>2. counted \in Memories /\ AppendLoopResult(counted, Round(counted)) \in Memories
        BY <1>5, DecisionCounted, VisitFacts, CountedTypes, MemoryUpdates DEF Think
    <2>3. CASE consecutive_think_count + 1 >= THINK_LIMIT
        BY <1>5, <2>1, <2>2, <2>3, RestartOK, DecisionCounted DEF Think
    <2>4. CASE ~(consecutive_think_count + 1 >= THINK_LIMIT)
        BY <1>5, <2>1, <2>2, <2>4, DecisionCounted, LimitsAssumption
        DEF Think, NextTurn, TakeDecision
    <2> QED BY <2>3, <2>4
<1>6. CASE ToolSucceeds
    <2>1. PICK tool \in Tools, counted \in CountedMemories :
            /\ NextTurn(AppendLoopResult(counted, Round(counted)))
            /\ tool_history' = [tool_history EXCEPT ![tool] = IF @ = "clean" THEN @ ELSE "reused"]
        BY <1>6 DEF ToolSucceeds
    <2>2. AppendLoopResult(counted, Round(counted)) \in Memories
        BY <1>6, DecisionCounted, VisitFacts, CountedTypes, MemoryUpdates DEF ToolSucceeds
    <2>3. tool_history' \in [Tools -> {"clean", "raised", "reused"}]
        BY <2>1
    <2> QED
        BY <1>6, <2>1, <2>2, <2>3, DecisionCounted, LimitsAssumption
        DEF ToolSucceeds, NextTurn, TakeDecision
<1>7. CASE ToolRaises
    <2>1. PICK tool \in Tools, counted \in CountedMemories :
            LET recorded == RecordFailedTool(AppendLoopResult(counted, Round(counted)), tool)
            IN  /\ IF memory.agent_depth >= 1
                   THEN /\ Return(Failed("subagent_tool_error"), recorded)
                        /\ UNCHANGED <<callers, turn_index>>
                   ELSE /\ callers' = Append(callers, recorded)
                        /\ memory' = SubagentState(recorded)
                        /\ turn_index' = 0
                        /\ UNCHANGED <<pc, update>>
                /\ tool_history' = [tool_history EXCEPT ![tool] =
                                      IF @ = "clean" THEN "raised" ELSE "reused"]
        BY <1>7 DEF ToolRaises
    <2> DEFINE recorded == RecordFailedTool(AppendLoopResult(counted, Round(counted)), tool)
    <2>2. recorded \in Memories /\ SubagentState(recorded) \in Memories
        BY <1>7, DecisionCounted, VisitFacts, CountedTypes, MemoryUpdates,
           FailedToolRecorded, SubagentStateCopied DEF ToolRaises
    <2>3. tool_history' \in [Tools -> {"clean", "raised", "reused"}]
        BY <2>1
    <2>4. Failed("subagent_tool_error") \in OrderlyUpdates
          /\ Failed("subagent_tool_error").kind = "failed"
        BY FailedUpdate DEF Errors
    <2>5. CASE memory.agent_depth >= 1
        BY <1>7, <2>1, <2>2, <2>3, <2>4, <2>5, DecisionCounted, LimitsAssumption
        DEF ToolRaises
    <2>6. CASE ~(memory.agent_depth >= 1)
        <3>1. callers' \in Seq(Memories)
            <4>1. callers' = Append(callers, recorded)
                BY <2>1, <2>6
            <4>2. callers \in Seq(Memories)
                OBVIOUS
            <4> HIDE DEF recorded
            <4> QED BY <2>2, <4>1, <4>2, AppendProperties
        <3> QED
            BY <1>7, <2>1, <2>2, <2>3, <2>6, <3>1, DecisionCounted, LimitsAssumption
            DEF ToolRaises, TakeDecision
    <2> QED BY <2>5, <2>6
<1>8. CASE Finish
    <2>1. PICK counted \in CountedMemories :
            Return(Answered(Owner),
                   ResetReactResults(AppendStepResult(counted, current_step_id, Owner)))
        BY <1>8 DEF Finish
    <2>2. ResetReactResults(AppendStepResult(counted, current_step_id, Owner)) \in Memories
        BY <1>8, DecisionCounted, VisitFacts, CountedTypes, StepResultAppended, MemoryUpdates
        DEF Finish
    <2>3. Answered(Owner) \in OrderlyUpdates /\ Answered(Owner).kind = "done"
          /\ Answered(Owner).result = Owner /\ Owner \in Owners
        BY <1>8, DecisionCounted, VisitFacts, AnsweredUpdate DEF Finish
    <2> QED
        BY <1>8, <2>1, <2>2, <2>3, DecisionCounted, LimitsAssumption DEF Finish
<1>9. CASE TurnsExhausted
    <2>1. Failed("turns") \in OrderlyUpdates /\ Failed("turns").kind = "failed"
        BY FailedUpdate DEF Errors
    <2> QED
        BY <1>9, <2>1, StateMemoryIsMemory DEF TurnsExhausted, InVisit, history_vars
<1>10. CASE SubagentFailed
    <2>1. Failed("subagent_failed") \in OrderlyUpdates /\ Failed("subagent_failed").kind = "failed"
        BY FailedUpdate DEF Errors
    <2> QED
        BY <1>10, <2>1, CallerIsMemory
        DEF SubagentFailed, SubagentReturned, InVisit, history_vars
<1>11. CASE SubagentUseless
    <2>1. Failed("no_usable_result") \in OrderlyUpdates /\ Failed("no_usable_result").kind = "failed"
        BY FailedUpdate DEF Errors
    <2> QED
        BY <1>11, <2>1, CallerIsMemory
        DEF SubagentUseless, SubagentReturned, InVisit, history_vars
<1>12. CASE SubagentAnswered
    <2>1. PICK last \in AnswersFor(current_step_id) :
            LET answer == memory.step_results[last].result
            IN  Return(Answered(answer),
                       ResetReactResults(AppendStepResult(Caller, current_step_id, answer)))
        BY <1>12 DEF SubagentAnswered
    <2> DEFINE answer == memory.step_results[last].result
    <2>2. answer \in Owners
        <3>1. memory.step_results \in Seq(StepResults) /\ last \in 1 .. Len(memory.step_results)
            BY DEF AnswersFor, Memories
        <3>2. memory.step_results[last] \in StepResults
            BY <3>1
        <3> QED BY <3>2 DEF StepResults
    <2>3. Caller \in Memories /\ SubSeq(callers, 1, Len(callers) - 1) \in Seq(Memories)
        BY <1>12, CallerIsMemory DEF SubagentAnswered, SubagentReturned
    <2>4. ResetReactResults(AppendStepResult(Caller, current_step_id, answer)) \in Memories
        BY <1>12, <2>2, <2>3, VisitFacts, StepResultAppended, MemoryUpdates
        DEF SubagentAnswered, SubagentReturned, InVisit
    <2>5. Answered(answer) \in OrderlyUpdates /\ Answered(answer).kind = "done"
          /\ Answered(answer).result = answer
        BY <2>2, AnsweredUpdate
    <2> HIDE DEF answer
    <2> QED
        BY <1>12, <2>1, <2>2, <2>3, <2>4, <2>5
        DEF answer, SubagentAnswered, SubagentReturned, InVisit, history_vars
<1> QED
    BY <1>1, <1>2, <1>3, <1>4, <1>5, <1>6, <1>7, <1>8, <1>9, <1>10, <1>11, <1>12 DEF LoopTurn

----
(* The runner's own steps. *)

LEMMA LimitIsNat == MAX_AGENT_NODE_ITERATIONS \in Nat
BY LimitsAssumption DEF MAX_AGENT_NODE_ITERATIONS

LEMMA RestoredPlan ==
    ASSUME NEW ids \in ParsedPlans, NEW start \in 1 .. MAX_PLAN_STEPS, NEW force \in BOOLEAN
    PROVE  /\ RestorePlanContent(ids, start, force) \in Seq(PlanSteps)
           /\ Len(RestorePlanContent(ids, start, force)) \in 1 .. MAX_PLAN_STEPS
           /\ \A i \in 1 .. Len(RestorePlanContent(ids, start, force)) :
                 RestorePlanContent(ids, start, force)[i].status = "pending"
<1> DEFINE restored == RestorePlanContent(ids, start, force)
<1>1. ids \in Seq(StepIds \cup {NoStep}) /\ Len(ids) \in 1 .. MAX_PLAN_STEPS
    BY ResponsesAssumption DEF ParsedPlans
<1>2. ASSUME NEW i \in 1 .. Len(ids)
      PROVE  restored[i] \in PlanSteps /\ restored[i].status = "pending"
    <2>1. start + i - 1 \in StepIds
        BY <1>1, LimitsAssumption, StepIdsAssumption
    <2>2. ids[i] = NoStep \/ ids[i] \in StepIds
        BY <1>1
    <2> QED BY <2>1, <2>2 DEF RestorePlanContent, PlanSteps
<1>3. Len(restored) = Len(ids) /\ restored \in Seq(PlanSteps)
    BY <1>1, <1>2 DEF RestorePlanContent
<1> QED BY <1>1, <1>2, <1>3

(* What the planner writes: a partial replan keeps the steps before the       *)
(* cursor, which are done, and every other step is new.                       *)
LEMMA NewPlan ==
    ASSUME RunInv, PlannerNode
    PROVE  /\ plan' \in Seq(PlanSteps) /\ plan' # <<>>
           /\ planner_mode # "step_replan" =>
                /\ Len(plan') \in 1 .. MAX_PLAN_STEPS
                /\ \A i \in 1 .. Len(plan') : plan'[i].status = "pending"
           /\ planner_mode = "step_replan" =>
                /\ current_step_index < Len(plan) /\ Len(plan) <= MAX_PLAN_STEPS
                /\ step_replan_count = 1
                /\ current_step_index' = current_step_index
                /\ Len(plan') \in current_step_index + 1 .. current_step_index + MAX_PLAN_STEPS
                /\ \A i \in 1 .. current_step_index :
                      plan[i].status = "done" /\ plan'[i] = plan[i]
                /\ \A i \in current_step_index + 1 .. Len(plan') : plan'[i].status = "pending"
           /\ current_step_index' \in Nat /\ current_step_id' \in StepIds \cup {NoStep}
<1>1. PICK ids \in ParsedPlans :
        /\ plan' = PlannedSteps(ids)
        /\ IF planner_mode = "initial"
           THEN UNCHANGED cursor_vars
           ELSE LET start == IF planner_mode = "replan" THEN 0 ELSE StepReplanStartIndex
                IN  /\ current_step_index' = start
                    /\ current_step_id' = PlannedSteps(ids)[start + 1].step_id
    BY DEF PlannerNode
<1>2. CASE planner_mode = "step_replan"
    <2>1. /\ current_step_index < Len(plan)
          /\ Len(plan) <= MAX_PLAN_STEPS
          /\ step_replan_count = 1
          /\ \A i \in 1 .. current_step_index : plan[i].status = "done"
          /\ StepReplanStartIndex = current_step_index
        BY <1>2 DEF RunInv, ControlOK, PlanLength, StepReplanStartIndex
    <2> DEFINE kept == SubSeq(plan, 1, current_step_index)
               fresh == RestorePlanContent(ids, current_step_index + 1, TRUE)
    <2>2. /\ kept \in Seq(PlanSteps)
          /\ Len(kept) = current_step_index
          /\ \A i \in 1 .. current_step_index : kept[i] = plan[i]
        BY <2>1 DEF RunInv, TypeOK
    <2>3. /\ fresh \in Seq(PlanSteps)
          /\ Len(fresh) \in 1 .. MAX_PLAN_STEPS
          /\ \A i \in 1 .. Len(fresh) : fresh[i].status = "pending"
        <3>1. current_step_index + 1 \in 1 .. MAX_PLAN_STEPS
            BY <2>1, LimitsAssumption DEF RunInv, TypeOK
        <3> QED BY <3>1, RestoredPlan
    <2>4. plan' = kept \o fresh
        BY <1>1, <1>2, <2>1 DEF PlannedSteps
    <2> HIDE DEF kept, fresh
    <2>5. plan' \in Seq(PlanSteps) /\ Len(plan') = current_step_index + Len(fresh)
        BY <2>2, <2>3, <2>4, ConcatProperties
    <2>6. ASSUME NEW i \in 1 .. current_step_index
          PROVE  plan'[i] = plan[i]
        <3>1. plan'[i] = kept[i]
            BY <2>2, <2>3, <2>4, ConcatProperties DEF RunInv, TypeOK
        <3> QED BY <3>1, <2>2
    <2>7. ASSUME NEW i \in current_step_index + 1 .. Len(plan')
          PROVE  plan'[i].status = "pending"
        <3>1. plan'[i] = fresh[i - current_step_index]
            BY <2>2, <2>3, <2>4, <2>5, ConcatProperties DEF RunInv, TypeOK
        <3>2. i - current_step_index \in 1 .. Len(fresh)
            BY <2>3, <2>5 DEF RunInv, TypeOK
        <3> QED BY <3>1, <3>2, <2>3
    <2>8. current_step_index' = current_step_index /\ current_step_id' \in StepIds
        <3>1. plan'[current_step_index + 1] \in PlanSteps
            BY <2>3, <2>5 DEF RunInv, TypeOK
        <3> QED BY <1>1, <1>2, <2>1, <3>1 DEF PlanSteps
    <2>9. /\ plan' # <<>> /\ current_step_index \in Nat
          /\ Len(plan') \in current_step_index + 1 .. current_step_index + MAX_PLAN_STEPS
        BY <2>3, <2>5, LimitsAssumption DEF RunInv, TypeOK
    <2> QED BY <1>2, <2>1, <2>5, <2>6, <2>7, <2>8, <2>9
<1>3. CASE planner_mode # "step_replan"
    <2>1. /\ plan' \in Seq(PlanSteps)
          /\ Len(plan') \in 1 .. MAX_PLAN_STEPS
          /\ \A i \in 1 .. Len(plan') : plan'[i].status = "pending"
        <3>1. plan' = RestorePlanContent(ids, 1, FALSE)
            BY <1>1, <1>3 DEF PlannedSteps
        <3>2. 1 \in 1 .. MAX_PLAN_STEPS /\ FALSE \in BOOLEAN
            BY LimitsAssumption
        <3> QED BY <3>1, <3>2, RestoredPlan
    <2>2. current_step_index' \in Nat /\ current_step_id' \in StepIds \cup {NoStep}
        <3>1. CASE planner_mode = "initial"
            BY <1>1, <3>1 DEF RunInv, TypeOK, cursor_vars
        <3>2. CASE planner_mode = "replan"
            <4>1. plan'[1] \in PlanSteps
                BY <2>1
            <4> QED BY <1>1, <3>2, <4>1 DEF PlanSteps
        <3> QED BY <1>3, <3>1, <3>2 DEF RunInv, TypeOK
    <2> QED BY <1>3, <2>1, <2>2
<1> QED BY <1>2, <1>3

LEMMA PlannerNodeInv == RunInv /\ PlannerNode => RunInv'
<1> SUFFICES ASSUME RunInv, PlannerNode
             PROVE  RunInv'
    OBVIOUS
<1>1. saved' \in Memories
    BY DEF PlannerNode, RunInv, TypeOK, Memories, NoCounts
<1>2. TypeOK'
    BY <1>1, NewPlan, LimitIsNat
    DEF PlannerNode, RunInv, TypeOK, budget_vars, loop_vars, history_vars
<1>3. ControlOK'
    BY NewPlan DEF PlannerNode, RunInv, TypeOK, ControlOK, InVisit, InSubagent, budget_vars, loop_vars
<1>4. PlanLength'
    <2>1. /\ UNCHANGED step_replan_count /\ planner_mode' = "initial"
          /\ current_step_index \in Nat
        BY DEF PlannerNode, RunInv, TypeOK, budget_vars
    <2>2. CASE planner_mode = "step_replan"
        BY <2>1, <2>2, NewPlan, LimitsAssumption DEF PlanLength
    <2>3. CASE planner_mode # "step_replan"
        BY <2>1, <2>3, NewPlan, LimitsAssumption DEF PlanLength
    <2> QED BY <2>2, <2>3
<1>5. StepsDoneInOrder'
    <2>1. CASE planner_mode = "step_replan"
        <3>1. \A i \in 1 .. Len(plan') :
                 /\ i <= current_step_index => plan'[i].status = "done"
                 /\ i > current_step_index => plan'[i].status = "pending"
            BY <2>1, NewPlan DEF RunInv, TypeOK
        <3>2. plan' \in Seq(PlanSteps) /\ current_step_index \in Nat
            BY NewPlan DEF RunInv, TypeOK
        <3> QED BY <3>1, <3>2 DEF PlannerNode, RunInv, StepsDoneInOrder, InVisit
    <2>2. CASE planner_mode # "step_replan"
        BY <2>2, NewPlan DEF PlannerNode, RunInv, TypeOK, StepsDoneInOrder, InVisit
    <2> QED BY <2>1, <2>2
<1> QED BY <1>2, <1>3, <1>4, <1>5 DEF RunInv

LEMMA SelectNextStepInv == RunInv /\ SelectNextStep => RunInv'
<1> SUFFICES ASSUME RunInv, SelectNextStep
             PROVE  RunInv'
    OBVIOUS
<1>1. PICK i \in 1 .. Len(plan) :
        /\ Pending(i)
        /\ \A j \in 1 .. (i - 1) : ~Pending(j)
        /\ current_step_index' = i - 1
        /\ current_step_id' = plan[i].step_id
    BY DEF SelectNextStep
<1>2. /\ plan[i] \in PlanSteps
      /\ \A j \in 1 .. (i - 1) : plan[j].status = "done"
    <2>1. \A j \in 1 .. Len(plan) : plan[j] \in PlanSteps
        BY DEF RunInv, TypeOK
    <2>2. \A j \in 1 .. (i - 1) : j \in 1 .. Len(plan)
        BY DEF RunInv, TypeOK
    <2> QED BY <1>1, <2>1, <2>2 DEF Pending, PlanSteps
<1>3. TypeOK'
    BY <1>1, <1>2, LimitIsNat
    DEF SelectNextStep, RunInv, TypeOK, PlanSteps, ControlStates, planner_vars, budget_vars,
        loop_vars, history_vars
<1>4. ControlOK' /\ PlanLength'
    BY DEF SelectNextStep, RunInv, TypeOK, ControlOK, PlanLength, InVisit, InSubagent, ShouldPlan,
           planner_vars, budget_vars, loop_vars
<1>5. StepsDoneInOrder'
    <2>1. current_step_index' < Len(plan') /\ current_step_index' + 1 = i
        BY <1>1 DEF SelectNextStep, RunInv, TypeOK, planner_vars
    <2>2. current_step_id' # NoStep
        BY <1>1, <1>2, StepIdsAssumption DEF PlanSteps
    <2> QED
        BY <1>1, <1>2, <2>1, <2>2
        DEF SelectNextStep, RunInv, TypeOK, StepsDoneInOrder, CursorMatchesPlan, Pending, planner_vars
<1> QED BY <1>3, <1>4, <1>5 DEF RunInv

LEMMA AgentLoopNodeInv == RunInv /\ AgentLoopNode => RunInv'
<1> SUFFICES ASSUME RunInv, AgentLoopNode
             PROVE  RunInv'
    OBVIOUS
<1>1. InVisit /\ CursorMatchesPlan
    BY DEF AgentLoopNode, InVisit, RunInv, StepsDoneInOrder
<1>2. TurnOK'
    BY <1>1, LimitsAssumption
    DEF AgentLoopNode, RunInv, TypeOK, ControlOK, TurnOK, DECISION_CAP
<1> QED BY <1>1, <1>2, TurnKeepsRunInv DEF AgentLoopNode

LEMMA MergeInv ==
    RunInv /\ (MergeStepDone \/ MergeReplan \/ MergeStepReplan \/ MergeFailed) => RunInv'
<1> SUFFICES ASSUME RunInv, MergeStepDone \/ MergeReplan \/ MergeStepReplan \/ MergeFailed
             PROVE  RunInv'
    OBVIOUS
<1> USE DEF NodeReturned, InSubagent, cursor_vars, budget_vars
<1>1. CASE MergeStepDone
    <2> DEFINE k == current_step_index + 1
    <2>1. /\ k \in 1 .. Len(plan)
          /\ \A i \in 1 .. (k - 1) : plan[i].status = "done"
          /\ update.result \in Owners
        BY <1>1, VisitFacts DEF MergeStepDone, RunInv, TypeOK, InVisit, ControlOK, StepsDoneInOrder
    <2> DEFINE done == [plan[k] EXCEPT !.status = "done", !.result = update.result]
    <2>2. done \in PlanSteps /\ done.status = "done"
        <3>1. plan[k] \in PlanSteps
            BY <2>1 DEF RunInv, TypeOK
        <3> QED BY <2>1, <3>1 DEF PlanSteps
    <2>3. plan' = [plan EXCEPT ![k] = done]
        BY <1>1 DEF MergeStepDone
    <2> HIDE DEF k, done
    <2>4. /\ plan' \in Seq(PlanSteps)
          /\ Len(plan') = Len(plan)
          /\ \A i \in 1 .. Len(plan) : plan'[i] = IF i = k THEN done ELSE plan[i]
        BY <2>1, <2>2, <2>3 DEF RunInv, TypeOK
    <2>5. TypeOK'
        BY <1>1, <2>4, InitialMemoryType, LimitsAssumption
        DEF MergeStepDone, RunInv, TypeOK, ControlStates, Updates, OrderlyUpdates, NoUpdate, Errors, DECISION_CAP
    <2>6. ControlOK' /\ PlanLength'
        BY <1>1, <2>4
        DEF MergeStepDone, RunInv, TypeOK, ControlOK, PlanLength, InVisit, Updates, OrderlyUpdates, Errors, NoUpdate
    <2>7. StepsDoneInOrder'
        BY <1>1, <2>1, <2>2, <2>4 DEF MergeStepDone, RunInv, TypeOK, StepsDoneInOrder, InVisit, k
    <2> QED BY <2>5, <2>6, <2>7 DEF RunInv
<1>2. CASE MergeReplan \/ MergeStepReplan
    <2>1. /\ replan_count' \in 0 .. MAX_REPLAN_COUNT
          /\ step_replan_count' \in 0 .. MAX_STEP_REPLAN_COUNT
        BY <1>2 DEF MergeReplan, MergeStepReplan, RunInv, TypeOK, ControlOK
    <2>2. TypeOK'
        BY <1>2, <2>1, InitialMemoryType, LimitsAssumption
        DEF MergeReplan, MergeStepReplan, RunInv, TypeOK, ControlStates, Updates, OrderlyUpdates, NoUpdate, Errors,
            DECISION_CAP
    <2>3. /\ current_step_index < Len(plan) /\ planner_mode = "initial"
          /\ \A i \in 1 .. current_step_index : plan[i].status = "done"
        BY <1>2
        DEF MergeReplan, MergeStepReplan, RunInv, ControlOK, StepsDoneInOrder, CursorMatchesPlan,
            InVisit
    <2>4. NoUpdate \in OrderlyUpdates
        BY DEF Updates, OrderlyUpdates, Errors, NoUpdate
    <2>5. ControlOK'
        BY <1>2, <2>3, <2>4
        DEF MergeReplan, MergeStepReplan, RunInv, TypeOK, ControlOK, InVisit, NoUpdate
    <2>6. PlanLength'
        BY <1>2, <2>3 DEF MergeReplan, MergeStepReplan, RunInv, TypeOK, ControlOK, PlanLength
    <2>7. StepsDoneInOrder'
        BY <1>2 DEF MergeReplan, MergeStepReplan, RunInv, StepsDoneInOrder, InVisit
    <2> QED BY <2>2, <2>5, <2>6, <2>7 DEF RunInv
<1>3. CASE MergeFailed
    <2>1. FailedFields(saved, memory) \in Memories
        BY FailedFieldsCopied DEF RunInv, TypeOK
    <2>2. TypeOK'
        BY <1>3, <2>1, InitialMemoryType, LimitsAssumption
        DEF MergeFailed, RunInv, TypeOK, ControlStates, Updates, OrderlyUpdates, NoUpdate, Errors, DECISION_CAP
    <2>3. ControlOK' /\ PlanLength'
        BY <1>3 DEF MergeFailed, RunInv, TypeOK, ControlOK, PlanLength, InVisit, Updates, OrderlyUpdates, Errors, NoUpdate
    <2>4. StepsDoneInOrder'
        BY <1>3 DEF MergeFailed, RunInv, ControlOK, OrderlyUpdates, StepsDoneInOrder, InVisit
    <2> QED BY <2>2, <2>3, <2>4 DEF RunInv
<1> QED BY <1>1, <1>2, <1>3

(* The steps that only move the runner: the plan and the node stay as they are. *)
LEMMA RunnerStepInv ==
    RunInv /\ (\/ PlannerFailed \/ SelectFinish \/ IterationLimit \/ Summarize
              \/ SummarizeRaises \/ HandlerRaises \/ Over \/ UNCHANGED vars) => RunInv'
<1> SUFFICES ASSUME RunInv,
                    \/ PlannerFailed \/ SelectFinish \/ IterationLimit \/ Summarize
                    \/ SummarizeRaises \/ HandlerRaises \/ Over \/ UNCHANGED vars
             PROVE  RunInv'
    OBVIOUS
<1> USE DEF RunInv, TypeOK, ControlOK, StepsDoneInOrder, PlanLength, ControlStates, Errors,
            InVisit, InSubagent, CursorMatchesPlan,
            planner_vars, cursor_vars, budget_vars, loop_vars, history_vars, runner_vars
<1> USE LimitIsNat
<1>1. CASE PlannerFailed
    BY <1>1 DEF PlannerFailed
<1>2. CASE SelectFinish
    BY <1>2 DEF SelectFinish, ShouldPlan
<1>3. CASE IterationLimit
    BY <1>3 DEF IterationLimit
<1>4. CASE Summarize
    BY <1>4 DEF Summarize
<1>5. CASE SummarizeRaises
    BY <1>5 DEF SummarizeRaises
<1>6. CASE HandlerRaises
    BY <1>6 DEF HandlerRaises
<1>7. CASE Over \/ UNCHANGED vars
    <2>1. UNCHANGED <<pc, iteration, error, plan, plan_revision, planner_mode, current_step_index,
                      current_step_id, replan_count, step_replan_count, saved, memory, turn_index,
                      consecutive_think_count, callers, update, decisions, tool_history>>
        BY <1>7 DEF Over, vars
    <2> QED BY <2>1
<1> QED BY <1>1, <1>2, <1>3, <1>4, <1>5, <1>6, <1>7

LEMMA InitRunInv == Init => RunInv
<1> SUFFICES ASSUME Init
             PROVE  RunInv
    OBVIOUS
<1>1. TypeOK
    BY InitialMemoryType, LimitIsNat, LimitsAssumption
    DEF Init, TypeOK, ControlStates, Errors, Updates, OrderlyUpdates, NoUpdate, DECISION_CAP
<1>2. ControlOK /\ StepsDoneInOrder /\ PlanLength
    BY LimitsAssumption
    DEF Init, ControlOK, StepsDoneInOrder, PlanLength, InVisit, InSubagent, Updates, OrderlyUpdates, Errors, NoUpdate
<1> QED BY <1>1, <1>2 DEF RunInv

LEMMA NextRunInv == RunInv /\ [Next]_vars => RunInv'
BY LoopTurnOK, TurnKeepsRunInv, PlannerNodeInv, SelectNextStepInv, AgentLoopNodeInv, MergeInv,
   RunnerStepInv
DEF Next

LEMMA RunInvariant == Spec => []RunInv
BY InitRunInv, NextRunInv, PTL DEF Spec

(* Type correctness: every counter stays within its limit. *)
THEOREM TypeCorrect == Spec => []TypeOK
BY RunInvariant, PTL DEF RunInv

(* Whatever the model answers, steps are done from the front of the plan and *)
(* the cursor the loop node is given is always the step to do.               *)
THEOREM OrderKept == Spec => []StepsDoneInOrder
BY RunInvariant, PTL DEF RunInv

(* A plan outgrows MAX_PLAN_STEPS only through the one step replan. *)
THEOREM PlanBounded == Spec => []PlanLength
BY RunInvariant, PTL DEF RunInv

----
(***************************************************************************)
(* What a visit of a plan step promises: how many decisions it takes, that *)
(* subagents do not nest, which results it shows to the model, which tools *)
(* it uses and what evidence it leaves.                                    *)
(*                                                                         *)
(* Each property speaks of the working memory of the loop, and holds only  *)
(* because the memories from which that one is made, saved and those of    *)
(* the suspended callers, have it as well.                                 *)
(***************************************************************************)

InLoop == pc \in {"loop", "return"}

DepthOK ==
    /\ saved.agent_depth = 0
    /\ Len(callers) <= 1
    /\ \A i \in 1 .. Len(callers) : callers[i].agent_depth = 0
    /\ InLoop => memory.agent_depth = Len(callers)

(* The decisions of a visit, by what came before the round it is in: the     *)
(* round that a restart ended and the one that started the subagent.         *)
DecisionsOK ==
    /\ DecisionBound
    /\ pc = "loop" =>
         decisions <= turn_index
           + (IF memory.overthink_counts[current_step_id] = 0 THEN 0
              ELSE MAX_REACT_TURNS_PER_STEP)
           + (IF InSubagent THEN MAX_REACT_TURNS_PER_STEP ELSE 0)

(* The trace in a memory is of the round that the memory counts. *)
Fresh(m) == m.react_results \subseteq {Round(m)}

(* The planner takes the trace away when it is asked to replan. *)
TraceOK ==
    /\ InVisit \/ (pc = "head" /\ planner_mode = "initial") => saved.react_results = {}
    /\ pc = "loop" \/ (pc = "return" /\ update.kind # "failed") => Fresh(memory)
    /\ \A i \in 1 .. Len(callers) : Fresh(callers[i])
    /\ pc = "return" /\ update.kind = "done" => memory.react_results = {}

(* A tool that has raised is among the failed tools of the memory, ... *)
Knows(m) == \A tool \in Tools : tool_history[tool] # "clean" => tool \in m.failed_tools

(* ... until the run is bound to fail, when the memory of the subagent, or   *)
(* of the pass that raised, is dropped.                                      *)
Failing == pc = "return" /\ update.kind = "failed"

ToolsOK ==
    /\ NoFailedToolReuse
    /\ pc \in {"head", "enter"} => Knows(saved)
    /\ InLoop /\ ~Failing => /\ Knows(memory)
                             /\ \A i \in 1 .. Len(callers) : Knows(callers[i])

(* The answers in a memory. *)
Answers(m) == {m.step_results[k] : k \in 1 .. Len(m.step_results)}

EvidenceOK ==
    /\ \A i \in 1 .. Len(plan) :
         plan[i].status = "done" =>
             [step_id |-> plan[i].step_id, result |-> plan[i].result] \in Answers(saved)
    /\ InLoop => Answers(saved) \subseteq Answers(memory)
    /\ \A i \in 1 .. Len(callers) : Answers(saved) \subseteq Answers(callers[i])
    /\ pc = "return" /\ update.kind = "done" =>
         [step_id |-> current_step_id, result |-> update.result] \in Answers(memory)
    /\ pc \in {"summarize", "finished"} =>
         \A i \in 1 .. Len(plan) : plan[i].status = "done"

VisitInv == RunInv /\ DepthOK /\ DecisionsOK /\ TraceOK /\ ToolsOK /\ EvidenceOK

----
(* A memory that a pass makes of another one. *)
Follows(m, n) ==
    /\ n.agent_depth = m.agent_depth
    /\ Answers(m) \subseteq Answers(n)
    /\ m.failed_tools \subseteq n.failed_tools

LEMMA FollowsTransitive ==
    ASSUME NEW l, NEW m, NEW n, Follows(l, m), Follows(m, n)
    PROVE  Follows(l, n)
BY DEF Follows

LEMMA MemoryFollows ==
    ASSUME NEW m \in Memories, NEW id \in StepIds, NEW no_finding \in {0, 1}
    PROVE  /\ Follows(m, m)
           /\ Follows(m, AppendLoopResult(m, Round(m)))
           /\ Follows(m, ResetReactResults(m)) /\ ResetReactResults(m).react_results = {}
           /\ Follows(m, UpdateNoFinding(m, id, no_finding))
           /\ UpdateNoFinding(m, id, no_finding).overthink_counts = m.overthink_counts
           /\ AppendLoopResult(m, Round(m)).overthink_counts = m.overthink_counts
           /\ Fresh(ResetReactResults(m))
           /\ Fresh(m) => /\ Fresh(AppendLoopResult(m, Round(m)))
                          /\ Fresh(UpdateNoFinding(m, id, no_finding))
<1> USE DEF Follows, Answers, Memories
<1>1. Follows(m, m)
  OBVIOUS
<1>2. Follows(m, AppendLoopResult(m, Round(m)))
  BY DEF AppendLoopResult
<1>3. Follows(m, ResetReactResults(m)) /\ ResetReactResults(m).react_results = {}
  BY DEF ResetReactResults
<1>4. /\ Follows(m, UpdateNoFinding(m, id, no_finding))
      /\ UpdateNoFinding(m, id, no_finding).overthink_counts = m.overthink_counts
  BY DEF UpdateNoFinding
<1>5. /\ AppendLoopResult(m, Round(m)).overthink_counts = m.overthink_counts
      /\ AppendLoopResult(m, Round(m)).react_results = m.react_results \cup {Round(m)}
  BY DEF AppendLoopResult
<1>6. UpdateNoFinding(m, id, no_finding).react_results = m.react_results
  BY DEF UpdateNoFinding
<1>7. Fresh(ResetReactResults(m))
  BY <1>3 DEF Fresh
<1>8. ASSUME Fresh(m)
      PROVE  Fresh(AppendLoopResult(m, Round(m))) /\ Fresh(UpdateNoFinding(m, id, no_finding))
  BY <1>4, <1>5, <1>6, <1>8 DEF Fresh, Round
<1> QED  BY <1>1, <1>2, <1>3, <1>4, <1>5, <1>7, <1>8

LEMMA OverthinkFollows ==
    ASSUME NEW m \in Memories, NEW id \in StepIds
    PROVE  /\ Follows(m, RecordOverthink(m, id))
           /\ RecordOverthink(m, id).overthink_counts[id] = m.overthink_counts[id] + 1
           /\ ResetReactResults(RecordOverthink(m, id)).overthink_counts[id]
                = m.overthink_counts[id] + 1
<1> DEFINE counts == [m.overthink_counts EXCEPT ![id] = @ + 1]
<1>1. counts[id] = m.overthink_counts[id] + 1
  BY DEF Memories
<1>2. RecordOverthink(m, id) = [m EXCEPT !.overthink_counts = counts]
  BY DEF RecordOverthink
<1> HIDE DEF counts
<1> QED  BY <1>1, <1>2 DEF Follows, Answers, Memories, ResetReactResults

LEMMA FailedToolFollows ==
    ASSUME NEW m \in Memories, NEW tool \in Tools
    PROVE  /\ Follows(m, RecordFailedTool(m, tool))
           /\ tool \in RecordFailedTool(m, tool).failed_tools
           /\ Fresh(m) => Fresh(RecordFailedTool(m, tool))
BY DEF Follows, Answers, Memories, RecordFailedTool, Fresh, Round

LEMMA AnswerFollows ==
    ASSUME NEW m \in Memories, NEW id \in StepIds, NEW answer \in Owners
    PROVE  LET n == ResetReactResults(AppendStepResult(m, id, answer))
           IN  /\ Follows(m, n) /\ n.react_results = {}
               /\ [step_id |-> id, result |-> answer] \in Answers(n)
<1> DEFINE entry == [step_id |-> id, result |-> answer]
           results == Append(m.step_results, entry)
           n == ResetReactResults(AppendStepResult(m, id, answer))
<1>1. /\ Len(results) = Len(m.step_results) + 1
      /\ \A k \in 1 .. Len(m.step_results) : results[k] = m.step_results[k]
      /\ results[Len(m.step_results) + 1] = entry
      /\ Len(m.step_results) \in Nat
  BY DEF Memories
<1>2. n = [m EXCEPT !.step_results = results, !.react_results = {}]
  BY DEF AppendStepResult, ResetReactResults
<1> HIDE DEF entry, results, n
<1>3. n.step_results = results /\ n.react_results = {} /\ n.agent_depth = m.agent_depth
      /\ n.failed_tools = m.failed_tools
  BY <1>2 DEF Memories
<1>4. Answers(m) \subseteq Answers(n) /\ entry \in Answers(n)
  BY <1>1, <1>3 DEF Answers
<1> QED  BY <1>3, <1>4 DEF Follows, entry, n

LEMMA SubagentFollows ==
    ASSUME NEW m \in Memories
    PROVE  /\ SubagentState(m).agent_depth = 1
           /\ SubagentState(m).react_results = m.react_results
           /\ SubagentState(m).failed_tools = m.failed_tools
           /\ SubagentState(m).overthink_counts = m.overthink_counts
           /\ Answers(SubagentState(m)) = Answers(m)
           /\ Fresh(m) => Fresh(SubagentState(m))
BY DEF SubagentState, Memories, Answers, Fresh, Round

LEMMA CountedFollows ==
    ASSUME RunInv, InVisit, NEW counted \in CountedMemories
    PROVE  /\ Follows(memory, counted) /\ counted.overthink_counts = memory.overthink_counts
           /\ Fresh(memory) => Fresh(counted)
<1>1. PICK no_finding \in {0, 1} :
        counted = UpdateNoFinding(memory, current_step_id, no_finding)
    BY DEF CountedMemories
<1>2. memory \in Memories
    BY DEF RunInv, TypeOK
<1> QED BY <1>1, <1>2, VisitFacts, MemoryFollows

----
(* The kinds of pass.  A tool that may be used leaves its mark unless it     *)
(* succeeds and had not failed before.                                       *)
ToolsTried ==
    \/ UNCHANGED tool_history
    \/ \E tool \in Tools \ memory.failed_tools :
         tool_history' = [tool_history EXCEPT ![tool] = IF @ = "clean" THEN @ ELSE "reused"]

ToolFailed(m) ==
    \E tool \in Tools \ memory.failed_tools :
      /\ tool_history' = [tool_history EXCEPT ![tool] = IF @ = "clean" THEN "raised" ELSE "reused"]
      /\ tool \in m.failed_tools

Overthinks == memory.overthink_counts[current_step_id]

Decides ==
    /\ pc = "loop" /\ turn_index < MAX_REACT_TURNS_PER_STEP
    /\ decisions' = decisions \/ decisions' = decisions + 1

GoesOn ==
    /\ Decides /\ pc' = "loop" /\ UNCHANGED <<callers, update>>
    /\ Follows(memory, memory') /\ ToolsTried
    /\ Fresh(memory) => Fresh(memory')
    /\ \/ turn_index' = turn_index + 1 /\ Overthinks' = Overthinks
       \/ turn_index' = 0 /\ Overthinks = 0 /\ Overthinks' = 1

Succeeds ==
    /\ Decides /\ pc' = "return" /\ UNCHANGED <<callers, tool_history>>
    /\ update'.kind \in {"done", "replan", "step_replan"}
    /\ Follows(memory, memory')
    /\ Fresh(memory) => Fresh(memory')
    /\ update'.kind = "done" =>
         /\ memory'.react_results = {}
         /\ [step_id |-> current_step_id, result |-> update'.result] \in Answers(memory')

Fails ==
    /\ Decides \/ (pc = "loop" /\ UNCHANGED decisions)
    /\ pc' = "return" /\ UNCHANGED callers
    /\ update'.kind = "failed"
    /\ memory' = StateMemory \/ Follows(memory, memory')
    /\ UNCHANGED tool_history \/ ToolFailed(memory')

StartsSubagent ==
    /\ Decides /\ pc' = "loop" /\ turn_index' = 0 /\ UNCHANGED update
    /\ memory.agent_depth < 1
    /\ \E m \in Memories : /\ Follows(memory, m) /\ m.overthink_counts = memory.overthink_counts
                           /\ callers' = Append(callers, m) /\ memory' = SubagentState(m)
                           /\ ToolFailed(m) /\ (Fresh(memory) => Fresh(m))

EndsSubagent ==
    /\ pc = "return" /\ pc' = "return" /\ InSubagent
    /\ callers' = SubSeq(callers, 1, Len(callers) - 1)
    /\ UNCHANGED <<decisions, tool_history>>
    /\ \/ update'.kind = "failed" /\ memory' \in {Caller, saved}
       \/ /\ update.kind # "failed" /\ update'.kind = "done"
          /\ Follows(Caller, memory') /\ memory'.react_results = {}
          /\ [step_id |-> current_step_id, result |-> update'.result] \in Answers(memory')

LEMMA PassKinds ==
    ASSUME RunInv, LoopTurn
    PROVE  GoesOn \/ Succeeds \/ Fails \/ StartsSubagent \/ EndsSubagent
<1>1. memory \in Memories /\ saved \in Memories /\ 
      /\ (InVisit => current_step_id \in StepIds /\ Owner \in Owners)
  BY VisitFacts DEF RunInv, TypeOK
<1>2. ASSUME TakeDecision PROVE Decides /\ InVisit
  BY <1>2 DEF TakeDecision, Decides, InVisit
<1>3. CASE DecisionRaises
  BY <1>2, <1>3 DEF DecisionRaises, Return, Failed, Fails
<1>4. CASE Overturning
  <2>1. /\ Follows(memory, memory) /\ Follows(memory, ResetReactResults(memory))
        /\ Fresh(ResetReactResults(memory))
    BY <1>1, <1>2, <1>4, MemoryFollows DEF Overturning
  <2> QED  BY <1>2, <1>4, <2>1 DEF Overturning, Return, Failed, Requested, Fails, Succeeds
<1>5. ASSUME NEW m \in Memories, Follows(memory, m), m.overthink_counts = memory.overthink_counts,
             TakeDecision, RestartStep(m), UNCHANGED <<Unmoved, callers, tool_history>>
      PROVE  GoesOn \/ Fails
  <2> DEFINE recorded == RecordOverthink(m, current_step_id)
  <2>1. /\ recorded \in Memories /\ Follows(m, recorded)
        /\ recorded.overthink_counts[current_step_id] = Overthinks + 1
    BY <1>1, <1>2, <1>5, OverthinkFollows, MemoryUpdates DEF Overthinks
  <2>2. /\ Follows(memory, recorded) /\ Follows(memory, ResetReactResults(recorded))
        /\ Fresh(ResetReactResults(recorded))
    BY <1>1, <1>2, <1>5, <2>1, MemoryFollows, FollowsTransitive
  <2>3. Overthinks \in Nat
    BY <1>1, <1>2, <1>5 DEF Overthinks, Memories
  <2>4. CASE recorded.overthink_counts[current_step_id] > 1
    BY <1>2, <1>5, <2>2, <2>4 DEF RestartStep, Return, Failed, Fails
  <2>5. CASE ~(recorded.overthink_counts[current_step_id] > 1)
    <3>1. /\ memory' = ResetReactResults(recorded)
          /\ turn_index' = 0 /\ UNCHANGED <<pc, update, callers, tool_history, current_step_id>>
      BY <1>5, <2>5 DEF RestartStep, Unmoved, cursor_vars
    <3>2. Overthinks' = recorded.overthink_counts[current_step_id]
      BY <1>1, <1>2, <1>5, <3>1, OverthinkFollows, <2>1 DEF Overthinks
    <3>3. Overthinks = 0 /\ Overthinks' = 1
      BY <2>1, <2>3, <2>5, <3>2
    <3> QED  BY <1>2, <1>5, <2>2, <3>1, <3>3 DEF GoesOn, Decides, ToolsTried
  <2> QED  BY <2>4, <2>5
<1>6. CASE Overthinking
  BY <1>1, <1>2, <1>5, <1>6, VisitFacts, MemoryFollows DEF Overthinking
<1>7. CASE FindingMissing
  <2> DEFINE counted == UpdateNoFinding(memory, current_step_id, 1)
  <2>1. counted \in Memories /\ Follows(memory, counted) /\ (Fresh(memory) => Fresh(counted))
    BY <1>1, <1>2, <1>7, MemoryFollows, MemoryUpdates DEF FindingMissing
  <2>2. /\ Follows(memory, AppendLoopResult(counted, Round(counted)))
        /\ Fresh(memory) => Fresh(AppendLoopResult(counted, Round(counted)))
    BY <1>1, <1>2, <1>7, <2>1, MemoryFollows, FollowsTransitive DEF FindingMissing
  <2> HIDE DEF counted
  <2>3. \/ Return(Failed("step_replan_twice"), counted)
        \/ Return(Requested("step_replan"), AppendLoopResult(counted, Round(counted)))
    BY <1>7 DEF FindingMissing, counted
  <2>4. Decides /\ UNCHANGED <<callers, tool_history>>
    BY <1>2, <1>7 DEF FindingMissing
  <2> QED  BY <2>1, <2>2, <2>3, <2>4 DEF Return, Failed, Requested, Fails, Succeeds
<1>8. CASE Think
  <2>1. PICK counted \in CountedMemories :
          IF consecutive_think_count + 1 >= THINK_LIMIT
          THEN RestartStep(counted)
          ELSE NextTurn(AppendLoopResult(counted, Round(counted)))
    BY <1>8 DEF Think
  <2>2. /\ counted \in Memories /\ Follows(memory, counted)
        /\ counted.overthink_counts = memory.overthink_counts
        /\ Fresh(memory) => Fresh(counted)
    BY <1>2, <1>8, CountedTypes, CountedFollows DEF Think
  <2>3. CASE RestartStep(counted)
    BY <1>5, <1>8, <2>2, <2>3 DEF Think
  <2>4. CASE NextTurn(AppendLoopResult(counted, Round(counted)))
    <3>1. /\ Follows(memory, AppendLoopResult(counted, Round(counted)))
          /\ AppendLoopResult(counted, Round(counted)).overthink_counts = memory.overthink_counts
          /\ Fresh(memory) => Fresh(AppendLoopResult(counted, Round(counted)))
      BY <1>1, <1>2, <1>8, <2>2, MemoryFollows, FollowsTransitive DEF Think
    <3> QED  BY <1>2, <1>8, <2>4, <3>1
             DEF Think, NextTurn, GoesOn, Decides, ToolsTried, Overthinks, Unmoved, cursor_vars
  <2> QED  BY <2>1, <2>3, <2>4
<1>9. CASE ToolSucceeds
  <2>1. PICK tool \in Tools, counted \in CountedMemories :
          /\ Usable(tool)
          /\ NextTurn(AppendLoopResult(counted, Round(counted)))
          /\ tool_history' = [tool_history EXCEPT ![tool] = IF @ = "clean" THEN @ ELSE "reused"]
    BY <1>9 DEF ToolSucceeds
  <2>2. /\ counted \in Memories /\ Follows(memory, counted)
        /\ counted.overthink_counts = memory.overthink_counts
        /\ Fresh(memory) => Fresh(counted)
    BY <1>2, <1>9, CountedTypes, CountedFollows DEF ToolSucceeds
  <2>3. /\ Follows(memory, AppendLoopResult(counted, Round(counted)))
        /\ AppendLoopResult(counted, Round(counted)).overthink_counts = memory.overthink_counts
        /\ Fresh(memory) => Fresh(AppendLoopResult(counted, Round(counted)))
    BY <1>1, <1>2, <1>9, <2>2, MemoryFollows, FollowsTransitive DEF ToolSucceeds
  <2>4. ToolsTried
    BY <2>1 DEF Usable, ToolsTried
  <2> QED  BY <1>2, <1>9, <2>1, <2>3, <2>4
           DEF ToolSucceeds, NextTurn, GoesOn, Decides, Overthinks, Unmoved, cursor_vars
<1>10. CASE ToolRaises
  <2>1. PICK tool \in Tools, counted \in CountedMemories :
          LET recorded == RecordFailedTool(AppendLoopResult(counted, Round(counted)), tool)
          IN  /\ Usable(tool)
              /\ IF memory.agent_depth >= 1
                 THEN /\ Return(Failed("subagent_tool_error"), recorded)
                      /\ UNCHANGED <<callers, turn_index>>
                 ELSE /\ callers' = Append(callers, recorded)
                      /\ memory' = SubagentState(recorded)
                      /\ turn_index' = 0
                      /\ UNCHANGED <<pc, update>>
              /\ tool_history' = [tool_history EXCEPT ![tool] =
                                    IF @ = "clean" THEN "raised" ELSE "reused"]
    BY <1>10 DEF ToolRaises
  <2> DEFINE appended == AppendLoopResult(counted, Round(counted))
             recorded == RecordFailedTool(appended, tool)
  <2>2. /\ counted \in Memories /\ Follows(memory, counted)
        /\ counted.overthink_counts = memory.overthink_counts
        /\ Fresh(memory) => Fresh(counted)
    BY <1>2, <1>10, CountedTypes, CountedFollows DEF ToolRaises
  <2>3. /\ appended \in Memories /\ Follows(memory, appended)
        /\ appended.overthink_counts = memory.overthink_counts
        /\ Fresh(memory) => Fresh(appended)
    BY <1>1, <1>2, <1>10, <2>2, VisitFacts, MemoryFollows, MemoryUpdates,
       FollowsTransitive DEF ToolRaises
  <2>4. /\ recorded \in Memories /\ Follows(memory, recorded) /\ tool \in recorded.failed_tools
        /\ Fresh(memory) => Fresh(recorded)
    BY <2>3, FailedToolRecorded, FailedToolFollows, FollowsTransitive
  <2>5. recorded.overthink_counts = memory.overthink_counts
    BY <2>3 DEF RecordFailedTool, Memories
  <2>6. ToolFailed(recorded)
    BY <2>1, <2>4 DEF Usable, ToolFailed
  <2> HIDE DEF recorded
  <2>7. Decides
    BY <1>2, <1>10 DEF ToolRaises
  <2>8. CASE memory.agent_depth >= 1
    BY <2>1, <2>4, <2>6, <2>7, <2>8 DEF Return, Failed, Fails, recorded
  <2>9. CASE ~(memory.agent_depth >= 1)
    <3>1. memory.agent_depth < 1
      BY <1>1, <2>9 DEF Memories
    <3>2. /\ callers' = Append(callers, recorded) /\ memory' = SubagentState(recorded)
          /\ turn_index' = 0 /\ UNCHANGED <<pc, update>>
      BY <2>1, <2>9 DEF recorded
    <3> QED  BY <2>4, <2>5, <2>6, <2>7, <3>1, <3>2 DEF StartsSubagent, Decides
  <2> QED  BY <2>8, <2>9
<1>11. CASE Finish
  <2>1. PICK counted \in CountedMemories :
          Return(Answered(Owner),
                 ResetReactResults(AppendStepResult(counted, current_step_id, Owner)))
    BY <1>11 DEF Finish
  <2>2. counted \in Memories /\ Follows(memory, counted)
    BY <1>2, <1>11, CountedTypes, CountedFollows DEF Finish
  <2> DEFINE n == ResetReactResults(AppendStepResult(counted, current_step_id, Owner))
  <2>3. /\ Follows(counted, n) /\ n.react_results = {}
        /\ [step_id |-> current_step_id, result |-> Owner] \in Answers(n)
    BY <1>1, <1>2, <1>11, <2>2, AnswerFollows DEF Finish
  <2> HIDE DEF n
  <2>4. Follows(memory, n)
    BY <2>2, <2>3, FollowsTransitive
  <2>5. memory' = n /\ update' = Answered(Owner) /\ pc' = "return"
    BY <2>1 DEF Return, n
  <2>6. Decides /\ UNCHANGED <<callers, tool_history>>
    BY <1>2, <1>11 DEF Finish
  <2> QED  BY <2>3, <2>4, <2>5, <2>6 DEF Answered, Succeeds, Fresh
<1>12. CASE TurnsExhausted
  BY <1>12 DEF TurnsExhausted, Return, Failed, Fails, history_vars
<1>13. CASE SubagentFailed
  BY <1>13 DEF SubagentFailed, SubagentReturned, Return, Failed, EndsSubagent, history_vars
<1>14. CASE SubagentUseless
  BY <1>14 DEF SubagentUseless, SubagentReturned, Return, Failed, EndsSubagent, history_vars
<1>15. CASE SubagentAnswered
  <2>1. PICK last \in AnswersFor(current_step_id) :
          Return(Answered(memory.step_results[last].result),
                 ResetReactResults(AppendStepResult(Caller, current_step_id,
                                                    memory.step_results[last].result)))
    BY <1>15 DEF SubagentAnswered
  <2> DEFINE answer == memory.step_results[last].result
             n == ResetReactResults(AppendStepResult(Caller, current_step_id, answer))
  <2>2. answer \in Owners
    <3>1. last \in 1 .. Len(memory.step_results) /\ memory.step_results \in Seq(StepResults)
      BY <1>1 DEF AnswersFor, Memories
    <3>2. memory.step_results[last] \in StepResults
      BY <3>1
    <3> QED  BY <3>2 DEF StepResults
  <2>3. InSubagent /\ InVisit /\ Caller \in Memories
    BY <1>15, CallerIsMemory DEF SubagentAnswered, SubagentReturned, InVisit
  <2> HIDE DEF answer
  <2>4. /\ Follows(Caller, n) /\ n.react_results = {}
        /\ [step_id |-> current_step_id, result |-> answer] \in Answers(n)
    BY <1>1, <2>2, <2>3, AnswerFollows
  <2> HIDE DEF n
  <2>5. memory' = n /\ update' = Answered(answer) /\ pc' = "return"
    BY <2>1 DEF Return, n, answer
  <2>6. /\ pc = "return" /\ callers' = SubSeq(callers, 1, Len(callers) - 1)
        /\ UNCHANGED <<decisions, tool_history>> /\ update.kind # "failed"
    BY <1>15 DEF SubagentAnswered, SubagentReturned, history_vars
  <2> QED  BY <2>3, <2>4, <2>5, <2>6 DEF Answered, EndsSubagent
<1> QED  BY <1>3, <1>4, <1>6, <1>7, <1>8, <1>9, <1>10, <1>11, <1>12, <1>13, <1>14, <1>15
         DEF LoopTurn
----
(* The kinds of the runner's own steps.                                      *)
MakesPlan ==
    /\ pc = "head" /\ UNCHANGED <<pc, callers, tool_history, decisions>>
    /\ saved'.react_results = {} /\ saved'.agent_depth = saved.agent_depth
    /\ saved'.failed_tools = saved.failed_tools
    /\ saved'.step_results = saved.step_results
    /\ \A i \in 1 .. Len(plan') :
          plan'[i].status = "done" => i \in 1 .. Len(plan) /\ plan'[i] = plan[i]

Quiet == UNCHANGED <<plan, plan_revision, planner_mode, saved, memory, callers, update,
                     turn_index, decisions, tool_history>>

Moves ==
    /\ Quiet
    /\ \/ UNCHANGED <<pc, cursor_vars>>
       \/ callers = <<>> /\ pc' = "failed"
       \/ pc = "head" /\ planner_mode = "initial" /\ callers = <<>> /\ pc' = "enter"
       \/ /\ pc = "head" /\ callers = <<>> /\ pc' = "summarize"
          /\ \A i \in 1 .. Len(plan) : plan[i].status = "done"
       \/ pc = "summarize" /\ callers = <<>> /\ pc' = "finished"

EntersLoop ==
    /\ pc = "enter" /\ pc' = "loop" /\ callers = <<>>
    /\ memory' = saved /\ turn_index' = 0 /\ decisions' = 0
    /\ UNCHANGED <<plan, plan_revision, planner_mode, cursor_vars, saved, callers, update,
                   tool_history>>

Merges ==
    /\ pc = "return" /\ callers = <<>> /\ UNCHANGED <<callers, tool_history>> /\ decisions' = 0
    /\ planner_mode = "initial"
    /\ \/ /\ pc' = "head" /\ update.kind \in {"done", "replan", "step_replan"}
          /\ saved' = memory
          /\ update.kind # "done" => planner_mode' # "initial" /\ UNCHANGED plan
          /\ update.kind = "done" =>
               \A i \in 1 .. Len(plan') :
                  \/ i \in 1 .. Len(plan) /\ plan'[i] = plan[i]
                  \/ plan'[i].step_id = current_step_id /\ plan'[i].result = update.result
       \/ pc' = "failed" /\ UNCHANGED plan /\ saved' = FailedFields(saved, memory)

LEMMA RunnerKinds ==
    ASSUME RunInv, [Next]_vars, ~LoopTurn
    PROVE  MakesPlan \/ Moves \/ EntersLoop \/ Merges
<1> USE DEF Quiet, Moves, planner_vars, cursor_vars, loop_vars, history_vars, runner_vars
<1>a. callers # <<>> => pc \in {"loop", "return"}
  BY DEF RunInv, ControlOK
<1>1. CASE PlannerNode
  <2>1. \A i \in 1 .. Len(plan') :
          plan'[i].status = "done" => i \in 1 .. Len(plan) /\ plan'[i] = plan[i]
    BY <1>1, NewPlan DEF RunInv, TypeOK
  <2>2. /\ saved'.react_results = {} /\ saved'.agent_depth = saved.agent_depth
        /\ saved'.failed_tools = saved.failed_tools
        /\ saved'.step_results = saved.step_results
    BY <1>1 DEF PlannerNode, RunInv, TypeOK, Memories
  <2>3. pc = "head" /\ UNCHANGED <<pc, callers, tool_history, decisions>>
    BY <1>1 DEF PlannerNode
  <2> QED  BY <2>1, <2>2, <2>3 DEF MakesPlan
<1>2. CASE PlannerFailed
  BY <1>a, <1>2 DEF PlannerFailed
<1>3. CASE SelectNextStep
  BY <1>a, <1>3 DEF SelectNextStep, ShouldPlan, RunInv, TypeOK
<1>4. CASE SelectFinish
  <2>1. \A i \in 1 .. Len(plan) : plan[i].status = "done"
    <3>1. \A i \in 1 .. Len(plan) : plan[i] \in PlanSteps
      BY DEF RunInv, TypeOK
    <3> QED  BY <1>4, <3>1 DEF SelectFinish, Pending, PlanSteps
  <2> QED  BY <1>a, <1>4, <2>1 DEF SelectFinish
<1>5. CASE AgentLoopNode
  <2>1. CursorMatchesPlan
    BY <1>5 DEF AgentLoopNode, RunInv, StepsDoneInOrder, InVisit
  <2> QED  BY <1>a, <1>5, <2>1 DEF AgentLoopNode, EntersLoop, Unmoved
<1>6. CASE MergeStepDone \/ MergeReplan \/ MergeStepReplan \/ MergeFailed
  <2>1. /\ pc = "return" /\ callers = <<>> /\ UNCHANGED <<callers, tool_history>>
        /\ decisions' = 0 /\ planner_mode = "initial"
    BY <1>6 DEF MergeStepDone, MergeReplan, MergeStepReplan, MergeFailed, NodeReturned, InSubagent,
                RunInv, ControlOK, InVisit
  <2>2. CASE MergeStepDone
    <3>1. /\ current_step_index + 1 \in 1 .. Len(plan)
          /\ plan[current_step_index + 1].step_id = current_step_id
      BY <2>1, VisitFacts DEF RunInv, StepsDoneInOrder, InVisit, CursorMatchesPlan
    <3>2. plan[current_step_index + 1] \in PlanSteps
      BY <3>1 DEF RunInv, TypeOK
    <3>3. plan' = [plan EXCEPT ![current_step_index + 1] =
                     [@ EXCEPT !.status = "done", !.result = update.result]]
      BY <2>2 DEF MergeStepDone
    <3>4. \A i \in 1 .. Len(plan') :
            \/ i \in 1 .. Len(plan) /\ plan'[i] = plan[i]
            \/ plan'[i].step_id = current_step_id /\ plan'[i].result = update.result
      BY <3>1, <3>2, <3>3 DEF RunInv, TypeOK, PlanSteps
    <3> QED  BY <2>1, <2>2, <3>4 DEF MergeStepDone, Merges
  <2>3. CASE MergeReplan \/ MergeStepReplan
    BY <2>1, <2>3 DEF MergeReplan, MergeStepReplan, Merges
  <2>4. CASE MergeFailed
    BY <2>1, <2>4 DEF MergeFailed, Merges
  <2> QED  BY <1>6, <2>2, <2>3, <2>4
<1>7. CASE IterationLimit \/ SummarizeRaises
  BY <1>a, <1>7 DEF IterationLimit, SummarizeRaises
<1>8. CASE Summarize
  BY <1>a, <1>8 DEF Summarize
<1>9. CASE HandlerRaises
  BY <1>a, <1>9 DEF HandlerRaises, InSubagent
<1>10. CASE Over \/ UNCHANGED vars
  BY <1>10 DEF Over, vars
<1> QED  BY <1>1, <1>2, <1>3, <1>4, <1>5, <1>6, <1>7, <1>8, <1>9, <1>10 DEF Next

----
(* What a pass leaves alone, and what is known of the memories it works on.  *)
LEMMA PassFacts ==
    ASSUME RunInv, LoopTurn
    PROVE  /\ InVisit /\ InVisit' /\ InLoop /\ InLoop' /\ current_step_id \in StepIds
           /\ UNCHANGED <<Owner, saved, plan, planner_mode, current_step_id>>
           /\ UNCHANGED <<plan_revision, current_step_index>>
           /\ memory \in Memories /\ memory' \in Memories /\ saved \in Memories
           /\ callers \in Seq(Memories)
           /\ InSubagent => Caller \in Memories
<1>1. TurnOK' /\ InVisit /\ UNCHANGED Unmoved
  BY LoopTurnOK
<1>2. /\ UNCHANGED <<Owner, saved, plan, planner_mode, current_step_id>>
      /\ UNCHANGED <<plan_revision, current_step_index>>
  BY <1>1 DEF Unmoved, planner_vars, cursor_vars, Owner
<1>3. InVisit' /\ InLoop' /\ memory' \in Memories
  BY <1>1 DEF TurnOK, InVisit, InLoop
<1>4. InLoop
  BY PassKinds DEF GoesOn, Succeeds, Fails, StartsSubagent, EndsSubagent, Decides, InLoop
<1> QED  BY <1>1, <1>2, <1>3, <1>4, VisitFacts, CallerIsMemory DEF RunInv, TypeOK

LEMMA OneCaller ==
    ASSUME RunInv, DepthOK
    PROVE  /\ InSubagent => Len(callers) = 1 /\ Caller = callers[1]
           /\ ~InSubagent => Len(callers) = 0
<1>1. callers \in Seq(Memories)
  BY DEF RunInv, TypeOK
<1>2. Len(callers) \in Nat /\ (callers = <<>> <=> Len(callers) = 0)
  BY <1>1, EmptySeq
<1>3. Len(callers) <= 1
  BY DEF DepthOK
<1> QED  BY <1>2, <1>3 DEF InSubagent, Caller

(* The runner is not in the loop when it takes a step of its own, but at its *)
(* start and its end.                                                        *)
LEMMA DepthKept ==
    ASSUME RunInv, DepthOK, [Next]_vars
    PROVE  DepthOK'
<1> USE DEF DepthOK, InLoop
<1>1. /\ memory \in Memories /\ saved \in Memories /\ callers \in Seq(Memories)
      /\ memory' \in Memories /\ saved' \in Memories
  BY NextRunInv DEF RunInv, TypeOK
<1>2. CASE LoopTurn
  <2> USE PassFacts, <1>2
  <2>1. CASE GoesOn \/ Succeeds
    BY <2>1 DEF GoesOn, Succeeds, Decides, Follows
  <2>2. CASE Fails
    <3>1. StateMemory.agent_depth = Len(callers)
      BY <1>1, OneCaller, SubagentFollows DEF StateMemory
    <3> QED  BY <2>2, <3>1 DEF Fails, Follows
  <2>3. CASE StartsSubagent
    <3>1. PICK m \in Memories :
            Follows(memory, m) /\ callers' = Append(callers, m) /\ memory' = SubagentState(m)
      BY <2>3 DEF StartsSubagent
    <3>2. Len(callers) = 0 /\ memory.agent_depth = 0
      <4>1. memory.agent_depth = Len(callers) /\ memory.agent_depth < 1
        BY <2>3 DEF StartsSubagent, Decides
      <4> QED  BY <4>1, OneCaller
    <3>3. callers' = <<m>>
      BY <1>1, <3>1, <3>2
    <3> QED  BY <3>1, <3>2, <3>3, SubagentFollows DEF Follows
  <2>4. CASE EndsSubagent
    <3>1. Len(callers) = 1 /\ Caller = callers[1]
      BY <2>4, OneCaller DEF EndsSubagent
    <3>2. callers' = <<>>
      BY <1>1, <2>4, <3>1 DEF EndsSubagent
    <3> QED  BY <2>4, <3>1, <3>2 DEF EndsSubagent, Follows
  <2> QED  BY <2>1, <2>2, <2>3, <2>4, PassKinds
<1>3. CASE ~LoopTurn
  <2>1. CASE MakesPlan
    BY <2>1 DEF MakesPlan
  <2>2. CASE Moves
    BY <2>2 DEF Moves, Quiet
  <2>3. CASE EntersLoop
    BY <2>3 DEF EntersLoop
  <2>4. CASE Merges
    BY <1>1, <2>4 DEF Merges, FailedFields, Memories
  <2> QED  BY <1>3, <2>1, <2>2, <2>3, <2>4, RunnerKinds
<1> QED  BY <1>2, <1>3

(* A pass takes one decision, and starts the count of turns anew only when   *)
(* it restarts the step, once, or hands it to the subagent, once.            *)
LEMMA DecisionsKept ==
    ASSUME RunInv, DepthOK, DecisionsOK, [Next]_vars
    PROVE  DecisionsOK'
<1> USE LimitsAssumption DEF DecisionsOK, DecisionBound
<1>1. /\ decisions \in Nat /\ turn_index \in 0 .. MAX_REACT_TURNS_PER_STEP
      /\ decisions' \in Nat /\ turn_index' \in 0 .. MAX_REACT_TURNS_PER_STEP
      /\ callers \in Seq(Memories) /\ memory \in Memories
  BY NextRunInv DEF RunInv, TypeOK, DECISION_CAP
<1>2. CASE LoopTurn
  <2>1. pc = "loop" =>
          decisions <= turn_index + (IF Overthinks = 0 THEN 0 ELSE MAX_REACT_TURNS_PER_STEP)
                         + (IF InSubagent THEN MAX_REACT_TURNS_PER_STEP ELSE 0)
    BY DEF Overthinks
  <2>2. CASE GoesOn
    <3>1. UNCHANGED InSubagent
      BY <2>2 DEF GoesOn, InSubagent
    <3>2. CASE turn_index' = turn_index + 1 /\ Overthinks' = Overthinks
      BY <1>1, <2>1, <2>2, <3>1, <3>2 DEF GoesOn, Decides, Overthinks
    <3>3. CASE turn_index' = 0 /\ Overthinks = 0 /\ Overthinks' = 1
      BY <1>1, <2>1, <2>2, <3>1, <3>3 DEF GoesOn, Decides, Overthinks
    <3> QED  BY <2>2, <3>2, <3>3 DEF GoesOn
  <2>3. CASE Succeeds \/ Fails
    <3>1. decisions' <= 3 * MAX_REACT_TURNS_PER_STEP
      BY <1>1, <2>1, <2>3 DEF Succeeds, Fails, Decides
    <3> QED  BY <2>3, <3>1 DEF Succeeds, Fails
  <2>4. CASE StartsSubagent
    <3>1. PICK m \in Memories : /\ m.overthink_counts = memory.overthink_counts
                                /\ memory' = SubagentState(m)
      BY <2>4 DEF StartsSubagent
    <3>2. Overthinks' = Overthinks
      BY <1>2, <3>1, SubagentFollows, PassFacts DEF Overthinks
    <3>3. ~InSubagent
      <4>1. memory.agent_depth = Len(callers) /\ memory.agent_depth < 1
        BY <2>4 DEF StartsSubagent, Decides, DepthOK, InLoop
      <4> QED  BY <4>1, OneCaller
    <3>4. InSubagent'
      BY <1>1, <2>4 DEF StartsSubagent, InSubagent
    <3>5. decisions' <= MAX_REACT_TURNS_PER_STEP
                        + (IF Overthinks = 0 THEN 0 ELSE MAX_REACT_TURNS_PER_STEP)
      BY <1>1, <2>1, <2>4, <3>3 DEF StartsSubagent, Decides
    <3> HIDE DEF DecisionsOK
    <3>6. DecisionBound'
      BY <1>1, <3>5 DEF DecisionBound
    <3> QED  BY <1>1, <2>4, <3>2, <3>4, <3>5, <3>6 DEF StartsSubagent, DecisionsOK, Overthinks
  <2>5. CASE EndsSubagent
    BY <2>5 DEF EndsSubagent
  <2> QED  BY <1>2, <2>2, <2>3, <2>4, <2>5, PassKinds
<1>3. CASE ~LoopTurn
  <2>1. CASE MakesPlan
    BY <2>1 DEF MakesPlan
  <2>2. CASE Moves
    BY <2>2 DEF Moves, Quiet, InSubagent, cursor_vars
  <2>3. CASE EntersLoop
    BY <2>3 DEF EntersLoop
  <2>4. CASE Merges
    BY <2>4 DEF Merges
  <2> QED  BY <1>3, <2>1, <2>2, <2>3, <2>4, RunnerKinds
<1> QED  BY <1>2, <1>3

(* Who replans drops the trace of the plan that is replaced, and a step that *)
(* is done leaves none to the next one.                                      *)
LEMMA TraceKept ==
    ASSUME RunInv, DepthOK, TraceOK, [Next]_vars
    PROVE  TraceOK'
<1> USE DEF TraceOK, InLoop
<1>1. callers \in Seq(Memories) /\ callers' \in Seq(Memories)
  BY NextRunInv DEF RunInv, TypeOK
<1>2. CASE LoopTurn
  <2>1. /\ saved.react_results = {} /\ saved'.react_results = {}
        /\ UNCHANGED <<plan_revision, current_step_index, current_step_id>>
    BY <1>2, PassFacts
  <2>2. Fresh(memory') => Fresh(memory)'
    BY <2>1 DEF Fresh, Round
  <2>3. CASE GoesOn \/ Succeeds \/ Fails
    <3>1. callers' = callers
      BY <2>3 DEF GoesOn, Succeeds, Fails
    <3>2. pc' = "loop" \/ (pc' = "return" /\ update'.kind # "failed") => Fresh(memory')
      BY <2>3 DEF GoesOn, Succeeds, Fails, Decides
    <3>3. pc' = "return" /\ update'.kind = "done" => memory'.react_results = {}
      BY <2>3 DEF GoesOn, Succeeds, Fails
    <3>4. \A i \in 1 .. Len(callers') : Fresh(callers[i])'
      BY <2>1, <3>1 DEF Fresh, Round
    <3> QED  BY <2>1, <2>2, <3>2, <3>3, <3>4
  <2>4. CASE StartsSubagent
    <3>1. PICK m \in Memories :
            /\ Fresh(memory) => Fresh(m)
            /\ callers' = Append(callers, m) /\ memory' = SubagentState(m)
      BY <2>4 DEF StartsSubagent
    <3>2. Fresh(m) /\ Fresh(memory')
      BY <2>4, <3>1, SubagentFollows DEF StartsSubagent, Decides
    <3>3. \A i \in 1 .. Len(callers') : Fresh(callers'[i])
      BY <1>1, <3>1, <3>2
    <3>4. \A i \in 1 .. Len(callers') : Fresh(callers[i])'
      BY <2>1, <3>3 DEF Fresh, Round
    <3> QED  BY <2>1, <2>2, <2>4, <3>2, <3>4 DEF StartsSubagent
  <2>5. CASE EndsSubagent
    <3>1. Len(callers') = 0
      BY <1>1, <2>5, OneCaller DEF EndsSubagent
    <3>2. update'.kind # "failed" => update'.kind = "done" /\ memory'.react_results = {}
      BY <2>5 DEF EndsSubagent
    <3>3. update'.kind # "failed" => Fresh(memory')
      BY <3>2 DEF Fresh
    <3>4. update'.kind = "done" => memory'.react_results = {}
      BY <2>5 DEF EndsSubagent
    <3> QED  BY <2>1, <2>2, <2>5, <3>1, <3>3, <3>4 DEF EndsSubagent
  <2> QED  BY <1>2, <2>3, <2>4, <2>5, PassKinds
<1>3. CASE ~LoopTurn
  <2>1. CASE MakesPlan
    <3>1. callers' = <<>>
      BY <2>1 DEF MakesPlan, RunInv, ControlOK
    <3> QED  BY <2>1, <3>1 DEF MakesPlan
  <2>2. CASE Moves
    <3>1. saved' = saved /\ memory' = memory /\ callers' = callers /\ update' = update
          /\ planner_mode' = planner_mode
      BY <2>2 DEF Moves, Quiet
    <3>2. CASE UNCHANGED <<pc, cursor_vars>>
      BY <2>2, <3>1, <3>2 DEF Moves, Quiet, InVisit, cursor_vars, Fresh, Round
    <3>3. CASE ~UNCHANGED <<pc, cursor_vars>>
      BY <2>2, <3>1, <3>3 DEF Moves, InVisit
    <3> QED  BY <3>2, <3>3
  <2>3. CASE EntersLoop
    BY <2>3 DEF EntersLoop, InVisit, Fresh
  <2>4. CASE Merges
    BY <2>4 DEF Merges, InVisit
  <2> QED  BY <1>3, <2>1, <2>2, <2>3, <2>4, RunnerKinds
<1> QED  BY <1>2, <1>3

(* A memory that knows the failed tools makes the loop refuse them, so that  *)
(* what is executed was clean.                                               *)
LEMMA ToolsKept ==
    ASSUME RunInv, DepthOK, ToolsOK, [Next]_vars
    PROVE  ToolsOK'
<1> USE DEF ToolsOK, InLoop, Failing, NoFailedToolReuse, Knows
<1>1. callers \in Seq(Memories) /\ callers' \in Seq(Memories) /\ saved \in Memories
      /\ tool_history \in [Tools -> {"clean", "raised", "reused"}]
  BY NextRunInv DEF RunInv, TypeOK
<1>2. CASE LoopTurn
  <2>1. InSubagent /\ ~Failing => Knows(Caller)
    BY <1>2, PassFacts, OneCaller
  <2>2. InLoop' /\ saved' = saved
    BY <1>2, PassFacts
  <2>3. CASE GoesOn
    <3>1. Knows(memory) /\ pc' = "loop" /\ callers' = callers
          /\ memory.failed_tools \subseteq memory'.failed_tools
          /\ \A i \in 1 .. Len(callers) : Knows(callers[i])
      BY <2>3 DEF GoesOn, Decides, Follows
    <3>2. tool_history' = tool_history
      <4>1. CASE ~UNCHANGED tool_history
        <5>1. PICK tool \in Tools \ memory.failed_tools :
                tool_history' = [tool_history EXCEPT ![tool] = IF @ = "clean" THEN @ ELSE "reused"]
          BY <2>3, <4>1 DEF GoesOn, ToolsTried
        <5>2. tool_history[tool] = "clean"
          BY <3>1
        <5> QED  BY <1>1, <5>1, <5>2
      <4> QED  BY <4>1
    <3> QED  BY <3>1, <3>2
  <2>4. CASE Succeeds
    <3>1. Knows(memory) /\ callers' = callers /\ tool_history' = tool_history
          /\ memory.failed_tools \subseteq memory'.failed_tools
          /\ \A i \in 1 .. Len(callers) : Knows(callers[i])
      BY <2>4 DEF Succeeds, Decides, Follows
    <3> QED  BY <2>4, <3>1 DEF Succeeds
  <2>5. ASSUME NEW m, ToolFailed(m), pc = "loop", memory.failed_tools \subseteq m.failed_tools
        PROVE  /\ NoFailedToolReuse'
               /\ \A tool \in Tools : tool_history'[tool] # "clean" => tool \in m.failed_tools
    <3>1. PICK tool \in Tools \ memory.failed_tools :
            /\ tool_history' = [tool_history EXCEPT ![tool] =
                                  IF @ = "clean" THEN "raised" ELSE "reused"]
            /\ tool \in m.failed_tools
      BY <2>5 DEF ToolFailed
    <3>2. tool_history[tool] = "clean" /\ Knows(memory)
      BY <2>5, <3>1
    <3>3. tool_history' = [tool_history EXCEPT ![tool] = "raised"]
      BY <1>1, <3>1, <3>2
    <3> QED  BY <1>1, <2>5, <3>1, <3>2, <3>3
  <2>6. CASE Fails
    <3>1. pc' = "return" /\ update'.kind = "failed" /\ pc = "loop"
      BY <2>6 DEF Fails, Decides
    <3>2. CASE UNCHANGED tool_history
      BY <2>2, <3>1, <3>2
    <3>3. CASE ToolFailed(memory')
      <4>1. PICK tool \in Tools \ memory.failed_tools :
              tool_history' = [tool_history EXCEPT ![tool] =
                                 IF @ = "clean" THEN "raised" ELSE "reused"]
        BY <3>3 DEF ToolFailed
      <4>2. tool_history[tool] = "clean"
        BY <3>1, <4>1
      <4>3. NoFailedToolReuse'
        BY <1>1, <4>1, <4>2
      <4> QED  BY <3>1, <4>3
    <3> QED  BY <2>6, <3>2, <3>3 DEF Fails
  <2>7. CASE StartsSubagent
    <3>1. PICK m \in Memories : /\ Follows(memory, m) /\ callers' = Append(callers, m)
                                /\ memory' = SubagentState(m) /\ ToolFailed(m)
      BY <2>7 DEF StartsSubagent
    <3>2. pc = "loop" /\ pc' = "loop" /\ memory.failed_tools \subseteq m.failed_tools
      BY <2>7, <3>1 DEF StartsSubagent, Decides, Follows
    <3>3. Len(callers) = 0
      BY <2>7, OneCaller DEF StartsSubagent, Decides, DepthOK
    <3>4. Len(callers') = 1 /\ callers'[1] = m
      BY <1>1, <3>1, <3>3
    <3>5. memory'.failed_tools = m.failed_tools
      BY <3>1, SubagentFollows
    <3> QED  BY <2>5, <3>1, <3>2, <3>4, <3>5
  <2>8. CASE EndsSubagent
    <3>1. Len(callers') = 0 /\ tool_history' = tool_history /\ pc = "return" /\ pc' = "return"
      BY <1>1, <2>8, OneCaller DEF EndsSubagent
    <3>2. CASE update'.kind = "failed"
      BY <3>1, <3>2
    <3>3. CASE update'.kind # "failed"
      <4>1. Knows(Caller) /\ Caller.failed_tools \subseteq memory'.failed_tools
        BY <2>1, <2>8, <3>3 DEF EndsSubagent, Follows
      <4> QED  BY <3>1, <4>1
    <3> QED  BY <3>2, <3>3
  <2> QED  BY <1>2, <2>3, <2>4, <2>6, <2>7, <2>8, PassKinds
<1>3. CASE ~LoopTurn
  <2>1. CASE MakesPlan
    BY <2>1 DEF MakesPlan
  <2>2. CASE Moves
    BY <2>2 DEF Moves, Quiet, cursor_vars
  <2>3. CASE EntersLoop
    BY <2>3 DEF EntersLoop
  <2>4. CASE Merges
    BY <2>4 DEF Merges
  <2> QED  BY <1>3, <2>1, <2>2, <2>3, <2>4, RunnerKinds
<1> QED  BY <1>2, <1>3

(* Results are only ever added to a memory, so that whichever memory becomes *)
(* the saved one holds the results of the steps that were done before, and   *)
(* of the step it is merged for.                                             *)
LEMMA EvidenceKept ==
    ASSUME RunInv, DepthOK, EvidenceOK, [Next]_vars
    PROVE  EvidenceOK'
<1> DEFINE Evidence(i, m) == [step_id |-> plan[i].step_id, result |-> plan[i].result] \in Answers(m)
<1> USE DEF InLoop
<1>1. callers \in Seq(Memories) /\ callers' \in Seq(Memories) /\ saved \in Memories
  BY NextRunInv DEF RunInv, TypeOK
<1>2. \A i \in 1 .. Len(plan) : plan[i].status = "done" => Evidence(i, saved)
  BY DEF EvidenceOK
<1>3. CASE LoopTurn
  <2>1. InLoop' /\ saved' = saved /\ plan' = plan /\ current_step_id' = current_step_id
        /\ Answers(saved) \subseteq Answers(memory)
    BY <1>3, PassFacts DEF EvidenceOK
  <2>2. /\ InSubagent => Caller \in Memories /\ Answers(saved) \subseteq Answers(Caller)
        /\ Answers(saved) \subseteq Answers(StateMemory)
    BY <1>3, PassFacts, OneCaller, SubagentFollows DEF StateMemory, EvidenceOK
  <2>3. ASSUME Answers(saved) \subseteq Answers(memory'),
               \A i \in 1 .. Len(callers') : Answers(saved) \subseteq Answers(callers'[i]),
               pc' = "return" /\ update'.kind = "done" =>
                 [step_id |-> current_step_id, result |-> update'.result] \in Answers(memory')
        PROVE  EvidenceOK'
    BY <1>2, <2>1, <2>3 DEF EvidenceOK, Answers
  <2>4. CASE GoesOn \/ Succeeds \/ Fails
    <3>1. callers' = callers /\ Answers(saved) \subseteq Answers(memory')
      BY <2>1, <2>2, <2>4 DEF GoesOn, Succeeds, Fails, Follows
    <3>2. pc' = "return" /\ update'.kind = "done" =>
            [step_id |-> current_step_id, result |-> update'.result] \in Answers(memory')
      BY <2>4 DEF GoesOn, Succeeds, Fails
    <3> QED  BY <2>3, <3>1, <3>2 DEF EvidenceOK
  <2>5. CASE StartsSubagent
    <3>1. PICK m \in Memories :
            Follows(memory, m) /\ callers' = Append(callers, m) /\ memory' = SubagentState(m)
      BY <2>5 DEF StartsSubagent
    <3>2. Answers(saved) \subseteq Answers(m)
      BY <2>1, <3>1 DEF Follows
    <3>3. Answers(saved) \subseteq Answers(memory')
      BY <3>1, <3>2, SubagentFollows
    <3>4. \A i \in 1 .. Len(callers') : Answers(saved) \subseteq Answers(callers'[i])
      BY <1>1, <3>1, <3>2 DEF EvidenceOK
    <3> QED  BY <2>3, <2>5, <3>3, <3>4 DEF StartsSubagent
  <2>6. CASE EndsSubagent
    <3>1. Len(callers') = 0
      BY <1>1, <2>6, OneCaller DEF EndsSubagent
    <3>2. Answers(saved) \subseteq Answers(memory')
      BY <2>2, <2>6 DEF EndsSubagent, Follows
    <3>3. update'.kind = "done" =>
            [step_id |-> current_step_id, result |-> update'.result] \in Answers(memory')
      BY <2>6 DEF EndsSubagent
    <3> QED  BY <2>3, <3>1, <3>2, <3>3
  <2> QED  BY <1>3, <2>4, <2>5, <2>6, PassKinds
<1>4. CASE ~LoopTurn
  <2>1. ASSUME NEW m, saved' = m, Answers(saved) \subseteq Answers(m), callers' = <<>>,
               \A i \in 1 .. Len(plan') :
                  plan'[i].status = "done" =>
                    [step_id |-> plan'[i].step_id, result |-> plan'[i].result] \in Answers(m),
               pc' \notin {"loop", "return"},
               pc' \in {"summarize", "finished"} =>
                  \A i \in 1 .. Len(plan') : plan'[i].status = "done"
        PROVE  EvidenceOK'
    BY <2>1 DEF EvidenceOK, Answers
  <2>2. CASE MakesPlan
    <3>1. Answers(saved') = Answers(saved) /\ callers' = <<>> /\ pc' = "head"
      BY <2>2 DEF MakesPlan, RunInv, ControlOK, Answers
    <3>2. \A i \in 1 .. Len(plan') :
            plan'[i].status = "done" =>
              [step_id |-> plan'[i].step_id, result |-> plan'[i].result] \in Answers(saved')
      BY <1>2, <2>2, <3>1 DEF MakesPlan
    <3> QED  BY <2>1, <3>1, <3>2
  <2>3. CASE Moves
    <3>1. UNCHANGED <<plan, saved, memory, callers, update>>
      BY <2>3 DEF Moves, Quiet
    <3>2. CASE UNCHANGED <<pc, cursor_vars>>
      <4>1. pc' = pc /\ current_step_id' = current_step_id
        BY <3>2 DEF cursor_vars
      <4>2. \A m : Answers(m)' = Answers(m)
        BY DEF Answers
      <4> QED  BY <3>1, <4>1, <4>2 DEF EvidenceOK
    <3>3. CASE ~UNCHANGED <<pc, cursor_vars>>
      <4>1. /\ callers' = <<>> /\ pc' \notin {"loop", "return"}
            /\ pc' \in {"summarize", "finished"} =>
                 \A i \in 1 .. Len(plan) : plan[i].status = "done"
        BY <2>3, <3>1, <3>3 DEF Moves, EvidenceOK
      <4> QED  BY <1>2, <2>1, <3>1, <4>1
    <3> QED  BY <3>2, <3>3
  <2>4. CASE EntersLoop
    <3>1. UNCHANGED <<plan, saved, callers>> /\ memory' = saved /\ callers = <<>> /\ pc' = "loop"
      BY <2>4 DEF EntersLoop
    <3> QED  BY <1>2, <3>1 DEF EvidenceOK, Answers
  <2>5. CASE Merges
    <3>1. callers' = <<>> /\ pc = "return" /\ pc' \in {"head", "failed"}
      BY <2>5 DEF Merges
    <3>2. CASE pc' = "failed" /\ UNCHANGED plan /\ saved' = FailedFields(saved, memory)
      <4>1. Answers(saved') = Answers(saved)
        BY <1>1, <3>2 DEF FailedFields, Answers, Memories
      <4> QED  BY <1>2, <2>1, <3>1, <3>2, <4>1
    <3>3. CASE pc' = "head"
      <4>1. saved' = memory /\ Answers(saved) \subseteq Answers(memory)
        BY <2>5, <3>1, <3>3 DEF Merges, EvidenceOK
      <4>2. update.kind = "done" =>
              [step_id |-> current_step_id, result |-> update.result] \in Answers(memory)
        BY <3>1 DEF EvidenceOK
      <4>3. \A i \in 1 .. Len(plan') :
              plan'[i].status = "done" =>
                [step_id |-> plan'[i].step_id, result |-> plan'[i].result] \in Answers(memory)
        <5>1. CASE update.kind # "done"
          BY <1>2, <2>5, <3>3, <4>1, <5>1 DEF Merges
        <5>2. CASE update.kind = "done"
          BY <1>2, <2>5, <3>3, <4>1, <4>2, <5>2 DEF Merges
        <5> QED  BY <5>1, <5>2
      <4> QED  BY <2>1, <3>1, <3>3, <4>1, <4>3
    <3> QED  BY <2>5, <3>2, <3>3 DEF Merges
  <2> QED  BY <1>4, <2>2, <2>3, <2>4, <2>5, RunnerKinds
<1> QED  BY <1>3, <1>4

LEMMA InitVisitInv == Init => VisitInv
<1> SUFFICES ASSUME Init PROVE VisitInv
  OBVIOUS
<1>1. RunInv
  BY InitRunInv
<1>2. saved = InitialMemory /\ callers = <<>> /\ plan = <<>> /\ pc = "head" /\ decisions = 0
      /\ tool_history = [tool \in Tools |-> "clean"]
  BY DEF Init
<1>3. DepthOK /\ TraceOK
  BY <1>2 DEF DepthOK, TraceOK, InLoop, InVisit, InitialMemory
<1>4. DecisionsOK
  BY <1>2, LimitsAssumption DEF DecisionsOK, DecisionBound
<1>5. ToolsOK
  BY <1>2 DEF ToolsOK, NoFailedToolReuse, Knows, Failing, InLoop
<1>6. EvidenceOK
  BY <1>2 DEF EvidenceOK, InLoop
<1> QED  BY <1>1, <1>3, <1>4, <1>5, <1>6 DEF VisitInv

LEMMA NextVisitInv == VisitInv /\ [Next]_vars => VisitInv'
BY NextRunInv, DepthKept, DecisionsKept, TraceKept, ToolsKept, EvidenceKept DEF VisitInv

LEMMA VisitInvariant == Spec => []VisitInv
BY InitVisitInv, NextVisitInv, PTL DEF Spec

(* A subagent starts none itself: there is at most one suspended caller; and *)
(* a visit of a step takes at most 3 * MAX_REACT_TURNS_PER_STEP decisions,   *)
(* wherever its restart and its subagent fall (agent_loop_node).             *)
THEOREM VisitsAreBounded == Spec => []VisitBounded
<1>1. VisitInv => NoNestedSubagent
  BY DEF VisitInv, DepthOK, InLoop, NoNestedSubagent
<1>2. VisitInv => DecisionBound
  BY DEF VisitInv, DecisionsOK
<1>3. VisitInv => VisitBounded
  BY <1>1, <1>2 DEF VisitBounded
<1> QED  BY <1>3, VisitInvariant, PTL

(* The results the model is shown as those of a step (react_results) were    *)
(* obtained in that step of that plan and since its last restart, also in a  *)
(* subagent.                                                                 *)
THEOREM TraceIsFresh == Spec => []FreshTrace
<1>1. VisitInv => FreshTrace
  BY DEF VisitInv, TraceOK, Fresh, InVisit, FreshTrace
<1> QED  BY <1>1, VisitInvariant, PTL

(* A tool that raised is not executed again in the run (failed_tools, which  *)
(* _decide_next_loop looks at), whichever memories are dropped meanwhile.    *)
THEOREM FailedToolsStayUnused == Spec => []NoFailedToolReuse
<1>1. VisitInv => NoFailedToolReuse
  BY DEF VisitInv, ToolsOK
<1> QED  BY <1>1, VisitInvariant, PTL

(* Whatever was replanned, the result of a step that is done is among the    *)
(* step_results, the evidence of the final answer, under the step's id; and  *)
(* the answer is only written once every step is done.                       *)
THEOREM AnswersHaveEvidence == Spec => []EvidenceForEveryStep
<1>1. VisitInv => EvidenceForEveryStep
  BY DEF VisitInv, EvidenceOK, Answers, EvidenceForEveryStep
<1> QED  BY <1>1, VisitInvariant, PTL

----
(* The steps of a run run out: what each step takes from StepsLeft.  Only    *)
(* the runner begins an iteration, and pays for the visit that may follow.   *)
StepsLeftInVisit ==
    CASE pc = "enter"               -> VisitSteps
      [] pc = "loop"                -> VisitSteps - 1 - decisions
      [] pc = "return"              -> 2 + Len(callers)
      [] pc \in {"head", "summarize"} -> 1
      [] pc \in {"finished", "failed"} -> 0

LEMMA LessLeft ==
    ASSUME NEW rest \in Nat, NEW size \in Nat, NEW now \in 0 .. size,
           NEW rest2 \in Nat, NEW now2 \in 0 .. size,
           (rest2 = rest /\ now2 < now) \/ (rest = rest2 + 1 /\ now = 1)
    PROVE  0 <= rest2 * size + now2 /\ rest2 * size + now2 < rest * size + now
<1>1. rest2 * size \in Nat /\ (rest2 + 1) * size = rest2 * size + size
  OBVIOUS
<1> QED  BY <1>1

VisitFits ==
    /\ Len(callers) \in 0 .. 1 /\ decisions \in 0 .. 3 * MAX_REACT_TURNS_PER_STEP
    /\ pc \in ControlStates /\ iteration \in 0 .. MAX_AGENT_NODE_ITERATIONS
    /\ StepsLeftInVisit \in 0 .. VisitSteps
    /\ StepsLeft = (MAX_AGENT_NODE_ITERATIONS - iteration) * VisitSteps + StepsLeftInVisit

LEMMA VisitValue ==
    /\ MAX_REACT_TURNS_PER_STEP \in Nat
    /\ VisitSteps = 3 * MAX_REACT_TURNS_PER_STEP + 5 /\ VisitSteps \in Nat
  BY LimitsAssumption DEF VisitSteps

LEMMA VisitIsShort == VisitInv => VisitFits
<1> SUFFICES ASSUME VisitInv  PROVE VisitFits
  OBVIOUS
<1>1. /\ pc \in ControlStates /\ iteration \in 0 .. MAX_AGENT_NODE_ITERATIONS
      /\ callers \in Seq(Memories) /\ decisions \in Nat
  BY VisitValue DEF VisitInv, RunInv, TypeOK, DECISION_CAP
<1>2. Len(callers) \in 0 .. 1
  BY OneCaller DEF VisitInv
<1>3. decisions \in 0 .. 3 * MAX_REACT_TURNS_PER_STEP
  BY <1>1, VisitValue DEF VisitInv, DecisionsOK, DecisionBound
<1>4. StepsLeftInVisit \in 0 .. VisitSteps
  <2>1. CASE pc = "loop"
    BY <1>3, <2>1, VisitValue DEF StepsLeftInVisit
  <2>2. CASE pc = "return"
    <3>1. StepsLeftInVisit = 2 + Len(callers)
      BY <2>2 DEF StepsLeftInVisit
    <3> DEFINE depth == Len(callers)
    <3>2. depth \in 0 .. 1 /\ StepsLeftInVisit = 2 + depth
      BY <1>2, <3>1
    <3> HIDE DEF depth
    <3> QED  BY <3>2, VisitValue
  <2>3. CASE pc \in {"enter", "head", "summarize", "finished", "failed"}
    BY <2>3, VisitValue DEF StepsLeftInVisit
  <2> QED  BY <1>1, <2>1, <2>2, <2>3 DEF ControlStates
<1>5. StepsLeft = (MAX_AGENT_NODE_ITERATIONS - iteration) * VisitSteps + StepsLeftInVisit
  BY DEF StepsLeft, StepsLeftInVisit
<1> QED  BY <1>1, <1>2, <1>3, <1>4, <1>5 DEF VisitFits

LEMMA VisitStaysShort == VisitInv' => VisitFits'
  BY VisitIsShort, PTL

(* Within an iteration each step brings its end nearer. *)
LEMMA VisitGoesOn ==
    ASSUME VisitInv, VisitInv', Next, vars' # vars, iteration' = iteration
    PROVE  StepsLeftInVisit' < StepsLeftInVisit
<1> USE DEF StepsLeftInVisit
<1>1. /\ VisitSteps = 3 * MAX_REACT_TURNS_PER_STEP + 5 /\ MAX_REACT_TURNS_PER_STEP \in Nat
      /\ Len(callers) \in 0 .. 1 /\ decisions \in 0 .. 3 * MAX_REACT_TURNS_PER_STEP
      /\ Len(callers') \in 0 .. 1 /\ decisions' \in 0 .. 3 * MAX_REACT_TURNS_PER_STEP
      /\ iteration \in 0 .. MAX_AGENT_NODE_ITERATIONS /\ MAX_AGENT_NODE_ITERATIONS \in Nat
  BY VisitValue, VisitIsShort, VisitStaysShort, LimitIsNat DEF VisitFits
<1>2. CASE LoopTurn
  <2>1. pc' \in {"loop", "return"}
    BY <1>2, PassFacts DEF VisitInv, InLoop
  <2>2. CASE TakeDecision
    <3>1. pc = "loop" /\ decisions' = decisions + 1
      BY <1>1, <2>2 DEF TakeDecision, DECISION_CAP
    <3>2. StepsLeftInVisit = VisitSteps - 1 - decisions
      BY <3>1
    <3>3. StepsLeftInVisit' = VisitSteps - 1 - decisions' \/ StepsLeftInVisit' = 2 + Len(callers')
      BY <2>1
    <3> DEFINE depth == Len(callers')
    <3>4. depth \in 0 .. 1
      BY <1>1
    <3>5. StepsLeftInVisit' = VisitSteps - 1 - decisions' \/ StepsLeftInVisit' = 2 + depth
      BY <3>3
    <3> HIDE DEF StepsLeftInVisit, depth
    <3> QED  BY <1>1, <3>1, <3>2, <3>4, <3>5
  <2>3. CASE TurnsExhausted
    <3>1. StepsLeftInVisit = VisitSteps - 1 - decisions /\ StepsLeftInVisit' = 2 + Len(callers')
      BY <2>3 DEF TurnsExhausted, Return
    <3> DEFINE depth == Len(callers')
    <3>2. depth \in 0 .. 1 /\ StepsLeftInVisit' = 2 + depth
      BY <1>1, <3>1
    <3> HIDE DEF StepsLeftInVisit, depth
    <3> QED  BY <1>1, <3>1, <3>2
  <2>4. CASE SubagentFailed \/ SubagentUseless \/ SubagentAnswered
    <3>1. /\ pc = "return" /\ callers # <<>> /\ pc' = "return"
          /\ callers' = SubSeq(callers, 1, Len(callers) - 1)
      BY <2>4 DEF SubagentFailed, SubagentUseless, SubagentAnswered, SubagentReturned, InSubagent,
                  Return
    <3>2. Len(callers) = 1
      BY <3>1, OneCaller DEF VisitInv, InSubagent
    <3>3. Len(callers') = 0
      <4>1. callers \in Seq(Memories)
        BY DEF VisitInv, RunInv, TypeOK
      <4> QED  BY <3>1, <3>2, <4>1, SubSeqProperties
    <3> QED  BY <3>1, <3>2, <3>3
  <2> QED  BY <1>2, <2>2, <2>3, <2>4
           DEF LoopTurn, DecisionRaises, Overturning, Overthinking, FindingMissing, Think,
               ToolSucceeds, ToolRaises, Finish
<1>3. CASE AgentLoopNode
  <2>1. /\ StepsLeftInVisit = VisitSteps
        /\ \/ StepsLeftInVisit' = VisitSteps - 1 - decisions'
           \/ StepsLeftInVisit' = 2 + Len(callers')
    BY <1>3 DEF AgentLoopNode, Return
  <2> DEFINE depth == Len(callers')
  <2>2. depth \in 0 .. 1
    BY <1>1
  <2>3. StepsLeftInVisit' = VisitSteps - 1 - decisions' \/ StepsLeftInVisit' = 2 + depth
    BY <2>1
  <2> HIDE DEF StepsLeftInVisit, depth
  <2> QED  BY <1>1, <2>1, <2>2, <2>3
<1>4. CASE MergeStepDone \/ MergeReplan \/ MergeStepReplan \/ MergeFailed
  BY <1>1, <1>4 DEF MergeStepDone, MergeReplan, MergeStepReplan, MergeFailed, NodeReturned
<1>5. CASE IterationLimit \/ Summarize \/ SummarizeRaises
  BY <1>5 DEF IterationLimit, Summarize, SummarizeRaises
<1>6. CASE HandlerRaises
  BY <1>1, <1>6 DEF HandlerRaises
<1>7. CASE PlannerNode \/ PlannerFailed \/ SelectNextStep \/ SelectFinish
  BY <1>1, <1>7 DEF PlannerNode, PlannerFailed, SelectNextStep, SelectFinish
<1>8. CASE Over
  BY <1>8 DEF Over
<1> QED  BY <1>2, <1>3, <1>4, <1>5, <1>6, <1>7, <1>8 DEF Next

(* Who begins an iteration is not in a visit and does not end one. *)
LEMMA IterationBegins ==
    ASSUME VisitInv, VisitInv', Next, iteration' # iteration
    PROVE  pc = "head" /\ iteration' = iteration + 1 /\ iteration < MAX_AGENT_NODE_ITERATIONS
<1>1. ~LoopTurn
  BY LoopTurnOK DEF VisitInv, Unmoved, runner_vars
<1>2. CASE PlannerNode \/ PlannerFailed \/ SelectNextStep \/ SelectFinish
  BY <1>2 DEF PlannerNode, PlannerFailed, SelectNextStep, SelectFinish
<1> QED  BY <1>1, <1>2 DEF Next, AgentLoopNode, Unmoved, runner_vars, NodeReturned,
               MergeStepDone, MergeReplan, MergeStepReplan, MergeFailed,
               IterationLimit, Summarize, SummarizeRaises, HandlerRaises, Over, vars

LEMMA StepUsesUpOne ==
    ASSUME VisitInv, VisitInv', Next, vars' # vars
    PROVE  0 <= StepsLeft' /\ StepsLeft' < StepsLeft
<1> DEFINE rest == MAX_AGENT_NODE_ITERATIONS - iteration
           size == VisitSteps
           now == StepsLeftInVisit
<1>1. /\ size \in Nat /\ rest \in Nat /\ now \in 0 .. size /\ StepsLeft = rest * size + now
      /\ rest' \in Nat /\ now' \in 0 .. size /\ StepsLeft' = rest' * size + now'
  BY VisitValue, VisitIsShort, VisitStaysShort, LimitIsNat DEF VisitFits
<1>2. ASSUME iteration' = iteration  PROVE rest' = rest /\ now' < now
  BY <1>2, VisitGoesOn
<1>3. ASSUME iteration' # iteration  PROVE rest = rest' + 1 /\ now = 1
  <2>1. pc = "head" /\ iteration' = iteration + 1 /\ iteration < MAX_AGENT_NODE_ITERATIONS
    BY <1>3, IterationBegins
  <2>2. iteration \in Nat /\ MAX_AGENT_NODE_ITERATIONS \in Nat
    BY VisitIsShort, LimitIsNat DEF VisitFits
  <2> QED  BY <2>1, <2>2 DEF StepsLeftInVisit
<1>4. (rest' = rest /\ now' < now) \/ (rest = rest' + 1 /\ now = 1)
  BY <1>2, <1>3
<1> HIDE DEF rest, size, now
<1> QED  BY <1>1, <1>4, LessLeft

(* No run of _run_agent goes round for ever: it takes at most                *)
(* MAX_AGENT_NODE_ITERATIONS * (3 * MAX_REACT_TURNS_PER_STEP + 5) + 1 steps, *)
(* for every plan, answer, failing tool and setting, so that to end it need  *)
(* only go on.                                                               *)
THEOREM RunsTakeBoundedSteps == Spec => StepsRunOut
<1>1. VisitInv /\ VisitInv' /\ [Next]_vars => [0 <= StepsLeft' /\ StepsLeft' < StepsLeft]_vars
  BY StepUsesUpOne
<1> QED  BY <1>1, VisitInvariant, PTL DEF Spec, StepsRunOut

----
(***************************************************************************)
(* What becomes of the plan over a whole run: done steps stay, the         *)
(* iteration limit leaves no step undone, and the run implements           *)
(* PlanExecution.                                                          *)
(***************************************************************************)

AllDone == \A i \in 1 .. Len(plan) : plan[i].status = "done"

DoneUpTo(n) == \A i \in 1 .. Len(plan) : plan[i].status = "done" <=> i <= n

(* Where a partial replan cuts, and what a run has that summarises. *)
PlanOK ==
    /\ plan = <<>> => replan_count = 0 /\ step_replan_count = 0
    /\ planner_mode = "step_replan" => DoneUpTo(current_step_index)
    /\ pc = "summarize" => ~ShouldPlan /\ AllDone

(* The most visits of steps that can have been for nothing: those of a plan  *)
(* that was, or is being, replaced.  After both replans the longer the plan  *)
(* the fewer they are, since what the partial replan has kept was not lost.  *)
MaxLost ==
    IF replan_count = 0 THEN 0
    ELSE IF step_replan_count = 0 \/ planner_mode = "step_replan" THEN MAX_PLAN_STEPS - 1
    ELSE IF planner_mode = "replan" THEN 2 * MAX_PLAN_STEPS - 2
    ELSE 3 * MAX_PLAN_STEPS - 2 - Len(plan)

(* With each replan go the visit that asked for it and the planner's turn. *)
Overhead == MaxLost + 2 * (replan_count + step_replan_count)

(* The iterations that were begun, by the steps that are done: each had its  *)
(* visit, and the plan was made.                                             *)
BudgetOK ==
    /\ pc = "head" =>
         /\ plan = <<>> => iteration = 0
         /\ planner_mode = "replan" => iteration <= Overhead
         /\ planner_mode = "step_replan" => iteration <= Overhead + current_step_index
         /\ planner_mode = "initial" /\ plan # <<>> =>
              \E n \in 0 .. Len(plan) : DoneUpTo(n) /\ iteration <= Overhead + n + 1
    /\ InVisit => iteration <= Overhead + current_step_index + 2

LimitOK == LimitLeavesNoStep /\ (error # "none" => pc = "failed")

PlanInv == RunInv /\ PlanOK /\ BudgetOK /\ LimitOK

----
LEMMA LimitValue == MAX_AGENT_NODE_ITERATIONS = 3 * MAX_PLAN_STEPS + 3
BY LimitsAssumption DEF MAX_AGENT_NODE_ITERATIONS

LEMMA Lengths ==
    ASSUME RunInv
    PROVE  /\ MAX_PLAN_STEPS \in Nat \ {0} /\ iteration \in Nat /\ current_step_index \in Nat
           /\ Len(plan) \in 0 .. 2 * MAX_PLAN_STEPS - 1
           /\ replan_count \in {0, 1} /\ step_replan_count \in {0, 1}
           /\ step_replan_count = 0 => Len(plan) <= MAX_PLAN_STEPS
           /\ \A i \in 1 .. Len(plan) : plan[i].status \in {"pending", "done"}
           /\ Overhead \in Int
<1>1. /\ iteration \in 0 .. MAX_AGENT_NODE_ITERATIONS /\ plan \in Seq(PlanSteps)
      /\ current_step_index \in Nat
      /\ replan_count \in {0, 1} /\ step_replan_count \in {0, 1}
  BY DEF RunInv, TypeOK
<1>2. \A i \in 1 .. Len(plan) : plan[i] \in PlanSteps
  BY <1>1
<1>3. Len(plan) \in 0 .. 2 * MAX_PLAN_STEPS - 1
      /\ (step_replan_count = 0 => Len(plan) <= MAX_PLAN_STEPS)
  BY <1>1, LimitsAssumption DEF RunInv, PlanLength
<1>4. MAX_PLAN_STEPS \in Nat \ {0} /\ iteration \in Nat
  BY <1>1, LimitIsNat, LimitsAssumption
<1>5. Overhead \in Int
  BY <1>1, <1>3, <1>4 DEF Overhead, MaxLost
<1> QED  BY <1>1, <1>2, <1>3, <1>4, <1>5 DEF PlanSteps

(* The kinds of step, by what they do to the plan.                           *)

(* Nothing that PlanOK or BudgetOK speaks of changes but pc. *)
PlanStays ==
    UNCHANGED <<plan, planner_mode, current_step_index, replan_count, step_replan_count>>

Works ==
    /\ pc \in {"enter", "loop", "return"} /\ pc' \in {"loop", "return"}
    /\ PlanStays /\ UNCHANGED <<iteration, error>>

Ends ==
    /\ pc' = "failed" /\ pc # "failed" /\ pc # "finished" /\ PlanStays
    /\ error' = "iteration_limit" => IterationLimit

LEMMA PlanKinds ==
    ASSUME RunInv, [Next]_vars
    PROVE  \/ PlannerNode \/ SelectNextStep \/ SelectFinish \/ Works
           \/ MergeStepDone \/ MergeReplan \/ MergeStepReplan \/ Summarize \/ Ends
           \/ UNCHANGED vars
<1> USE DEF PlanStays, Ends, runner_vars, planner_vars, cursor_vars, budget_vars
<1>1. CASE PlannerFailed
  BY <1>1 DEF PlannerFailed
<1>2. CASE AgentLoopNode
  BY <1>2 DEF AgentLoopNode, Return, Works, Unmoved
<1>3. CASE LoopTurn
  BY <1>3, LoopTurnOK DEF TurnOK, InVisit, Works, Unmoved
<1>4. CASE MergeFailed
  BY <1>4 DEF MergeFailed, NodeReturned, RunInv, ControlOK, OrderlyUpdates
<1>5. CASE IterationLimit
  BY <1>5 DEF IterationLimit
<1>6. CASE SummarizeRaises
  BY <1>6 DEF SummarizeRaises
<1>7. CASE HandlerRaises
  BY <1>7 DEF HandlerRaises
<1>8. CASE Over
  BY <1>8 DEF Over
<1> QED  BY <1>1, <1>2, <1>3, <1>4, <1>5, <1>6, <1>7, <1>8 DEF Next

(* In a visit exactly the steps before the cursor are done. *)
LEMMA DoneInVisit ==
    ASSUME RunInv, InVisit
    PROVE  /\ DoneUpTo(current_step_index)
           /\ current_step_index + 1 \in 1 .. Len(plan)
           /\ plan[current_step_index + 1].status = "pending"
           /\ planner_mode = "initial" /\ plan # <<>> /\ ~ShouldPlan
<1>1. /\ current_step_index + 1 \in 1 .. Len(plan)
      /\ plan[current_step_index + 1].status = "pending"
      /\ \A i \in 1 .. current_step_index : plan[i].status = "done"
      /\ \A i, j \in 1 .. Len(plan) : i < j /\ plan[j].status = "done" => plan[i].status = "done"
  BY VisitFacts DEF RunInv, StepsDoneInOrder
<1>2. current_step_index \in Nat
  BY DEF RunInv, TypeOK
<1>3. DoneUpTo(current_step_index)
  <2> SUFFICES ASSUME NEW i \in 1 .. Len(plan), i > current_step_index, plan[i].status = "done"
               PROVE  FALSE
    BY <1>1, <1>2 DEF DoneUpTo
  <2>1. CASE i = current_step_index + 1
    BY <1>1, <2>1
  <2>2. CASE i > current_step_index + 1
    BY <1>1, <2>2
  <2> QED  BY <1>2, <2>1, <2>2
<1>4. planner_mode = "initial" /\ plan # <<>>
  BY DEF RunInv, ControlOK
<1> QED  BY <1>1, <1>3, <1>4 DEF ShouldPlan

LEMMA StepDone ==
    ASSUME RunInv, MergeStepDone
    PROVE  /\ InVisit /\ pc' = "head" /\ Len(plan') = Len(plan) /\ plan' # <<>>
           /\ \A i \in 1 .. Len(plan) :
                i # current_step_index + 1 => plan'[i] = plan[i]
           /\ plan'[current_step_index + 1].status = "done"
           /\ UNCHANGED <<planner_mode, current_step_index, replan_count, step_replan_count,
                          iteration, error>>
<1>1. InVisit
  BY DEF MergeStepDone, NodeReturned, InVisit
<1>2. current_step_index + 1 \in 1 .. Len(plan) /\ plan \in Seq(PlanSteps)
  BY <1>1, VisitFacts DEF RunInv, TypeOK
<1>3. plan' = [plan EXCEPT ![current_step_index + 1] =
                 [@ EXCEPT !.status = "done", !.result = update.result]]
  BY DEF MergeStepDone
<1>4. plan[current_step_index + 1] \in PlanSteps
  BY <1>2
<1>5. /\ Len(plan') = Len(plan)
      /\ \A i \in 1 .. Len(plan) : i # current_step_index + 1 => plan'[i] = plan[i]
      /\ plan'[current_step_index + 1].status = "done"
  BY <1>2, <1>3, <1>4 DEF PlanSteps
<1>6. plan' # <<>>
  BY <1>2, <1>5
<1> QED  BY <1>1, <1>5, <1>6 DEF MergeStepDone, NodeReturned, cursor_vars, budget_vars

(* The step that is selected is the first that is not done. *)
LEMMA StepSelected ==
    ASSUME RunInv, SelectNextStep, NEW n \in 0 .. Len(plan), DoneUpTo(n)
    PROVE  current_step_index' = n
<1>1. PICK i \in 1 .. Len(plan) :
        /\ Pending(i)
        /\ \A j \in 1 .. (i - 1) : ~Pending(j)
        /\ current_step_index' = i - 1
  BY DEF SelectNextStep
<1>2. Len(plan) \in Nat /\ \A j \in 1 .. Len(plan) : plan[j].status \in {"pending", "done"}
  BY Lengths
<1>3. i > n
  BY <1>1, <1>2 DEF Pending, DoneUpTo
<1>4. ~(n + 1 < i)
  <2> SUFFICES ASSUME n + 1 < i PROVE FALSE
    OBVIOUS
  <2>1. n + 1 \in 1 .. (i - 1) /\ n + 1 \in 1 .. Len(plan)
    BY <1>1, <1>2
  <2>2. plan[n + 1].status # "pending"
    BY <1>1, <2>1 DEF Pending
  <2> QED  BY <1>2, <2>1, <2>2 DEF DoneUpTo
<1> QED  BY <1>1, <1>2, <1>3, <1>4

LEMMA PlanOKKept ==
    ASSUME RunInv, PlanOK, [Next]_vars
    PROVE  PlanOK'
<1> USE DEF PlanOK
<1>1. CASE PlannerNode
  BY <1>1, NewPlan DEF PlannerNode
<1>2. CASE SelectNextStep
  BY <1>2 DEF SelectNextStep, ShouldPlan, planner_vars, budget_vars
<1>3. CASE SelectFinish
  <2>1. AllDone
    <3>1. \A i \in 1 .. Len(plan) : plan[i].status \in {"pending", "done"}
      BY Lengths
    <3> QED  BY <1>3, <3>1 DEF SelectFinish, Pending, AllDone
  <2> QED  BY <1>3, <2>1 DEF SelectFinish, ShouldPlan, AllDone, planner_vars, budget_vars
<1>4. CASE Works
  BY <1>4 DEF Works, PlanStays, DoneUpTo
<1>5. CASE MergeStepDone
  <2>1. planner_mode' = "initial"
    BY <1>5, StepDone, DoneInVisit
  <2> QED  BY <1>5, <2>1, StepDone
<1>6. CASE MergeReplan \/ MergeStepReplan
  <2>1. InVisit
    BY <1>6 DEF MergeReplan, MergeStepReplan, NodeReturned, InVisit
  <2> QED  BY <1>6, <2>1, DoneInVisit
           DEF MergeReplan, MergeStepReplan, NodeReturned, DoneUpTo, cursor_vars
<1>7. CASE Summarize
  BY <1>7 DEF Summarize, DoneUpTo, planner_vars, cursor_vars, budget_vars
<1>8. CASE Ends
  BY <1>8 DEF Ends, PlanStays, DoneUpTo
<1>9. CASE UNCHANGED vars
  BY <1>9 DEF vars, DoneUpTo, AllDone, ShouldPlan, planner_vars, cursor_vars, budget_vars
<1> QED  BY <1>1, <1>2, <1>3, <1>4, <1>5, <1>6, <1>7, <1>8, <1>9, PlanKinds

LEMMA MoreOverhead ==
    ASSUME NEW old \in Int, NEW new \in Int, NEW n \in Int, NEW spent \in Int,
           spent <= old + n, old <= new
    PROVE  spent + 1 <= new + n + 1
OBVIOUS

(* The iterations keep within what the plan allows. *)
LEMMA BudgetKept ==
    ASSUME RunInv, RunInv', PlanOK, BudgetOK, [Next]_vars
    PROVE  BudgetOK'
<1>a. /\ MAX_PLAN_STEPS \in Nat \ {0} /\ iteration \in Nat /\ current_step_index \in Nat
      /\ Len(plan) \in Nat /\ Len(plan) <= 2 * MAX_PLAN_STEPS - 1
      /\ replan_count \in {0, 1} /\ step_replan_count \in {0, 1}
      /\ step_replan_count = 0 => Len(plan) <= MAX_PLAN_STEPS
  BY Lengths
<1>b. Overhead \in Int
  BY Lengths
<1> USE <1>a
<1>1. CASE PlannerNode
  <2>1. /\ pc = "head" /\ pc' = "head" /\ planner_mode' = "initial" /\ plan' # <<>>
        /\ iteration' = iteration + 1 /\ UNCHANGED <<replan_count, step_replan_count>>
    BY <1>1, NewPlan DEF PlannerNode, budget_vars
  <2>2. Len(plan') \in Nat /\ Overhead' \in Int
    <3>1. Len(plan') \in Nat
      BY DEF RunInv, TypeOK
    <3> QED  BY <2>1, <3>1 DEF Overhead, MaxLost
  <2>3. ASSUME NEW n \in 0 .. Len(plan'), DoneUpTo(n)', iteration <= Overhead + n,
               Overhead <= Overhead'
        PROVE  BudgetOK'
    <3>1. iteration' <= Overhead' + n + 1
      <4>1. Overhead \in Int /\ Overhead' \in Int /\ n \in Int /\ iteration \in Int
        BY <1>b, <2>2
      <4>2. iteration <= Overhead + n /\ Overhead <= Overhead'
        BY <2>3
      <4>3. iteration + 1 <= Overhead' + n + 1
        BY <4>1, <4>2, MoreOverhead
      <4> QED  BY <2>1, <4>3
    <3> QED  BY <2>1, <2>3, <3>1 DEF BudgetOK, InVisit
  <2>4. CASE planner_mode = "step_replan"
    <3>1. /\ step_replan_count = 1 /\ current_step_index' = current_step_index
          /\ Len(plan') \in current_step_index + 1 .. current_step_index + MAX_PLAN_STEPS
          /\ current_step_index < Len(plan) /\ Len(plan) <= MAX_PLAN_STEPS
          /\ \A i \in 1 .. current_step_index : plan'[i].status = "done"
          /\ \A i \in current_step_index + 1 .. Len(plan') : plan'[i].status = "pending"
      BY <1>1, <2>4, NewPlan
    <3>2. DoneUpTo(current_step_index)'
      <4>1. ASSUME NEW i \in 1 .. Len(plan')
            PROVE  plan'[i].status = "done" <=> i <= current_step_index
        <5>1. CASE i <= current_step_index
          BY <3>1, <5>1
        <5>2. CASE i > current_step_index
          <6>1. i \in current_step_index + 1 .. Len(plan')
            BY <2>2, <5>2
          <6> QED  BY <3>1, <5>2, <6>1
        <5> QED  BY <5>1, <5>2
      <4> QED  BY <3>1, <4>1 DEF DoneUpTo
    <3>3. iteration <= Overhead + current_step_index
      BY <2>1, <2>4 DEF BudgetOK
    <3>4. Overhead <= Overhead'
      <4>1. CASE replan_count = 0
        BY <2>1, <3>1, <4>1 DEF Overhead, MaxLost
      <4>2. CASE replan_count = 1
        <5>1. Overhead = MAX_PLAN_STEPS - 1 + 2 * (1 + 1)
          BY <2>4, <3>1, <4>2 DEF Overhead, MaxLost
        <5>2. Overhead' = 3 * MAX_PLAN_STEPS - 2 - Len(plan') + 2 * (1 + 1)
          BY <2>1, <3>1, <4>2 DEF Overhead, MaxLost
        <5>3. Len(plan') <= 2 * MAX_PLAN_STEPS - 1
          BY <3>1
        <5> QED  BY <1>b, <2>2, <5>1, <5>2, <5>3
      <4> QED  BY <4>1, <4>2
    <3> QED  BY <2>3, <3>1, <3>2, <3>3, <3>4
  <2>5. CASE planner_mode # "step_replan"
    <3>1. /\ Len(plan') \in 1 .. MAX_PLAN_STEPS
          /\ \A i \in 1 .. Len(plan') : plan'[i].status = "pending"
      BY <1>1, <2>5, NewPlan
    <3>2. DoneUpTo(0)' /\ 0 \in 0 .. Len(plan')
      BY <3>1 DEF DoneUpTo
    <3>3. CASE planner_mode = "replan"
      <4>1. replan_count = 1 /\ iteration <= Overhead + 0
        <5>1. replan_count = 1 /\ iteration <= Overhead
          BY <2>1, <3>3 DEF BudgetOK, RunInv, ControlOK
        <5> QED  BY <1>b, <5>1
      <4>2. Overhead <= Overhead'
        BY <2>1, <3>1, <3>3, <4>1 DEF Overhead, MaxLost
      <4> QED  BY <2>3, <3>2, <4>1, <4>2
    <3>4. CASE planner_mode # "replan"
      <4>1. plan = <<>>
        BY <1>1, <2>5, <3>4 DEF PlannerNode, ShouldPlan
      <4>2. iteration = 0 /\ replan_count = 0 /\ step_replan_count = 0
        BY <2>1, <4>1 DEF BudgetOK, PlanOK
      <4>3. Overhead = 0 /\ Overhead' = 0
        BY <2>1, <4>2 DEF Overhead, MaxLost
      <4> QED  BY <2>3, <3>2, <4>2, <4>3
    <3> QED  BY <3>3, <3>4
  <2> QED  BY <2>4, <2>5
<1>2. CASE SelectNextStep
  <2>1. /\ pc = "head" /\ planner_mode = "initial" /\ plan # <<>> /\ iteration' = iteration + 1
        /\ pc' = "enter" /\ UNCHANGED <<plan, planner_mode, replan_count, step_replan_count>>
    BY <1>2 DEF SelectNextStep, ShouldPlan, RunInv, TypeOK, planner_vars, budget_vars
  <2>2. PICK n \in 0 .. Len(plan) : DoneUpTo(n) /\ iteration <= Overhead + n + 1
    BY <2>1 DEF BudgetOK
  <2>3. current_step_index' = n /\ Overhead' = Overhead
    BY <1>2, <2>1, <2>2, StepSelected DEF Overhead, MaxLost
  <2>4. iteration' <= Overhead' + current_step_index' + 2
    BY <1>b, <2>1, <2>2, <2>3
  <2> QED  BY <2>1, <2>4 DEF BudgetOK, InVisit
<1>3. CASE SelectFinish
  BY <1>3 DEF SelectFinish, BudgetOK, InVisit
<1>4. CASE Works
  BY <1>4 DEF Works, PlanStays, BudgetOK, InVisit, Overhead, MaxLost
<1>5. CASE MergeStepDone
  <2>1. iteration <= Overhead + current_step_index + 2
    BY <1>5, StepDone DEF BudgetOK
  <2>2. /\ InVisit /\ Len(plan') = Len(plan)
        /\ \A i \in 1 .. Len(plan') : plan'[i].status = "done" <=> i <= current_step_index + 1
    <3>1. InVisit /\ DoneUpTo(current_step_index) /\ Len(plan') = Len(plan)
      BY <1>5, StepDone, DoneInVisit
    <3>2. \A i \in 1 .. Len(plan) : plan[i].status = "done" <=> i <= current_step_index
      BY <3>1 DEF DoneUpTo
    <3>3. /\ \A i \in 1 .. Len(plan) : i # current_step_index + 1 => plan'[i] = plan[i]
          /\ plan'[current_step_index + 1].status = "done"
      BY <1>5, StepDone
    <3> QED  BY <3>1, <3>2, <3>3
  <2>3. Overhead' = Overhead /\ iteration' = iteration /\ current_step_index' = current_step_index
    BY <1>5, StepDone DEF Overhead, MaxLost
  <2>4. planner_mode' = "initial" /\ pc' = "head" /\ current_step_index + 1 \in 0 .. Len(plan')
    BY <1>5, StepDone, DoneInVisit
  <2>5. iteration' <= Overhead' + (current_step_index + 1) + 1
    BY <1>b, <2>1, <2>3
  <2>6. DoneUpTo(current_step_index + 1)'
    BY <2>2, <2>3 DEF DoneUpTo
  <2> QED  BY <1>5, <2>4, <2>5, <2>6, StepDone DEF BudgetOK, InVisit
<1>6. CASE MergeReplan \/ MergeStepReplan
  <2>1. /\ InVisit /\ pc' = "head" /\ UNCHANGED <<plan, iteration, current_step_index>>
    BY <1>6 DEF MergeReplan, MergeStepReplan, NodeReturned, InVisit, cursor_vars
  <2>2. /\ iteration <= Overhead + current_step_index + 2
        /\ current_step_index < Len(plan) /\ plan # <<>> /\ planner_mode = "initial"
    BY <2>1, DoneInVisit DEF BudgetOK
  <2>3. CASE MergeReplan
    <3>1. /\ replan_count = 0 /\ replan_count' = 1 /\ planner_mode' = "replan"
          /\ UNCHANGED step_replan_count
      BY <2>3 DEF MergeReplan, NodeReturned, RunInv, ControlOK
    <3>2. iteration' <= Overhead'
      BY <2>1, <2>2, <3>1 DEF Overhead, MaxLost
    <3> QED  BY <2>1, <2>2, <3>1, <3>2 DEF BudgetOK, InVisit
  <2>4. CASE MergeStepReplan
    <3>1. /\ step_replan_count = 0 /\ step_replan_count' = 1 /\ planner_mode' = "step_replan"
          /\ UNCHANGED replan_count
      BY <2>4 DEF MergeStepReplan, NodeReturned, RunInv, ControlOK
    <3>2. iteration' <= Overhead' + current_step_index'
      BY <2>1, <2>2, <3>1 DEF Overhead, MaxLost
    <3> QED  BY <2>1, <2>2, <3>1, <3>2 DEF BudgetOK, InVisit
  <2> QED  BY <1>6, <2>3, <2>4
<1>7. CASE Summarize
  BY <1>7 DEF Summarize, BudgetOK, InVisit
<1>8. CASE Ends
  BY <1>8 DEF Ends, BudgetOK, InVisit
<1>9. CASE UNCHANGED vars
  <2>1. UNCHANGED <<pc, iteration, plan, planner_mode, current_step_index, replan_count,
                    step_replan_count>>
    BY <1>9 DEF vars, runner_vars, planner_vars, cursor_vars, budget_vars
  <2> QED  BY <2>1 DEF BudgetOK, InVisit, Overhead, MaxLost, DoneUpTo
<1> QED  BY <1>1, <1>2, <1>3, <1>4, <1>5, <1>6, <1>7, <1>8, <1>9, PlanKinds

(* The whole budget is spent only when nothing is left to do. *)
LEMMA LimitReached ==
    ASSUME RunInv, PlanOK, BudgetOK, IterationLimit
    PROVE  ~ShouldPlan /\ AllDone /\ replan_count = 1 /\ step_replan_count = 1
<1>a. /\ MAX_PLAN_STEPS \in Nat \ {0} /\ iteration \in Nat /\ current_step_index \in Nat
      /\ Len(plan) \in Nat /\ Len(plan) <= 2 * MAX_PLAN_STEPS - 1
      /\ replan_count \in {0, 1} /\ step_replan_count \in {0, 1}
      /\ step_replan_count = 0 => Len(plan) <= MAX_PLAN_STEPS
  BY Lengths
<1>b. Overhead \in Int
  BY Lengths
<1>1. /\ pc = "head" /\ iteration = 3 * MAX_PLAN_STEPS + 3
      /\ planner_mode \in {"initial", "replan", "step_replan"}
  BY LimitValue DEF IterationLimit, RunInv, TypeOK
<1>2. plan # <<>>
  BY <1>a, <1>1 DEF BudgetOK
<1>3. planner_mode # "replan"
  <2> SUFFICES ASSUME planner_mode = "replan" PROVE FALSE
    OBVIOUS
  <2>1. replan_count = 1 /\ iteration <= Overhead
    BY <1>1 DEF RunInv, ControlOK, BudgetOK
  <2>2. MaxLost <= 2 * MAX_PLAN_STEPS - 2 /\ MaxLost \in Int
    BY <1>a, <2>1 DEF MaxLost
  <2>3. Overhead <= MaxLost + 4
    BY <1>a, <2>1, <2>2 DEF Overhead
  <2> QED  BY <1>a, <1>b, <1>1, <2>1, <2>2, <2>3
<1>4. planner_mode # "step_replan"
  <2> SUFFICES ASSUME planner_mode = "step_replan" PROVE FALSE
    OBVIOUS
  <2>1. step_replan_count = 1 /\ current_step_index < Len(plan) /\ Len(plan) <= MAX_PLAN_STEPS
    BY DEF RunInv, ControlOK, PlanLength
  <2> QED  BY <1>a, <1>1, <2>1 DEF BudgetOK, Overhead, MaxLost
<1>5. PICK n \in 0 .. Len(plan) : DoneUpTo(n) /\ iteration <= Overhead + n + 1
  BY <1>1, <1>2, <1>3, <1>4 DEF BudgetOK
<1>6. replan_count = 1 /\ step_replan_count = 1 /\ n = Len(plan)
  <2>1. CASE replan_count = 0 \/ step_replan_count = 0
    <3>1. Overhead + Len(plan) + 1 < 3 * MAX_PLAN_STEPS + 3
      <4>1. CASE replan_count = 0
        <5>1. Overhead = 0 + 2 * (0 + step_replan_count)
          BY <4>1 DEF Overhead, MaxLost
        <5> QED  BY <1>a, <5>1
      <4>2. CASE replan_count = 1 /\ step_replan_count = 0
        <5>1. Overhead = MAX_PLAN_STEPS - 1 + 2 * (1 + 0)
          BY <4>2 DEF Overhead, MaxLost
        <5> QED  BY <1>a, <4>2, <5>1
      <4> QED  BY <1>a, <2>1, <4>1, <4>2
    <3> QED  BY <1>a, <1>b, <1>1, <1>5, <3>1
  <2>2. CASE replan_count = 1 /\ step_replan_count = 1
    <3>1. Overhead = 3 * MAX_PLAN_STEPS - 2 - Len(plan) + 2 * (1 + 1)
      BY <1>a, <1>1, <1>3, <1>4, <2>2 DEF Overhead, MaxLost
    <3> QED  BY <1>a, <1>b, <1>1, <1>5, <2>2, <3>1
  <2> QED  BY <1>a, <2>1, <2>2
<1> QED  BY <1>1, <1>2, <1>3, <1>4, <1>5, <1>6 DEF ShouldPlan, AllDone, DoneUpTo

LEMMA LimitKept ==
    ASSUME RunInv, PlanOK, BudgetOK, LimitOK, [Next]_vars
    PROVE  LimitOK'
<1> USE DEF LimitOK, LimitLeavesNoStep
<1>1. CASE UNCHANGED error /\ pc # "failed"
  BY <1>1
<1>2. CASE Ends
  <2>1. CASE error' = "iteration_limit"
    <3>1. IterationLimit /\ PlanStays
      BY <1>2, <2>1 DEF Ends
    <3>2. ~ShouldPlan /\ AllDone /\ replan_count = 1 /\ step_replan_count = 1
      BY <3>1, LimitReached
    <3>3. (~ShouldPlan)' /\ AllDone' /\ replan_count' = 1 /\ step_replan_count' = 1
      BY <3>1, <3>2 DEF PlanStays, ShouldPlan, AllDone
    <3> QED  BY <1>2, <3>3 DEF Ends, AllDone
  <2>2. CASE error' # "iteration_limit"
    BY <1>2, <2>2 DEF Ends
  <2> QED  BY <2>1, <2>2
<1>3. CASE UNCHANGED vars
  <2>1. UNCHANGED <<pc, error, plan, planner_mode, replan_count, step_replan_count>>
    BY <1>3 DEF vars, runner_vars, planner_vars, budget_vars
  <2> QED  BY <2>1 DEF ShouldPlan
<1>4. CASE \/ PlannerNode \/ SelectNextStep \/ SelectFinish \/ Works \/ MergeStepDone
           \/ MergeReplan \/ MergeStepReplan \/ Summarize
  BY <1>1, <1>4, StepDone
  DEF PlannerNode, SelectNextStep, SelectFinish, Works, MergeStepDone, MergeReplan,
      MergeStepReplan, NodeReturned, Summarize, runner_vars
<1> QED  BY <1>2, <1>3, <1>4, PlanKinds

LEMMA InitPlanInv == Init => PlanInv
<1> SUFFICES ASSUME Init PROVE PlanInv
  OBVIOUS
<1>1. RunInv
  BY InitRunInv
<1>2. PlanOK /\ BudgetOK /\ LimitOK
  BY DEF Init, PlanOK, BudgetOK, LimitOK, LimitLeavesNoStep, InVisit
<1> QED  BY <1>1, <1>2 DEF PlanInv

LEMMA NextPlanInv == PlanInv /\ [Next]_vars => PlanInv'
BY NextRunInv, PlanOKKept, BudgetKept, LimitKept DEF PlanInv

LEMMA PlanInvariant == Spec => []PlanInv
BY InitPlanInv, NextPlanInv, PTL DEF Spec

(* The iteration limit (AgentRuner._run_agent, agent_node) stops no run that *)
(* has a step left to do, for any MAX_PLAN_STEPS: it is met only once both   *)
(* replans are spent and every step is done.                                 *)
THEOREM LimitLeavesNothingUndone == Spec => []LimitLeavesNoStep
BY PlanInvariant, PTL DEF PlanInv, LimitOK

----
LEMMA StepKeepsDoneSteps == PlanInv /\ [Next]_vars => KeepsDoneSteps
<1> SUFFICES ASSUME PlanInv, [Next]_vars, planner_mode # "replan",
                    NEW i \in 1 .. Len(plan), plan[i].status = "done"
             PROVE  i <= Len(plan') /\ plan'[i] = plan[i]
  BY DEF KeepsDoneSteps
<1> USE DEF PlanInv
<1>1. CASE PlannerNode
  <2>1. planner_mode = "step_replan"
    <3>1. plan # <<>>
      BY DEF RunInv, TypeOK
    <3> QED  BY <1>1, <3>1 DEF PlannerNode, ShouldPlan
  <2>2. i \in 1 .. current_step_index
    BY <2>1, Lengths DEF PlanOK, DoneUpTo
  <2> QED  BY <1>1, <2>1, <2>2, NewPlan, Lengths
<1>2. CASE MergeStepDone
  <2>1. i # current_step_index + 1
    BY <1>2, StepDone, DoneInVisit
  <2> QED  BY <1>2, <2>1, StepDone, Lengths
<1>3. CASE UNCHANGED plan
  BY <1>3, Lengths
<1> QED  BY <1>1, <1>2, <1>3, PlanKinds
         DEF SelectNextStep, SelectFinish, Works, PlanStays, MergeReplan, MergeStepReplan,
             Summarize, Ends, planner_vars, vars

(* Only a full replan gives up a step that is done: no partial replan (the   *)
(* steps planner_node keeps), merge or failure takes one away or alters its  *)
(* result.                                                                   *)
THEOREM DoneStepsStay == Spec => DoneStepsKept
<1>1. PlanInv /\ [Next]_vars => [KeepsDoneSteps]_vars
  BY StepKeepsDoneSteps
<1> QED  BY <1>1, PlanInvariant, PTL DEF Spec, DoneStepsKept

----
(***************************************************************************)
(* The run implements PlanExecution: planner_node makes the plan, a merged *)
(* "done" completes a step, a merged request asks for a replan, and the    *)
(* rest of the run is invisible until it answers or fails.                 *)
(***************************************************************************)
LEMMA Phases ==
    /\ pc = "finished" => Phase = "answered"
    /\ pc = "failed" => Phase = "failed"
    /\ pc \notin {"finished", "failed"} =>
         Phase = IF ShouldPlan THEN "planning" ELSE "working"
BY DEF Phase

LEMMA CompletedUpTo ==
    ASSUME NEW n \in 0 .. Len(plan), DoneUpTo(n), Len(plan) \in Nat
    PROVE  CompletedSteps = 1 .. n
BY DEF CompletedSteps, DoneUpTo

(* A step that only moves the runner or the loop is no step of PlanExecution. *)
LEMMA Stutters ==
    ASSUME PlanStays, pc \notin {"finished", "failed"}, pc' \notin {"finished", "failed"}
    PROVE  UNCHANGED PE!vars
BY Phases DEF PE!vars, PlanStays, Phase, ShouldPlan, CompletedSteps, ReplansSpent

LEMMA PlannerMakesPlan ==
    ASSUME RunInv, PlanOK, PlannerNode
    PROVE  PE!MakePlan
<1>1. /\ pc = "head" /\ pc' = "head" /\ ShouldPlan /\ planner_mode' = "initial" /\ plan' # <<>>
      /\ UNCHANGED <<replan_count, step_replan_count>>
  BY NewPlan DEF PlannerNode, budget_vars
<1>2. Phase = "planning" /\ Phase' = "working" /\ ReplansSpent' = ReplansSpent
  BY <1>1 DEF Phase, ShouldPlan, ReplansSpent
<1>3. ASSUME NEW kept \in 0 .. Len(plan), NEW fresh \in 1 .. MAX_PLAN_STEPS,
             1 .. kept = IF planner_mode = "step_replan" THEN CompletedSteps ELSE {},
             CompletedSteps' = 1 .. kept, Len(plan') = kept + fresh
      PROVE  PE!MakePlan
  BY <1>1, <1>2, <1>3 DEF PE!MakePlan
<1>4. CASE planner_mode = "step_replan"
  <2> DEFINE kept == current_step_index
             fresh == Len(plan') - current_step_index
  <2>1. kept \in 0 .. Len(plan) /\ fresh \in 1 .. MAX_PLAN_STEPS /\ Len(plan') = kept + fresh
    BY <1>4, NewPlan, Lengths
  <2>2. CompletedSteps = 1 .. kept
    BY <1>4, <2>1, CompletedUpTo, Lengths DEF PlanOK
  <2>3. CompletedSteps' = 1 .. kept
    <3>1. ASSUME NEW i \in 1 .. Len(plan')
          PROVE  plan'[i].status = "done" <=> i <= kept
      <4>1. CASE i <= kept
        BY <1>4, <2>1, <4>1, NewPlan
      <4>2. CASE i > kept
        BY <1>4, <2>1, <4>2, NewPlan, Lengths
      <4> QED  BY <2>1, <4>1, <4>2
    <3> QED  BY <2>1, <3>1 DEF CompletedSteps
  <2> QED  BY <1>3, <1>4, <2>1, <2>2, <2>3
<1>5. CASE planner_mode # "step_replan"
  <2>1. Len(plan') \in 1 .. MAX_PLAN_STEPS /\ CompletedSteps' = {}
    BY <1>5, NewPlan DEF CompletedSteps
  <2>2. 0 \in 0 .. Len(plan) /\ 1 .. 0 = {}
    BY Lengths
  <2> QED  BY <1>3, <1>5, <2>1, <2>2
<1> QED  BY <1>4, <1>5

LEMMA MergeCompletesStep ==
    ASSUME RunInv, MergeStepDone
    PROVE  PE!CompleteStep
<1>1. InVisit
  BY StepDone
<1>2. /\ DoneUpTo(current_step_index) /\ current_step_index + 1 \in 1 .. Len(plan)
      /\ planner_mode = "initial" /\ plan # <<>>
  BY <1>1, DoneInVisit
<1>3. /\ UNCHANGED <<planner_mode, replan_count, step_replan_count, Len(plan)>>
      /\ pc \notin {"finished", "failed"} /\ pc' \notin {"finished", "failed"} /\ plan' # <<>>
  BY StepDone DEF MergeStepDone, NodeReturned
<1>4. Phase = "working" /\ UNCHANGED <<Phase, planner_mode, Len(plan), ReplansSpent>>
  BY <1>2, <1>3 DEF Phase, ShouldPlan, ReplansSpent
<1>5. CompletedSteps = 1 .. (current_step_index + 1) - 1
  BY <1>2, CompletedUpTo, Lengths
<1>6. CompletedSteps' = 1 .. (current_step_index + 1)
  <2>1. ASSUME NEW i \in 1 .. Len(plan')
        PROVE  plan'[i].status = "done" <=> i <= current_step_index + 1
    <3>1. plan[i].status = "done" <=> i <= current_step_index
      BY <1>2, <1>3 DEF DoneUpTo
    <3>2. CASE i = current_step_index + 1
      BY <3>2, StepDone, Lengths
    <3>3. CASE i # current_step_index + 1
      <4>1. plan'[i] = plan[i]
        BY <1>3, <3>3, StepDone
      <4> QED  BY <3>1, <3>3, <4>1, Lengths
    <3> QED  BY <3>2, <3>3
  <2>2. CompletedSteps' = {i \in 1 .. Len(plan') : i <= current_step_index + 1}
    BY <2>1 DEF CompletedSteps
  <2>3. Len(plan') = Len(plan) /\ Len(plan) \in Nat /\ current_step_index \in Nat
    BY <1>3, Lengths
  <2> QED  BY <1>2, <2>2, <2>3
<1>7. \E i \in 1 .. Len(plan) : CompletedSteps = 1 .. i - 1 /\ CompletedSteps' = 1 .. i
  <2>1. current_step_index + 1 \in 1 .. Len(plan)
    BY <1>2
  <2> WITNESS current_step_index + 1 \in 1 .. Len(plan)
  <2> QED  BY <1>5, <1>6
<1> QED  BY <1>2, <1>4, <1>7 DEF PE!CompleteStep

LEMMA MergeAsksReplan ==
    ASSUME RunInv, MergeReplan \/ MergeStepReplan
    PROVE  PE!AskReplan
<1>1. InVisit /\ pc = "return" /\ pc' = "head" /\ UNCHANGED plan
  BY DEF MergeReplan, MergeStepReplan, NodeReturned, InVisit
<1>2. /\ DoneUpTo(current_step_index) /\ current_step_index + 1 \in 1 .. Len(plan)
      /\ ~ShouldPlan
  BY <1>1, DoneInVisit
<1>3. \/ /\ planner_mode' = "replan" /\ replan_count = 0 /\ replan_count' = 1
         /\ UNCHANGED step_replan_count
      \/ /\ planner_mode' = "step_replan" /\ step_replan_count = 0 /\ step_replan_count' = 1
         /\ UNCHANGED replan_count
  BY DEF MergeReplan, MergeStepReplan, NodeReturned, RunInv, ControlOK
<1>4. Phase = "working" /\ Phase' = "planning" /\ UNCHANGED <<Len(plan), CompletedSteps>>
  BY <1>1, <1>2, <1>3 DEF Phase, ShouldPlan, CompletedSteps
<1>5. CompletedSteps # 1 .. Len(plan)
  <2>1. current_step_index + 1 \notin CompletedSteps
    BY <1>1, DoneInVisit DEF CompletedSteps
  <2> QED  BY <1>2, <2>1
<1>6. /\ planner_mode' \in {"replan", "step_replan"} \ ReplansSpent
      /\ ReplansSpent' = ReplansSpent \cup {planner_mode'}
  BY <1>3 DEF ReplansSpent
<1> QED  BY <1>4, <1>5, <1>6 DEF PE!AskReplan

LEMMA SummaryAnswers ==
    ASSUME RunInv, PlanOK, Summarize
    PROVE  PE!Answer
<1>1. /\ pc = "summarize" /\ pc' = "finished" /\ ~ShouldPlan /\ AllDone
      /\ UNCHANGED <<plan, planner_mode, replan_count, step_replan_count>>
  BY DEF Summarize, PlanOK, planner_vars, budget_vars
<1>2. Phase = "working" /\ Phase' = "answered"
  BY <1>1 DEF Phase
<1>3. CompletedSteps = 1 .. Len(plan)
  BY <1>1 DEF CompletedSteps, AllDone
<1> QED  BY <1>1, <1>2, <1>3 DEF PE!Answer, CompletedSteps, ReplansSpent

LEMMA EndGivesUp ==
    ASSUME Ends
    PROVE  PE!GiveUp
<1>1. Phase \in {"planning", "working"} /\ Phase' = "failed"
  BY DEF Ends, Phase
<1> QED  BY <1>1 DEF PE!GiveUp, Ends, PlanStays, CompletedSteps, ReplansSpent

LEMMA StepImplemented == PlanInv /\ [Next]_vars => [PE!Next]_(PE!vars)
<1> SUFFICES ASSUME PlanInv, [Next]_vars PROVE [PE!Next]_(PE!vars)
  OBVIOUS
<1> USE DEF PlanInv
<1>1. CASE SelectNextStep \/ SelectFinish
  <2>1. /\ UNCHANGED <<plan, planner_mode, replan_count, step_replan_count>>
        /\ pc \notin {"finished", "failed"} /\ pc' \notin {"finished", "failed"}
    BY <1>1 DEF SelectNextStep, SelectFinish, planner_vars, budget_vars
  <2> QED  BY <2>1 DEF PE!vars, Phase, ShouldPlan, CompletedSteps, ReplansSpent
<1>2. CASE Works
  BY <1>2, Stutters DEF Works
<1>3. CASE UNCHANGED vars
  BY <1>3 DEF vars, planner_vars, budget_vars, PE!vars, Phase, ShouldPlan, CompletedSteps,
              ReplansSpent
<1> QED  BY <1>1, <1>2, <1>3, PlanKinds, PlannerMakesPlan, MergeCompletesStep, MergeAsksReplan,
            SummaryAnswers, EndGivesUp DEF PE!Next

(* Whatever the model, the tools and the subagents answer, the run is an     *)
(* execution of PlanExecution, step for step.                                *)
THEOREM RunImplementsPlanExecution == Spec => ImplementsPlanExecution
<1>1. Init => PE!Init
  BY DEF Init, PE!Init, Phase, ShouldPlan, CompletedSteps, ReplansSpent
<1> QED  BY <1>1, StepImplemented, PlanInvariant, PTL DEF Spec, ImplementsPlanExecution, PE!Spec
====
