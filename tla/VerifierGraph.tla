---- MODULE VerifierGraph ----
(***************************************************************************)
(* The graph of src/core/llm/langgraph.py that answers one API request:    *)
(* route the question, then answer it with the agent, with tools or by     *)
(* chat; verify what was not answered by the agent, retry what the         *)
(* verifier rejects, and remember what may be remembered.  One action per  *)
(* node; agent_node is the loop modelled by AgentRun, seen here by what it *)
(* returns.                                                                *)
(***************************************************************************)
EXTENDS Integers

CONSTANTS
    MAX_DIRECT_ANSWER_RETRIES,  \* 1
    MAX_TOOL_RETRIES,           \* 2
    MAX_CHAT_RETRIES,           \* 1
    MAX_ROUTER_RETRIES          \* 2

ASSUME RetriesAssumption ==
    /\ MAX_DIRECT_ANSWER_RETRIES \in Nat
    /\ MAX_TOOL_RETRIES \in Nat
    /\ MAX_CHAT_RETRIES \in Nat
    /\ MAX_ROUTER_RETRIES \in Nat

VARIABLES
    node,                \* the node to run next, "END", or "raised"
    rag_document,        \* file_info is there and use_rag is set
    route,
    tool_calls,          \* the selection they come from, 0 for []
    tool_results,        \* the selections whose calls these are the results of
    answer,              \* what "answer" holds
    answer_results,      \* the tool results the answer was written from
    retries,             \* the four *_retry_count
    verification_count,
    end_status,
    remembered,          \* what was appended to the context memory file
    approved,            \* history: the verifier accepted this very answer
    selections,          \* history: times the tool selector ran
    executed             \* history: nodes run

request_vars == <<rag_document, route>>
tool_vars    == <<tool_calls, tool_results, selections>>
answer_vars  == <<answer, answer_results, approved>>
verdict_vars == <<retries, verification_count>>
end_vars     == <<end_status, remembered>>

vars == <<node, request_vars, tool_vars, answer_vars, verdict_vars, end_vars, executed>>

Paths == {"answer", "tool", "chat", "router"}

MaxRetries(path) ==
    CASE path = "answer" -> MAX_DIRECT_ANSWER_RETRIES
      [] path = "tool"   -> MAX_TOOL_RETRIES
      [] path = "chat"   -> MAX_CHAT_RETRIES
      [] path = "router" -> MAX_ROUTER_RETRIES

Init ==
    /\ node = "router_node"
    /\ rag_document \in BOOLEAN
    /\ route = "none"
    /\ tool_calls = 0
    /\ tool_results = {}
    /\ answer = "none"
    /\ answer_results = {}
    /\ retries = [path \in Paths |-> 0]
    /\ verification_count = 0
    /\ end_status = "none"
    /\ remembered = "nothing"
    /\ approved = FALSE
    /\ selections = 0
    /\ executed = 0

----
(* A node that returns, and the edge taken after it. *)
Run(this, next) ==
    /\ node = this
    /\ node' = next
    /\ executed' = executed + 1

Blank(text) == text \in {"none", "empty"}

(* route_decision *)
RouteDecision(chosen) ==
    CASE chosen = "agent" -> "agent_node"
      [] chosen = "tool"  -> "tool_selector_node"
      [] chosen = "chat"  -> "answer_node"

(* A document is always the agent's.  Otherwise the model decides, and an    *)
(* answer that makes no sense is read as no, so any route can come out.      *)
SelectableRoutes == IF rag_document THEN {"agent"} ELSE {"agent", "tool", "chat"}

RouterNode ==
    \E chosen \in SelectableRoutes :
        /\ Run("router_node", RouteDecision(chosen))
        /\ route' = chosen
        /\ tool_calls' = 0
        /\ UNCHANGED <<rag_document, tool_results, selections, answer_vars,
                       verdict_vars, end_vars>>

(* Whatever the model selects, maybe nothing, replaces the last selection. *)
ToolSelectorNode ==
    /\ Run("tool_selector_node", "tool_executor_node")
    /\ selections' = selections + 1
    /\ tool_calls' = selections'
    /\ UNCHANGED <<request_vars, tool_results, answer_vars, verdict_vars, end_vars>>

(* Mistake: the results are collected over the rounds. *)
CollectToolResults ==
    /\ Run("tool_executor_node", "answer_node")
    /\ tool_results' = tool_results \cup {tool_calls}
    /\ UNCHANGED <<request_vars, tool_calls, selections, answer_vars, verdict_vars, end_vars>>

ToolExecutorNode ==
    /\ Run("tool_executor_node", "answer_node")
    /\ tool_results' = {tool_calls}
    /\ UNCHANGED <<request_vars, tool_calls, selections, answer_vars, verdict_vars, end_vars>>

(* _answer_user_message: the tool results on the tool route, the question    *)
(* alone on the chat route.                                                  *)
AnswerSource == IF route = "tool" THEN tool_results ELSE {}

(* The model may answer nothing. *)
AnswerNode ==
    /\ Run("answer_node", "verifier_node")
    /\ answer' \in {"empty", "text"}
    /\ answer_results' = AnswerSource
    /\ approved' = FALSE
    /\ UNCHANGED <<request_vars, tool_vars, verdict_vars, end_vars>>

(* The agent's answer or its error; its summary may be empty. *)
AgentNode ==
    /\ Run("agent_node", "context_memory_node")
    /\ \/ answer' \in {"empty", "text"} /\ end_status' = "finished"
       \/ answer' = "agent_error" /\ end_status' = "failed"
    /\ answer_results' = {}
    /\ approved' = FALSE
    /\ UNCHANGED <<request_vars, tool_vars, verdict_vars, remembered>>

----
(* Mistake: once rerouted, the new route gets its own retries again. *)
AffordableOnAnyRoute(path) ==
    /\ retries[path] < MaxRetries(path)
    /\ path \in {"tool", "chat"} => route = path

(* Mistake: the limit itself may be passed once. *)
AffordableAtLimit(path) ==
    /\ retries[path] <= MaxRetries(path)
    /\ path # "router" => retries["router"] = 0
    /\ path \in {"tool", "chat"} => route = path

(* What is left of a path's budget may be spent; after the first rerouting   *)
(* only rerouting is.                                                        *)
Affordable(path) ==
    /\ retries[path] < MaxRetries(path)
    /\ path # "router" => retries["router"] = 0
    /\ path \in {"tool", "chat"} => route = path

(* Mistake: the cheap retry of the answer comes last. *)
RerouteFirst ==
    CASE Affordable("router") -> "router"
      [] ~Affordable("router") /\ Affordable("answer") -> "answer"
      [] OTHER -> "none"

(* _next_verifier_step: answer again, then the route's own retry, then       *)
(* reroute.                                                                  *)
RetryPath ==
    CASE Affordable("answer") -> "answer"
      [] ~Affordable("answer") /\ Affordable(route) -> route
      [] ~Affordable("answer") /\ ~Affordable(route) /\ Affordable("router") -> "router"
      [] OTHER -> "none"

RetryNode(path) ==
    CASE path = "router" -> "router_node"
      [] path = "tool"   -> "tool_selector_node"
      [] OTHER           -> "answer_node"

(* _verify_answer: a blank answer is rejected unasked; any other may be, by  *)
(* the model's verdict or because its verdict cannot be read.                *)
Hallucination == IF Blank(answer) THEN {TRUE} ELSE BOOLEAN

AnswerVerified ==
    /\ FALSE \in Hallucination
    /\ Run("verifier_node", "context_memory_node")
    /\ verification_count' = verification_count + 1
    /\ end_status' = "finished"
    /\ approved' = TRUE
    /\ UNCHANGED <<request_vars, tool_vars, answer, answer_results, retries, remembered>>

AnswerRetried ==
    /\ node = "verifier_node" /\ RetryPath # "none"
    /\ Run("verifier_node", RetryNode(RetryPath))
    /\ verification_count' = verification_count + 1
    /\ retries' = [retries EXCEPT ![RetryPath] = @ + 1]
    /\ UNCHANGED <<request_vars, tool_vars, answer_vars, end_vars>>

(* Mistake: the apology is an answer like any other. *)
FinishedUnverified ==
    /\ node = "verifier_node" /\ RetryPath = "none"
    /\ Run("verifier_node", "context_memory_node")
    /\ verification_count' = verification_count + 1
    /\ end_status' = "finished"
    /\ answer' = "exhausted"
    /\ UNCHANGED <<request_vars, tool_vars, answer_results, approved, retries, remembered>>

RetriesExhausted ==
    /\ node = "verifier_node" /\ RetryPath = "none"
    /\ Run("verifier_node", "context_memory_node")
    /\ verification_count' = verification_count + 1
    /\ end_status' = "failed"
    /\ answer' = "exhausted"
    /\ UNCHANGED <<request_vars, tool_vars, answer_results, approved, retries, remembered>>

----
(* Mistake: any answer is remembered, how the run ended is not looked at. *)
RecordAnyAnswer == ~Blank(answer)

ShouldRecord == end_status = "finished" /\ ~Blank(answer)

ContextMemoryNode ==
    /\ Run("context_memory_node", "END")
    /\ remembered' = IF ShouldRecord THEN answer ELSE remembered
    /\ UNCHANGED <<request_vars, tool_vars, answer_vars, verdict_vars, end_status>>

(* A model call, a tool or the context memory file raises out of the node    *)
(* and out of invoke; the file may have been appended to before it is read.  *)
NodeRaises ==
    /\ node \notin {"END", "raised"}
    /\ node' = "raised"
    /\ remembered' \in (IF node = "context_memory_node" /\ ShouldRecord
                        THEN {remembered, answer} ELSE {remembered})
    /\ UNCHANGED <<request_vars, tool_vars, answer_vars, verdict_vars, end_status, executed>>

(* invoke has returned or raised. *)
Over ==
    /\ node \in {"END", "raised"}
    /\ UNCHANGED vars

Next ==
    \/ RouterNode
    \/ ToolSelectorNode
    \/ ToolExecutorNode
    \/ AnswerNode
    \/ AgentNode
    \/ AnswerVerified
    \/ AnswerRetried
    \/ RetriesExhausted
    \/ ContextMemoryNode
    \/ NodeRaises
    \/ Over

Spec == Init /\ [][Next]_vars
====
