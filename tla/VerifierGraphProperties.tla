---- MODULE VerifierGraphProperties ----
(***************************************************************************)
(* What the request graph promises, for any retry budgets.                 *)
(***************************************************************************)
EXTENDS VerifierGraph

WithinBudgets == \A path \in Paths : retries[path] <= MaxRetries(path)

TypeOK ==
    /\ node \in {"router_node", "agent_node", "tool_selector_node", "tool_executor_node",
                 "answer_node", "verifier_node", "context_memory_node", "END", "raised"}
    /\ rag_document \in BOOLEAN
    /\ route \in {"none", "agent", "tool", "chat"}
    /\ tool_calls \in Nat
    /\ tool_results \subseteq Nat
    /\ answer \in {"none", "empty", "text", "agent_error", "exhausted"}
    /\ answer_results \subseteq Nat
    /\ retries \in [Paths -> Nat]
    /\ WithinBudgets
    /\ verification_count \in Nat
    /\ end_status \in {"none", "finished", "failed"}
    /\ remembered \in {"nothing", "text", "agent_error", "exhausted"}
    /\ approved \in BOOLEAN
    /\ selections \in Nat
    /\ executed \in Nat

(* What the verifier judges on the tool route was written from, and is       *)
(* judged against, the results of the last selection alone: no retry mixes   *)
(* in the results of a selection that was rejected or of an earlier routing. *)
AnswersUseCurrentResults ==
    node = "verifier_node" /\ route = "tool" =>
        /\ tool_calls = selections
        /\ tool_results = {tool_calls}
        /\ answer_results = tool_results

Larger(m, n) == IF m >= n THEN m ELSE n

(* Every request ends: the verifier runs at most six times in it and the     *)
(* graph takes at most 26 steps, whichever routes the router chooses.  (A    *)
(* step is a node that runs, and a node can always run or raise.)            *)
RunIsBounded ==
    /\ verification_count <= 1 + MAX_DIRECT_ANSWER_RETRIES
                               + Larger(MAX_TOOL_RETRIES, MAX_CHAT_RETRIES)
                               + MAX_ROUTER_RETRIES
    /\ executed <= 5 * (1 + MAX_ROUTER_RETRIES) + 2 * MAX_DIRECT_ANSWER_RETRIES
                     + Larger(4 * MAX_TOOL_RETRIES, 2 * MAX_CHAT_RETRIES) + 1

(* The question is routed again only when answering again and the retries of *)
(* the first route have failed, and a request never spends the retries of    *)
(* both routes.                                                              *)
CheaperRetriesFirst ==
    /\ retries["router"] > 0 =>
         /\ retries["answer"] = MAX_DIRECT_ANSWER_RETRIES
         /\ \E path \in {"tool", "chat"} : retries[path] = MaxRetries(path)
    /\ retries["tool"] = 0 \/ retries["chat"] = 0

(* A request says it finished exactly when its answer is the agent's or one  *)
(* the verifier accepted, after whatever was tried before.                   *)
EndStatusTellsTheOutcome ==
    node = "END" =>
        /\ end_status = "finished" <=> approved \/ (route = "agent" /\ answer # "agent_error")
        /\ end_status = "failed" <=> answer \in {"exhausted", "agent_error"}

(* The context memory, which later requests are planned with, holds no       *)
(* rejected answer, no error and no apology, even when a node raises.        *)
OnlyAnswersRemembered ==
    remembered # "nothing" => remembered = "text" /\ (approved \/ route = "agent")
====
