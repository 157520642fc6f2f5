---- MODULE VerifierGraphProofs ----
(***************************************************************************)
(* The safety properties of the request graph, for every retry budget.     *)
(*                                                                         *)
(* The budgets bound the run because every verification but the last is    *)
(* paid for by a retry count, and the counts are capped: a retry of the    *)
(* answer costs two nodes, one of the tools four, one of the router at     *)
(* most five.  The rest of the invariant says which nodes a route leads to *)
(* and what each node finds when it starts.                                *)
(***************************************************************************)
EXTENDS VerifierGraphProperties, TLAPS

Retried == retries["answer"] + retries["tool"] + retries["chat"] + retries["router"]

(* Nodes already paid for by the retries that were taken. *)
Paid == 2 * retries["answer"] + 4 * retries["tool"] + 2 * retries["chat"]
        + 5 * retries["router"]

(* Nodes run since the last payment, when a node is about to run. *)
Since(n) ==
    CASE n = "router_node"        -> 0
      [] n \in {"agent_node", "tool_selector_node"} -> 1
      [] n = "tool_executor_node" -> 2
      [] n = "answer_node"        -> 3
      [] n = "verifier_node"      -> 4
      [] n = "context_memory_node" -> 5
      [] OTHER                    -> 6

Deciding == node \notin {"context_memory_node", "END", "raised"}

NodesCounted ==
    /\ executed <= Paid + Since(node)
    /\ verification_count <= Retried + 1
    /\ Deciding => verification_count = Retried

RouteTaken ==
    /\ node = "router_node" /\ retries["router"] = 0 => retries["tool"] = 0 /\ retries["chat"] = 0
    /\ node = "agent_node" => route = "agent"
    /\ node \in {"tool_selector_node", "tool_executor_node"} => route = "tool"
    /\ node \in {"answer_node", "verifier_node"} => route \in {"tool", "chat"}
    /\ retries["router"] = 0 =>
         /\ retries["tool"] > 0 => route = "tool"
         /\ retries["chat"] > 0 => route = "chat"

ResultsCurrent ==
    /\ node = "tool_executor_node" => tool_calls = selections
    /\ node = "answer_node" /\ route = "tool" => tool_calls = selections /\ tool_results = {tool_calls}

Undecided ==
    Deciding => /\ end_status = "none"
                /\ remembered = "nothing"
                /\ approved = FALSE
                /\ answer \in {"none", "empty", "text"}

Decided ==
    node \in {"context_memory_node", "END"} =>
        \/ /\ end_status = "finished"
           /\ answer \in {"empty", "text"}
           /\ approved \/ route = "agent"
        \/ /\ end_status = "failed"
           /\ approved = FALSE
           /\ \/ route = "agent" /\ answer = "agent_error"
              \/ route # "agent" /\ answer = "exhausted"

GraphInv ==
    /\ TypeOK
    /\ NodesCounted
    /\ RouteTaken
    /\ CheaperRetriesFirst
    /\ ResultsCurrent
    /\ AnswersUseCurrentResults
    /\ Undecided
    /\ Decided
    /\ OnlyAnswersRemembered

USE RetriesAssumption

LEMMA InitGraphInv == Init => GraphInv
  <1> SUFFICES ASSUME Init PROVE GraphInv OBVIOUS
  <1>1. /\ retries \in [Paths -> Nat]
        /\ \A path \in Paths : retries[path] = 0
        /\ retries["answer"] = 0 /\ retries["tool"] = 0
        /\ retries["chat"] = 0 /\ retries["router"] = 0
    BY DEF Init, Paths
  <1>2. TypeOK
    <2>1. WithinBudgets
      BY <1>1 DEF WithinBudgets, Paths, MaxRetries
    <2> QED BY <1>1, <2>1 DEF Init, TypeOK
  <1>3. NodesCounted /\ RouteTaken /\ CheaperRetriesFirst
    BY <1>1 DEF Init, NodesCounted, RouteTaken, CheaperRetriesFirst, Retried, Paid, Since
  <1>4. ResultsCurrent /\ AnswersUseCurrentResults
    BY DEF Init, ResultsCurrent, AnswersUseCurrentResults
  <1>5. Undecided /\ Decided /\ OnlyAnswersRemembered
    BY DEF Init, Undecided, Decided, OnlyAnswersRemembered
  <1> QED BY <1>2, <1>3, <1>4, <1>5 DEF GraphInv

(* Which path the verifier's retry takes, and that its budget allows it. *)
LEMMA RetryPathAllowed ==
  ASSUME TypeOK, route \in {"tool", "chat"}
  PROVE  /\ RetryPath \in {"answer", route, "router", "none"}
         /\ RetryPath # "none" => Affordable(RetryPath)
         /\ RetryPath = "router" => ~Affordable("answer") /\ ~Affordable(route)
  BY DEF RetryPath

(* One retry more, on each path, and the nodes it pays for. *)
LEMMA PaymentsAdd ==
  ASSUME NEW a \in Nat, NEW t \in Nat, NEW c \in Nat, NEW r \in Nat
  PROVE  /\ 2 * a + 4 * t + 2 * c + 5 * r \in Nat
         /\ a + t + c + r \in Nat
         /\ 2 * (a + 1) + 4 * t + 2 * c + 5 * r = (2 * a + 4 * t + 2 * c + 5 * r) + 2
         /\ 2 * a + 4 * (t + 1) + 2 * c + 5 * r = (2 * a + 4 * t + 2 * c + 5 * r) + 4
         /\ 2 * a + 4 * t + 2 * (c + 1) + 5 * r = (2 * a + 4 * t + 2 * c + 5 * r) + 2
         /\ 2 * a + 4 * t + 2 * c + 5 * (r + 1) = (2 * a + 4 * t + 2 * c + 5 * r) + 5
         /\ (a + 1) + t + c + r = (a + t + c + r) + 1
         /\ a + (t + 1) + c + r = (a + t + c + r) + 1
         /\ a + t + (c + 1) + r = (a + t + c + r) + 1
         /\ a + t + c + (r + 1) = (a + t + c + r) + 1
  OBVIOUS

(* A retry spends one of a budget, in the order of the costs. *)
LEMMA RetryInv ==
  ASSUME GraphInv, AnswerRetried
  PROVE  GraphInv'
  <1> DEFINE p == RetryPath
  <1>1. node = "verifier_node" /\ route \in {"tool", "chat"}
    BY DEF AnswerRetried, GraphInv, RouteTaken
  <1>2. /\ p \in {"answer", route, "router"}
        /\ Affordable(p)
        /\ p = "router" => ~Affordable("answer") /\ ~Affordable(route)
    BY <1>1, RetryPathAllowed DEF AnswerRetried, GraphInv
  <1>3. /\ node' = RetryNode(p)
        /\ executed' = executed + 1
        /\ verification_count' = verification_count + 1
        /\ retries' = [retries EXCEPT ![p] = @ + 1]
        /\ UNCHANGED <<request_vars, tool_vars, answer_vars, end_vars>>
    BY DEF AnswerRetried, Run
  <1> HIDE DEF p
  <1>4. retries[p] < MaxRetries(p) /\ p \in Paths
    BY <1>1, <1>2 DEF Affordable, Paths
  <1>5. /\ retries' \in [Paths -> Nat]
        /\ \A path \in Paths : retries'[path] = IF path = p THEN retries[p] + 1 ELSE retries[path]
    BY <1>3, <1>4 DEF GraphInv, TypeOK
  <1>6. /\ retries'["answer"] = IF p = "answer" THEN retries["answer"] + 1 ELSE retries["answer"]
        /\ retries'["tool"] = IF p = "tool" THEN retries["tool"] + 1 ELSE retries["tool"]
        /\ retries'["chat"] = IF p = "chat" THEN retries["chat"] + 1 ELSE retries["chat"]
        /\ retries'["router"] = IF p = "router" THEN retries["router"] + 1 ELSE retries["router"]
    BY <1>5 DEF Paths
  <1>7. /\ retries["answer"] \in Nat /\ retries["tool"] \in Nat
        /\ retries["chat"] \in Nat /\ retries["router"] \in Nat
    BY DEF GraphInv, TypeOK, Paths
  <1>8. TypeOK'
    <2>1. WithinBudgets'
      BY <1>4, <1>5 DEF GraphInv, TypeOK, WithinBudgets, Paths, MaxRetries
    <2>2. node' \in {"answer_node", "tool_selector_node", "router_node"}
      BY <1>3 DEF RetryNode
    <2> QED BY <1>3, <1>5, <2>1, <2>2
            DEF GraphInv, TypeOK, request_vars, tool_vars, answer_vars, end_vars
  <1>9. NodesCounted'
    <2>1. executed <= Paid + 4 /\ verification_count = Retried
      BY <1>1 DEF GraphInv, NodesCounted, Since, Deciding
    <2>2. executed \in Nat /\ verification_count \in Nat
      BY DEF GraphInv, TypeOK
    <2>3. CASE p = "answer"
      <3>1. node' = "answer_node" /\ Since(node)' = 3 /\ Deciding'
        BY <1>3, <2>3 DEF RetryNode, Since, Deciding
      <3>3. /\ retries'["answer"] = retries["answer"] + 1 /\ retries'["tool"] = retries["tool"]
            /\ retries'["chat"] = retries["chat"] /\ retries'["router"] = retries["router"]
        BY <1>6, <2>3
      <3>4. /\ Paid' = 2 * (retries["answer"] + 1) + 4 * retries["tool"] + 2 * retries["chat"]
                      + 5 * retries["router"]
            /\ Retried' = (retries["answer"] + 1) + retries["tool"] + retries["chat"] + retries["router"]
        BY <3>3, Zenon DEF Paid, Retried
      <3>2. Paid' = Paid + 2 /\ Retried' = Retried + 1 /\ Paid \in Nat /\ Retried \in Nat
        BY <1>7, <3>4, PaymentsAdd DEF Paid, Retried
      <3> QED BY <1>3, <2>1, <2>2, <3>1, <3>2 DEF NodesCounted
    <2>4. CASE p = "tool"
      <3>1. node' = "tool_selector_node" /\ Since(node)' = 1 /\ Deciding'
        BY <1>3, <2>4 DEF RetryNode, Since, Deciding
      <3>3. /\ retries'["answer"] = retries["answer"] /\ retries'["tool"] = retries["tool"] + 1
            /\ retries'["chat"] = retries["chat"] /\ retries'["router"] = retries["router"]
        BY <1>6, <2>4
      <3>4. /\ Paid' = 2 * retries["answer"] + 4 * (retries["tool"] + 1) + 2 * retries["chat"]
                      + 5 * retries["router"]
            /\ Retried' = retries["answer"] + (retries["tool"] + 1) + retries["chat"] + retries["router"]
        BY <3>3, Zenon DEF Paid, Retried
      <3>2. Paid' = Paid + 4 /\ Retried' = Retried + 1 /\ Paid \in Nat /\ Retried \in Nat
        BY <1>7, <3>4, PaymentsAdd DEF Paid, Retried
      <3> QED BY <1>3, <2>1, <2>2, <3>1, <3>2 DEF NodesCounted
    <2>5. CASE p = "chat"
      <3>1. node' = "answer_node" /\ Since(node)' = 3 /\ Deciding'
        BY <1>3, <2>5 DEF RetryNode, Since, Deciding
      <3>3. /\ retries'["answer"] = retries["answer"] /\ retries'["tool"] = retries["tool"]
            /\ retries'["chat"] = retries["chat"] + 1 /\ retries'["router"] = retries["router"]
        BY <1>6, <2>5
      <3>4. /\ Paid' = 2 * retries["answer"] + 4 * retries["tool"] + 2 * (retries["chat"] + 1)
                      + 5 * retries["router"]
            /\ Retried' = retries["answer"] + retries["tool"] + (retries["chat"] + 1) + retries["router"]
        BY <3>3, Zenon DEF Paid, Retried
      <3>2. Paid' = Paid + 2 /\ Retried' = Retried + 1 /\ Paid \in Nat /\ Retried \in Nat
        BY <1>7, <3>4, PaymentsAdd DEF Paid, Retried
      <3> QED BY <1>3, <2>1, <2>2, <3>1, <3>2 DEF NodesCounted
    <2>6. CASE p = "router"
      <3>1. node' = "router_node" /\ Since(node)' = 0 /\ Deciding'
        BY <1>3, <2>6 DEF RetryNode, Since, Deciding
      <3>3. /\ retries'["answer"] = retries["answer"] /\ retries'["tool"] = retries["tool"]
            /\ retries'["chat"] = retries["chat"] /\ retries'["router"] = retries["router"] + 1
        BY <1>6, <2>6
      <3>4. /\ Paid' = 2 * retries["answer"] + 4 * retries["tool"] + 2 * retries["chat"]
                      + 5 * (retries["router"] + 1)
            /\ Retried' = retries["answer"] + retries["tool"] + retries["chat"] + (retries["router"] + 1)
        BY <3>3, Zenon DEF Paid, Retried
      <3>2. Paid' = Paid + 5 /\ Paid \in Nat
        BY <1>7, <3>4, PaymentsAdd DEF Paid
      <3>5. Retried' = Retried + 1 /\ Retried \in Nat
        BY <1>7, <3>4, PaymentsAdd DEF Retried
      <3> QED BY <1>3, <2>1, <2>2, <3>1, <3>2, <3>5 DEF NodesCounted
    <2> QED BY <1>1, <1>2, <2>3, <2>4, <2>5, <2>6
  <1>10. RouteTaken'
    BY <1>1, <1>2, <1>3, <1>6, <1>7
       DEF GraphInv, RouteTaken, RetryNode, Affordable, request_vars
  <1>11. CheaperRetriesFirst'
    BY <1>1, <1>2, <1>3, <1>6, <1>7
       DEF GraphInv, TypeOK, WithinBudgets, CheaperRetriesFirst, RouteTaken, Affordable, MaxRetries, Paths
  <1>12. /\ ResultsCurrent'
         /\ AnswersUseCurrentResults'
         /\ Undecided'
         /\ Decided'
         /\ OnlyAnswersRemembered'
    BY <1>1, <1>2, <1>3
       DEF GraphInv, ResultsCurrent, AnswersUseCurrentResults, Undecided, Decided,
           OnlyAnswersRemembered, Deciding, RetryNode, request_vars, tool_vars,
           answer_vars, end_vars
  <1> QED BY <1>8, <1>9, <1>10, <1>11, <1>12 DEF GraphInv

(* What follows from spending no retry, which no other action does. *)
LEMMA RetriesKept ==
  ASSUME GraphInv, UNCHANGED retries
  PROVE  /\ retries' \in [Paths -> Nat]
         /\ WithinBudgets'
         /\ CheaperRetriesFirst'
         /\ Paid' = Paid /\ Paid \in Nat
         /\ Retried' = Retried /\ Retried \in Nat
  <1>1. /\ retries' \in [Paths -> Nat]
        /\ WithinBudgets'
        /\ CheaperRetriesFirst'
    BY DEF GraphInv, TypeOK, WithinBudgets, CheaperRetriesFirst, MaxRetries
  <1>2. Paid' = Paid /\ Retried' = Retried
    BY DEF Paid, Retried
  <1>3. /\ retries["answer"] \in Nat /\ retries["tool"] \in Nat
        /\ retries["chat"] \in Nat /\ retries["router"] \in Nat
    BY DEF GraphInv, TypeOK, Paths
  <1>4. Paid \in Nat /\ Retried \in Nat
    BY <1>3, PaymentsAdd DEF Paid, Retried
  <1> QED BY <1>1, <1>2, <1>4

LEMMA OtherStepsInv ==
  ASSUME GraphInv, Next, ~AnswerRetried
  PROVE  GraphInv'
  <1>0. /\ TypeOK /\ NodesCounted /\ RouteTaken /\ ResultsCurrent
        /\ AnswersUseCurrentResults /\ Undecided /\ Decided /\ OnlyAnswersRemembered
    BY DEF GraphInv
  <1>1. ASSUME RouterNode PROVE GraphInv'
    <2>1. UNCHANGED retries
      BY <1>1 DEF RouterNode, verdict_vars
    <2>2. /\ retries' \in [Paths -> Nat]
          /\ WithinBudgets'
          /\ Paid' = Paid /\ Paid \in Nat
          /\ Retried' = Retried /\ Retried \in Nat
      BY <2>1, RetriesKept
    <2>3. node' \in {"router_node", "agent_node", "tool_selector_node", "tool_executor_node",
                     "answer_node", "verifier_node", "context_memory_node", "END", "raised"}
      BY <1>0, <1>1 DEF RouterNode, RouteDecision, SelectableRoutes, TypeOK, Run, Undecided,
         Decided, Deciding, request_vars, tool_vars, answer_vars, verdict_vars, end_vars
    <2>4. /\ rag_document' \in BOOLEAN
          /\ approved' \in BOOLEAN
      BY <1>0, <1>1 DEF RouterNode, RouteDecision, SelectableRoutes, TypeOK, Run, Undecided,
         Decided, Deciding, request_vars, tool_vars, answer_vars, verdict_vars, end_vars
    <2>5. /\ route' \in {"none", "agent", "tool", "chat"}
          /\ answer' \in {"none", "empty", "text", "agent_error", "exhausted"}
          /\ end_status' \in {"none", "finished", "failed"}
          /\ remembered' \in {"nothing", "text", "agent_error", "exhausted"}
      BY <1>0, <1>1 DEF RouterNode, RouteDecision, SelectableRoutes, TypeOK, Run, Undecided,
         Decided, Deciding, request_vars, tool_vars, answer_vars, verdict_vars, end_vars
    <2>6. /\ tool_calls' \in Nat /\ selections' \in Nat
          /\ verification_count' \in Nat /\ executed' \in Nat
      BY <1>0, <1>1 DEF RouterNode, RouteDecision, SelectableRoutes, TypeOK, Run, Undecided,
         Decided, Deciding, request_vars, tool_vars, answer_vars, verdict_vars, end_vars
    <2>7. tool_results' \subseteq Nat /\ answer_results' \subseteq Nat
      BY <1>0, <1>1 DEF RouterNode, RouteDecision, SelectableRoutes, TypeOK, Run, Undecided,
         Decided, Deciding, request_vars, tool_vars, answer_vars, verdict_vars, end_vars
    <2>8. TypeOK'
      BY <2>2, <2>3, <2>4, <2>5, <2>6, <2>7 DEF TypeOK
    <2>9. NodesCounted' /\ RouteTaken'
      BY <1>0, <1>1, <2>1, <2>2 DEF RouterNode, RouteDecision, SelectableRoutes, TypeOK,
         NodesCounted, RouteTaken, Deciding, Since, Run, request_vars, verdict_vars
    <2>10. ResultsCurrent' /\ AnswersUseCurrentResults'
      BY <1>0, <1>1 DEF RouterNode, RouteDecision, SelectableRoutes, RouteTaken,
         ResultsCurrent, AnswersUseCurrentResults, Run, request_vars, tool_vars, answer_vars
    <2>11. Undecided' /\ Decided' /\ OnlyAnswersRemembered'
      BY <1>0, <1>1 DEF RouterNode, RouteDecision, SelectableRoutes, TypeOK, RouteTaken,
         Undecided, Decided, OnlyAnswersRemembered, Deciding, Run, request_vars, answer_vars,
         end_vars
    <2> QED BY <2>1, <2>8, <2>9, <2>10, <2>11, RetriesKept DEF GraphInv
  <1>2. ASSUME ToolSelectorNode PROVE GraphInv'
    <2>1. UNCHANGED retries
      BY <1>2 DEF ToolSelectorNode, verdict_vars
    <2>2. /\ retries' \in [Paths -> Nat]
          /\ WithinBudgets'
          /\ Paid' = Paid /\ Paid \in Nat
          /\ Retried' = Retried /\ Retried \in Nat
      BY <2>1, RetriesKept
    <2>3. node' \in {"router_node", "agent_node", "tool_selector_node", "tool_executor_node",
                     "answer_node", "verifier_node", "context_memory_node", "END", "raised"}
      BY <1>0, <1>2 DEF ToolSelectorNode, TypeOK, Run, Undecided, Decided, Deciding,
         request_vars, tool_vars, answer_vars, verdict_vars, end_vars
    <2>4. /\ rag_document' \in BOOLEAN
          /\ approved' \in BOOLEAN
      BY <1>0, <1>2 DEF ToolSelectorNode, TypeOK, Run, Undecided, Decided, Deciding,
         request_vars, tool_vars, answer_vars, verdict_vars, end_vars
    <2>5. /\ route' \in {"none", "agent", "tool", "chat"}
          /\ answer' \in {"none", "empty", "text", "agent_error", "exhausted"}
          /\ end_status' \in {"none", "finished", "failed"}
          /\ remembered' \in {"nothing", "text", "agent_error", "exhausted"}
      BY <1>0, <1>2 DEF ToolSelectorNode, TypeOK, Run, Undecided, Decided, Deciding,
         request_vars, tool_vars, answer_vars, verdict_vars, end_vars
    <2>6. /\ tool_calls' \in Nat /\ selections' \in Nat
          /\ verification_count' \in Nat /\ executed' \in Nat
      BY <1>0, <1>2 DEF ToolSelectorNode, TypeOK, Run, Undecided, Decided, Deciding,
         request_vars, tool_vars, answer_vars, verdict_vars, end_vars
    <2>7. tool_results' \subseteq Nat /\ answer_results' \subseteq Nat
      BY <1>0, <1>2 DEF ToolSelectorNode, TypeOK, Run, Undecided, Decided, Deciding,
         request_vars, tool_vars, answer_vars, verdict_vars, end_vars
    <2>8. TypeOK'
      BY <2>2, <2>3, <2>4, <2>5, <2>6, <2>7 DEF TypeOK
    <2>9. NodesCounted' /\ RouteTaken'
      BY <1>0, <1>2, <2>1, <2>2 DEF ToolSelectorNode, TypeOK, NodesCounted, RouteTaken,
         Deciding, Since, Run, request_vars, verdict_vars
    <2>10. ResultsCurrent' /\ AnswersUseCurrentResults'
      BY <1>0, <1>2 DEF ToolSelectorNode, RouteTaken, ResultsCurrent,
         AnswersUseCurrentResults, Run, request_vars, tool_vars, answer_vars
    <2>11. Undecided' /\ Decided' /\ OnlyAnswersRemembered'
      BY <1>0, <1>2 DEF ToolSelectorNode, TypeOK, RouteTaken, Undecided, Decided,
         OnlyAnswersRemembered, Deciding, Run, request_vars, answer_vars, end_vars
    <2> QED BY <2>1, <2>8, <2>9, <2>10, <2>11, RetriesKept DEF GraphInv
  <1>3. ASSUME ToolExecutorNode PROVE GraphInv'
    <2>1. UNCHANGED retries
      BY <1>3 DEF ToolExecutorNode, verdict_vars
    <2>2. /\ retries' \in [Paths -> Nat]
          /\ WithinBudgets'
          /\ Paid' = Paid /\ Paid \in Nat
          /\ Retried' = Retried /\ Retried \in Nat
      BY <2>1, RetriesKept
    <2>3. node' \in {"router_node", "agent_node", "tool_selector_node", "tool_executor_node",
                     "answer_node", "verifier_node", "context_memory_node", "END", "raised"}
      BY <1>0, <1>3 DEF ToolExecutorNode, TypeOK, Run, Undecided, Decided, Deciding,
         request_vars, tool_vars, answer_vars, verdict_vars, end_vars
    <2>4. /\ rag_document' \in BOOLEAN
          /\ approved' \in BOOLEAN
      BY <1>0, <1>3 DEF ToolExecutorNode, TypeOK, Run, Undecided, Decided, Deciding,
         request_vars, tool_vars, answer_vars, verdict_vars, end_vars
    <2>5. /\ route' \in {"none", "agent", "tool", "chat"}
          /\ answer' \in {"none", "empty", "text", "agent_error", "exhausted"}
          /\ end_status' \in {"none", "finished", "failed"}
          /\ remembered' \in {"nothing", "text", "agent_error", "exhausted"}
      BY <1>0, <1>3 DEF ToolExecutorNode, TypeOK, Run, Undecided, Decided, Deciding,
         request_vars, tool_vars, answer_vars, verdict_vars, end_vars
    <2>6. /\ tool_calls' \in Nat /\ selections' \in Nat
          /\ verification_count' \in Nat /\ executed' \in Nat
      BY <1>0, <1>3 DEF ToolExecutorNode, TypeOK, Run, Undecided, Decided, Deciding,
         request_vars, tool_vars, answer_vars, verdict_vars, end_vars
    <2>7. tool_results' \subseteq Nat /\ answer_results' \subseteq Nat
      BY <1>0, <1>3 DEF ToolExecutorNode, TypeOK, Run, Undecided, Decided, Deciding,
         request_vars, tool_vars, answer_vars, verdict_vars, end_vars
    <2>8. TypeOK'
      BY <2>2, <2>3, <2>4, <2>5, <2>6, <2>7 DEF TypeOK
    <2>9. NodesCounted' /\ RouteTaken'
      BY <1>0, <1>3, <2>1, <2>2 DEF ToolExecutorNode, TypeOK, NodesCounted, RouteTaken,
         Deciding, Since, Run, request_vars, verdict_vars
    <2>10. ResultsCurrent' /\ AnswersUseCurrentResults'
      BY <1>0, <1>3 DEF ToolExecutorNode, RouteTaken, ResultsCurrent,
         AnswersUseCurrentResults, Run, request_vars, tool_vars, answer_vars
    <2>11. Undecided' /\ Decided' /\ OnlyAnswersRemembered'
      BY <1>0, <1>3 DEF ToolExecutorNode, TypeOK, RouteTaken, Undecided, Decided,
         OnlyAnswersRemembered, Deciding, Run, request_vars, answer_vars, end_vars
    <2> QED BY <2>1, <2>8, <2>9, <2>10, <2>11, RetriesKept DEF GraphInv
  <1>4. ASSUME AnswerNode PROVE GraphInv'
    <2>1. UNCHANGED retries
      BY <1>4 DEF AnswerNode, verdict_vars
    <2>2. /\ retries' \in [Paths -> Nat]
          /\ WithinBudgets'
          /\ Paid' = Paid /\ Paid \in Nat
          /\ Retried' = Retried /\ Retried \in Nat
      BY <2>1, RetriesKept
    <2>3. node' \in {"router_node", "agent_node", "tool_selector_node", "tool_executor_node",
                     "answer_node", "verifier_node", "context_memory_node", "END", "raised"}
      BY <1>0, <1>4 DEF AnswerNode, AnswerSource, TypeOK, Run, Undecided, Decided, Deciding,
         request_vars, tool_vars, answer_vars, verdict_vars, end_vars
    <2>4. /\ rag_document' \in BOOLEAN
          /\ approved' \in BOOLEAN
      BY <1>0, <1>4 DEF AnswerNode, AnswerSource, TypeOK, Run, Undecided, Decided, Deciding,
         request_vars, tool_vars, answer_vars, verdict_vars, end_vars
    <2>5. /\ route' \in {"none", "agent", "tool", "chat"}
          /\ answer' \in {"none", "empty", "text", "agent_error", "exhausted"}
          /\ end_status' \in {"none", "finished", "failed"}
          /\ remembered' \in {"nothing", "text", "agent_error", "exhausted"}
      BY <1>0, <1>4 DEF AnswerNode, AnswerSource, TypeOK, Run, Undecided, Decided, Deciding,
         request_vars, tool_vars, answer_vars, verdict_vars, end_vars
    <2>6. /\ tool_calls' \in Nat /\ selections' \in Nat
          /\ verification_count' \in Nat /\ executed' \in Nat
      BY <1>0, <1>4 DEF AnswerNode, AnswerSource, TypeOK, Run, Undecided, Decided, Deciding,
         request_vars, tool_vars, answer_vars, verdict_vars, end_vars
    <2>7. tool_results' \subseteq Nat /\ answer_results' \subseteq Nat
      BY <1>0, <1>4 DEF AnswerNode, AnswerSource, TypeOK, Run, Undecided, Decided, Deciding,
         request_vars, tool_vars, answer_vars, verdict_vars, end_vars
    <2>8. TypeOK'
      BY <2>2, <2>3, <2>4, <2>5, <2>6, <2>7 DEF TypeOK
    <2>9. NodesCounted' /\ RouteTaken'
      BY <1>0, <1>4, <2>1, <2>2 DEF AnswerNode, AnswerSource, TypeOK, NodesCounted,
         RouteTaken, Deciding, Since, Run, request_vars, verdict_vars
    <2>10. ResultsCurrent' /\ AnswersUseCurrentResults'
      BY <1>0, <1>4 DEF AnswerNode, AnswerSource, RouteTaken, ResultsCurrent,
         AnswersUseCurrentResults, Run, request_vars, tool_vars, answer_vars
    <2>11. Undecided' /\ Decided' /\ OnlyAnswersRemembered'
      BY <1>0, <1>4 DEF AnswerNode, AnswerSource, TypeOK, RouteTaken, Undecided, Decided,
         OnlyAnswersRemembered, Deciding, Run, request_vars, answer_vars, end_vars
    <2> QED BY <2>1, <2>8, <2>9, <2>10, <2>11, RetriesKept DEF GraphInv
  <1>5. ASSUME AgentNode PROVE GraphInv'
    <2>1. UNCHANGED retries
      BY <1>5 DEF AgentNode, verdict_vars
    <2>2. /\ retries' \in [Paths -> Nat]
          /\ WithinBudgets'
          /\ Paid' = Paid /\ Paid \in Nat
          /\ Retried' = Retried /\ Retried \in Nat
      BY <2>1, RetriesKept
    <2>3. node' \in {"router_node", "agent_node", "tool_selector_node", "tool_executor_node",
                     "answer_node", "verifier_node", "context_memory_node", "END", "raised"}
      BY <1>0, <1>5 DEF AgentNode, TypeOK, Run, Undecided, Decided, Deciding, request_vars,
         tool_vars, answer_vars, verdict_vars, end_vars
    <2>4. /\ rag_document' \in BOOLEAN
          /\ approved' \in BOOLEAN
      BY <1>0, <1>5 DEF AgentNode, TypeOK, Run, Undecided, Decided, Deciding, request_vars,
         tool_vars, answer_vars, verdict_vars, end_vars
    <2>5. /\ route' \in {"none", "agent", "tool", "chat"}
          /\ answer' \in {"none", "empty", "text", "agent_error", "exhausted"}
          /\ end_status' \in {"none", "finished", "failed"}
          /\ remembered' \in {"nothing", "text", "agent_error", "exhausted"}
      BY <1>0, <1>5 DEF AgentNode, TypeOK, Run, Undecided, Decided, Deciding, request_vars,
         tool_vars, answer_vars, verdict_vars, end_vars
    <2>6. /\ tool_calls' \in Nat /\ selections' \in Nat
          /\ verification_count' \in Nat /\ executed' \in Nat
      BY <1>0, <1>5 DEF AgentNode, TypeOK, Run, Undecided, Decided, Deciding, request_vars,
         tool_vars, answer_vars, verdict_vars, end_vars
    <2>7. tool_results' \subseteq Nat /\ answer_results' \subseteq Nat
      BY <1>0, <1>5 DEF AgentNode, TypeOK, Run, Undecided, Decided, Deciding, request_vars,
         tool_vars, answer_vars, verdict_vars, end_vars
    <2>8. TypeOK'
      BY <2>2, <2>3, <2>4, <2>5, <2>6, <2>7 DEF TypeOK
    <2>9. NodesCounted' /\ RouteTaken'
      BY <1>0, <1>5, <2>1, <2>2 DEF AgentNode, TypeOK, NodesCounted, RouteTaken, Deciding,
         Since, Run, request_vars, verdict_vars
    <2>10. ResultsCurrent' /\ AnswersUseCurrentResults'
      BY <1>0, <1>5 DEF AgentNode, RouteTaken, ResultsCurrent, AnswersUseCurrentResults, Run,
         request_vars, tool_vars, answer_vars
    <2>11. Undecided' /\ Decided' /\ OnlyAnswersRemembered'
      BY <1>0, <1>5 DEF AgentNode, TypeOK, RouteTaken, Undecided, Decided,
         OnlyAnswersRemembered, Deciding, Run, request_vars, answer_vars, end_vars
    <2> QED BY <2>1, <2>8, <2>9, <2>10, <2>11, RetriesKept DEF GraphInv
  <1>6. ASSUME AnswerVerified PROVE GraphInv'
    <2>1. UNCHANGED retries
      BY <1>6 DEF AnswerVerified, verdict_vars
    <2>2. /\ retries' \in [Paths -> Nat]
          /\ WithinBudgets'
          /\ Paid' = Paid /\ Paid \in Nat
          /\ Retried' = Retried /\ Retried \in Nat
      BY <2>1, RetriesKept
    <2>3. node' \in {"router_node", "agent_node", "tool_selector_node", "tool_executor_node",
                     "answer_node", "verifier_node", "context_memory_node", "END", "raised"}
      BY <1>0, <1>6 DEF AnswerVerified, Hallucination, Blank, TypeOK, Run, Undecided, Decided,
         Deciding, request_vars, tool_vars, answer_vars, verdict_vars, end_vars
    <2>4. /\ rag_document' \in BOOLEAN
          /\ approved' \in BOOLEAN
      BY <1>0, <1>6 DEF AnswerVerified, Hallucination, Blank, TypeOK, Run, Undecided, Decided,
         Deciding, request_vars, tool_vars, answer_vars, verdict_vars, end_vars
    <2>5. /\ route' \in {"none", "agent", "tool", "chat"}
          /\ answer' \in {"none", "empty", "text", "agent_error", "exhausted"}
          /\ end_status' \in {"none", "finished", "failed"}
          /\ remembered' \in {"nothing", "text", "agent_error", "exhausted"}
      BY <1>0, <1>6 DEF AnswerVerified, Hallucination, Blank, TypeOK, Run, Undecided, Decided,
         Deciding, request_vars, tool_vars, answer_vars, verdict_vars, end_vars
    <2>6. /\ tool_calls' \in Nat /\ selections' \in Nat
          /\ verification_count' \in Nat /\ executed' \in Nat
      BY <1>0, <1>6 DEF AnswerVerified, Hallucination, Blank, TypeOK, Run, Undecided, Decided,
         Deciding, request_vars, tool_vars, answer_vars, verdict_vars, end_vars
    <2>7. tool_results' \subseteq Nat /\ answer_results' \subseteq Nat
      BY <1>0, <1>6 DEF AnswerVerified, Hallucination, Blank, TypeOK, Run, Undecided, Decided,
         Deciding, request_vars, tool_vars, answer_vars, verdict_vars, end_vars
    <2>8. TypeOK'
      BY <2>2, <2>3, <2>4, <2>5, <2>6, <2>7 DEF TypeOK
    <2>9. NodesCounted' /\ RouteTaken'
      BY <1>0, <1>6, <2>1, <2>2 DEF AnswerVerified, Hallucination, Blank, TypeOK,
         NodesCounted, RouteTaken, Deciding, Since, Run, request_vars, verdict_vars
    <2>10. ResultsCurrent' /\ AnswersUseCurrentResults'
      BY <1>0, <1>6 DEF AnswerVerified, Hallucination, Blank, RouteTaken, ResultsCurrent,
         AnswersUseCurrentResults, Run, request_vars, tool_vars, answer_vars
    <2>11. Undecided' /\ Decided' /\ OnlyAnswersRemembered'
      BY <1>0, <1>6 DEF AnswerVerified, Hallucination, Blank, TypeOK, RouteTaken, Undecided,
         Decided, OnlyAnswersRemembered, Deciding, Run, request_vars, answer_vars, end_vars
    <2> QED BY <2>1, <2>8, <2>9, <2>10, <2>11, RetriesKept DEF GraphInv
  <1>7. ASSUME RetriesExhausted PROVE GraphInv'
    <2>1. UNCHANGED retries
      BY <1>7 DEF RetriesExhausted, verdict_vars
    <2>2. /\ retries' \in [Paths -> Nat]
          /\ WithinBudgets'
          /\ Paid' = Paid /\ Paid \in Nat
          /\ Retried' = Retried /\ Retried \in Nat
      BY <2>1, RetriesKept
    <2>3. node' \in {"router_node", "agent_node", "tool_selector_node", "tool_executor_node",
                     "answer_node", "verifier_node", "context_memory_node", "END", "raised"}
      BY <1>0, <1>7 DEF RetriesExhausted, TypeOK, Run, Undecided, Decided, Deciding,
         request_vars, tool_vars, answer_vars, verdict_vars, end_vars
    <2>4. /\ rag_document' \in BOOLEAN
          /\ approved' \in BOOLEAN
      BY <1>0, <1>7 DEF RetriesExhausted, TypeOK, Run, Undecided, Decided, Deciding,
         request_vars, tool_vars, answer_vars, verdict_vars, end_vars
    <2>5. /\ route' \in {"none", "agent", "tool", "chat"}
          /\ answer' \in {"none", "empty", "text", "agent_error", "exhausted"}
          /\ end_status' \in {"none", "finished", "failed"}
          /\ remembered' \in {"nothing", "text", "agent_error", "exhausted"}
      BY <1>0, <1>7 DEF RetriesExhausted, TypeOK, Run, Undecided, Decided, Deciding,
         request_vars, tool_vars, answer_vars, verdict_vars, end_vars
    <2>6. /\ tool_calls' \in Nat /\ selections' \in Nat
          /\ verification_count' \in Nat /\ executed' \in Nat
      BY <1>0, <1>7 DEF RetriesExhausted, TypeOK, Run, Undecided, Decided, Deciding,
         request_vars, tool_vars, answer_vars, verdict_vars, end_vars
    <2>7. tool_results' \subseteq Nat /\ answer_results' \subseteq Nat
      BY <1>0, <1>7 DEF RetriesExhausted, TypeOK, Run, Undecided, Decided, Deciding,
         request_vars, tool_vars, answer_vars, verdict_vars, end_vars
    <2>8. TypeOK'
      BY <2>2, <2>3, <2>4, <2>5, <2>6, <2>7 DEF TypeOK
    <2>9. NodesCounted' /\ RouteTaken'
      BY <1>0, <1>7, <2>1, <2>2 DEF RetriesExhausted, TypeOK, NodesCounted, RouteTaken,
         Deciding, Since, Run, request_vars, verdict_vars
    <2>10. ResultsCurrent' /\ AnswersUseCurrentResults'
      BY <1>0, <1>7 DEF RetriesExhausted, RouteTaken, ResultsCurrent,
         AnswersUseCurrentResults, Run, request_vars, tool_vars, answer_vars
    <2>11. Undecided' /\ Decided' /\ OnlyAnswersRemembered'
      BY <1>0, <1>7 DEF RetriesExhausted, TypeOK, RouteTaken, Undecided, Decided,
         OnlyAnswersRemembered, Deciding, Run, request_vars, answer_vars, end_vars
    <2> QED BY <2>1, <2>8, <2>9, <2>10, <2>11, RetriesKept DEF GraphInv
  <1>8. ASSUME ContextMemoryNode PROVE GraphInv'
    <2>1. UNCHANGED retries
      BY <1>8 DEF ContextMemoryNode, verdict_vars
    <2>2. /\ retries' \in [Paths -> Nat]
          /\ WithinBudgets'
          /\ Paid' = Paid /\ Paid \in Nat
          /\ Retried' = Retried /\ Retried \in Nat
      BY <2>1, RetriesKept
    <2>3. node' \in {"router_node", "agent_node", "tool_selector_node", "tool_executor_node",
                     "answer_node", "verifier_node", "context_memory_node", "END", "raised"}
      BY <1>0, <1>8 DEF ContextMemoryNode, ShouldRecord, Blank, TypeOK, Run, Undecided,
         Decided, Deciding, request_vars, tool_vars, answer_vars, verdict_vars, end_vars
    <2>4. /\ rag_document' \in BOOLEAN
          /\ approved' \in BOOLEAN
      BY <1>0, <1>8 DEF ContextMemoryNode, ShouldRecord, Blank, TypeOK, Run, Undecided,
         Decided, Deciding, request_vars, tool_vars, answer_vars, verdict_vars, end_vars
    <2>5. /\ route' \in {"none", "agent", "tool", "chat"}
          /\ answer' \in {"none", "empty", "text", "agent_error", "exhausted"}
          /\ end_status' \in {"none", "finished", "failed"}
          /\ remembered' \in {"nothing", "text", "agent_error", "exhausted"}
      BY <1>0, <1>8 DEF ContextMemoryNode, ShouldRecord, Blank, TypeOK, Run, Undecided,
         Decided, Deciding, request_vars, tool_vars, answer_vars, verdict_vars, end_vars
    <2>6. /\ tool_calls' \in Nat /\ selections' \in Nat
          /\ verification_count' \in Nat /\ executed' \in Nat
      BY <1>0, <1>8 DEF ContextMemoryNode, ShouldRecord, Blank, TypeOK, Run, Undecided,
         Decided, Deciding, request_vars, tool_vars, answer_vars, verdict_vars, end_vars
    <2>7. tool_results' \subseteq Nat /\ answer_results' \subseteq Nat
      BY <1>0, <1>8 DEF ContextMemoryNode, ShouldRecord, Blank, TypeOK, Run, Undecided,
         Decided, Deciding, request_vars, tool_vars, answer_vars, verdict_vars, end_vars
    <2>8. TypeOK'
      BY <2>2, <2>3, <2>4, <2>5, <2>6, <2>7 DEF TypeOK
    <2>9. NodesCounted' /\ RouteTaken'
      BY <1>0, <1>8, <2>1, <2>2 DEF ContextMemoryNode, ShouldRecord, Blank, TypeOK,
         NodesCounted, RouteTaken, Deciding, Since, Run, request_vars, verdict_vars
    <2>10. ResultsCurrent' /\ AnswersUseCurrentResults'
      BY <1>0, <1>8 DEF ContextMemoryNode, ShouldRecord, Blank, RouteTaken, ResultsCurrent,
         AnswersUseCurrentResults, Run, request_vars, tool_vars, answer_vars
    <2>11. Undecided' /\ Decided' /\ OnlyAnswersRemembered'
      BY <1>0, <1>8 DEF ContextMemoryNode, ShouldRecord, Blank, TypeOK, RouteTaken, Undecided,
         Decided, OnlyAnswersRemembered, Deciding, Run, request_vars, answer_vars, end_vars
    <2> QED BY <2>1, <2>8, <2>9, <2>10, <2>11, RetriesKept DEF GraphInv
  <1>9. ASSUME NodeRaises PROVE GraphInv'
    <2>1. UNCHANGED retries
      BY <1>9 DEF NodeRaises, verdict_vars
    <2>2. /\ retries' \in [Paths -> Nat]
          /\ WithinBudgets'
          /\ Paid' = Paid /\ Paid \in Nat
          /\ Retried' = Retried /\ Retried \in Nat
      BY <2>1, RetriesKept
    <2>3. node' \in {"router_node", "agent_node", "tool_selector_node", "tool_executor_node",
                     "answer_node", "verifier_node", "context_memory_node", "END", "raised"}
      BY <1>0, <1>9 DEF NodeRaises, ShouldRecord, Blank, TypeOK, Run, Undecided, Decided,
         Deciding, request_vars, tool_vars, answer_vars, verdict_vars, end_vars
    <2>4. /\ rag_document' \in BOOLEAN
          /\ approved' \in BOOLEAN
      BY <1>0, <1>9 DEF NodeRaises, ShouldRecord, Blank, TypeOK, Run, Undecided, Decided,
         Deciding, request_vars, tool_vars, answer_vars, verdict_vars, end_vars
    <2>5. /\ route' \in {"none", "agent", "tool", "chat"}
          /\ answer' \in {"none", "empty", "text", "agent_error", "exhausted"}
          /\ end_status' \in {"none", "finished", "failed"}
          /\ remembered' \in {"nothing", "text", "agent_error", "exhausted"}
      BY <1>0, <1>9 DEF NodeRaises, ShouldRecord, Blank, TypeOK, Run, Undecided, Decided,
         Deciding, request_vars, tool_vars, answer_vars, verdict_vars, end_vars
    <2>6. /\ tool_calls' \in Nat /\ selections' \in Nat
          /\ verification_count' \in Nat /\ executed' \in Nat
      BY <1>0, <1>9 DEF NodeRaises, ShouldRecord, Blank, TypeOK, Run, Undecided, Decided,
         Deciding, request_vars, tool_vars, answer_vars, verdict_vars, end_vars
    <2>7. tool_results' \subseteq Nat /\ answer_results' \subseteq Nat
      BY <1>0, <1>9 DEF NodeRaises, ShouldRecord, Blank, TypeOK, Run, Undecided, Decided,
         Deciding, request_vars, tool_vars, answer_vars, verdict_vars, end_vars
    <2>8. TypeOK'
      BY <2>2, <2>3, <2>4, <2>5, <2>6, <2>7 DEF TypeOK
    <2>9. NodesCounted' /\ RouteTaken'
      BY <1>0, <1>9, <2>1, <2>2 DEF NodeRaises, ShouldRecord, Blank, TypeOK, NodesCounted,
         RouteTaken, Deciding, Since, Run, request_vars, verdict_vars
    <2>10. ResultsCurrent' /\ AnswersUseCurrentResults'
      BY <1>0, <1>9 DEF NodeRaises, ShouldRecord, Blank, RouteTaken, ResultsCurrent,
         AnswersUseCurrentResults, Run, request_vars, tool_vars, answer_vars
    <2>11. Undecided' /\ Decided' /\ OnlyAnswersRemembered'
      BY <1>0, <1>9 DEF NodeRaises, ShouldRecord, Blank, TypeOK, RouteTaken, Undecided,
         Decided, OnlyAnswersRemembered, Deciding, Run, request_vars, answer_vars, end_vars
    <2> QED BY <2>1, <2>8, <2>9, <2>10, <2>11, RetriesKept DEF GraphInv
  <1>10. ASSUME Over PROVE GraphInv'
    <2>1. UNCHANGED retries
      BY <1>10 DEF Over, verdict_vars, vars
    <2>2. /\ retries' \in [Paths -> Nat]
          /\ WithinBudgets'
          /\ Paid' = Paid /\ Paid \in Nat
          /\ Retried' = Retried /\ Retried \in Nat
      BY <2>1, RetriesKept
    <2>3. node' \in {"router_node", "agent_node", "tool_selector_node", "tool_executor_node",
                     "answer_node", "verifier_node", "context_memory_node", "END", "raised"}
      BY <1>0, <1>10 DEF Over, vars, TypeOK, Run, Undecided, Decided, Deciding, request_vars,
         tool_vars, answer_vars, verdict_vars, end_vars
    <2>4. /\ rag_document' \in BOOLEAN
          /\ approved' \in BOOLEAN
      BY <1>0, <1>10 DEF Over, vars, TypeOK, Run, Undecided, Decided, Deciding, request_vars,
         tool_vars, answer_vars, verdict_vars, end_vars
    <2>5. /\ route' \in {"none", "agent", "tool", "chat"}
          /\ answer' \in {"none", "empty", "text", "agent_error", "exhausted"}
          /\ end_status' \in {"none", "finished", "failed"}
          /\ remembered' \in {"nothing", "text", "agent_error", "exhausted"}
      BY <1>0, <1>10 DEF Over, vars, TypeOK, Run, Undecided, Decided, Deciding, request_vars,
         tool_vars, answer_vars, verdict_vars, end_vars
    <2>6. /\ tool_calls' \in Nat /\ selections' \in Nat
          /\ verification_count' \in Nat /\ executed' \in Nat
      BY <1>0, <1>10 DEF Over, vars, TypeOK, Run, Undecided, Decided, Deciding, request_vars,
         tool_vars, answer_vars, verdict_vars, end_vars
    <2>7. tool_results' \subseteq Nat /\ answer_results' \subseteq Nat
      BY <1>0, <1>10 DEF Over, vars, TypeOK, Run, Undecided, Decided, Deciding, request_vars,
         tool_vars, answer_vars, verdict_vars, end_vars
    <2>8. TypeOK'
      BY <2>2, <2>3, <2>4, <2>5, <2>6, <2>7 DEF TypeOK
    <2>9. NodesCounted' /\ RouteTaken'
      BY <1>0, <1>10, <2>1, <2>2 DEF Over, vars, TypeOK, NodesCounted, RouteTaken, Deciding,
         Since, Run, request_vars, verdict_vars
    <2>10. ResultsCurrent' /\ AnswersUseCurrentResults'
      BY <1>0, <1>10 DEF Over, vars, RouteTaken, ResultsCurrent, AnswersUseCurrentResults,
         Run, request_vars, tool_vars, answer_vars
    <2>11. Undecided' /\ Decided' /\ OnlyAnswersRemembered'
      BY <1>0, <1>10 DEF Over, vars, TypeOK, RouteTaken, Undecided, Decided,
         OnlyAnswersRemembered, Deciding, Run, request_vars, answer_vars, end_vars
    <2> QED BY <2>1, <2>8, <2>9, <2>10, <2>11, RetriesKept DEF GraphInv
  <1> QED BY <1>1, <1>2, <1>3, <1>4, <1>5, <1>6, <1>7, <1>8, <1>9, <1>10 DEF Next

LEMMA NextGraphInv == GraphInv /\ [Next]_vars => GraphInv'
  <1>1. GraphInv /\ UNCHANGED vars => GraphInv'
    <2> SUFFICES ASSUME GraphInv, UNCHANGED vars PROVE GraphInv' OBVIOUS
    <2> USE DEF GraphInv
    <2>1. UNCHANGED <<node, rag_document, route, tool_calls, tool_results, selections, answer,
                      answer_results, approved, retries, verification_count, end_status,
                      remembered, executed>>
      BY DEF vars, request_vars, tool_vars, answer_vars, verdict_vars, end_vars
    <2>2. WithinBudgets'
      BY <2>1 DEF TypeOK, WithinBudgets, MaxRetries
    <2>3. TypeOK'
      BY <2>1, <2>2 DEF TypeOK
    <2>4. NodesCounted' /\ RouteTaken'
      BY <2>1 DEF NodesCounted, RouteTaken, Deciding, Retried, Paid, Since
    <2>5. CheaperRetriesFirst'
      BY <2>1 DEF CheaperRetriesFirst, MaxRetries
    <2>6. /\ ResultsCurrent' /\ AnswersUseCurrentResults'
          /\ Undecided' /\ Decided' /\ OnlyAnswersRemembered'
      BY <2>1 DEF ResultsCurrent, AnswersUseCurrentResults, Undecided, Decided, Deciding,
                  OnlyAnswersRemembered
    <2> QED BY <2>3, <2>4, <2>5, <2>6
  <1> QED BY <1>1, RetryInv, OtherStepsInv

(* GraphInv holds throughout. *)
LEMMA GraphInvariant == Spec => []GraphInv
  BY InitGraphInv, NextGraphInv, PTL DEF Spec

(* Every variable keeps its type and no retry count passes its maximum, for  *)
(* whatever budgets the retry constants of langgraph.py grant.               *)
THEOREM GraphTypeCorrect == Spec => []TypeOK
  <1>1. GraphInv => TypeOK BY DEF GraphInv
  <1> QED BY <1>1, GraphInvariant, PTL

(* The verifier and the graph run a bounded number of times, as a function   *)
(* of the four budgets: no order of routes and verdicts gets a request more. *)
THEOREM GraphBounded == Spec => []RunIsBounded
  <1>1. GraphInv => RunIsBounded
    <2> SUFFICES ASSUME GraphInv PROVE RunIsBounded OBVIOUS
    <2>1. /\ retries["answer"] \in 0 .. MAX_DIRECT_ANSWER_RETRIES
          /\ retries["tool"] \in 0 .. MAX_TOOL_RETRIES
          /\ retries["chat"] \in 0 .. MAX_CHAT_RETRIES
          /\ retries["router"] \in 0 .. MAX_ROUTER_RETRIES
      BY DEF GraphInv, TypeOK, WithinBudgets, Paths, MaxRetries
    <2>2. /\ verification_count <= Retried + 1
          /\ executed <= Paid + 6
      <3>1. Since(node) \in 0 .. 6
        BY DEF Since
      <3>2. Paid \in Int
        BY <2>1 DEF Paid
      <3> QED BY <3>1, <3>2 DEF GraphInv, NodesCounted, TypeOK
    <2>3. retries["tool"] = 0 \/ retries["chat"] = 0
      BY DEF GraphInv, CheaperRetriesFirst
    <2>4. CASE retries["tool"] = 0
      BY <2>1, <2>2, <2>4 DEF RunIsBounded, Larger, Retried, Paid, GraphInv, TypeOK
    <2>5. CASE retries["chat"] = 0
      BY <2>1, <2>2, <2>5 DEF RunIsBounded, Larger, Retried, Paid, GraphInv, TypeOK
    <2> QED BY <2>3, <2>4, <2>5
  <1> QED BY <1>1, GraphInvariant, PTL

(* Retries are taken in the order of their cost and on one route only. *)
THEOREM RetriesOrdered == Spec => []CheaperRetriesFirst
  <1>1. GraphInv => CheaperRetriesFirst BY DEF GraphInv
  <1> QED BY <1>1, GraphInvariant, PTL

(* The verifier never sees an answer written from the results of another     *)
(* selection than the last.                                                  *)
THEOREM ResultsAreCurrent == Spec => []AnswersUseCurrentResults
  <1>1. GraphInv => AnswersUseCurrentResults BY DEF GraphInv
  <1> QED BY <1>1, GraphInvariant, PTL

(* What a request reports is what happened to its answer. *)
THEOREM OutcomeReported == Spec => []EndStatusTellsTheOutcome
  <1>1. GraphInv => EndStatusTellsTheOutcome
    BY DEF GraphInv, EndStatusTellsTheOutcome, Decided, TypeOK
  <1> QED BY <1>1, GraphInvariant, PTL

(* The context memory takes in nothing but accepted answers and the agent's. *)
THEOREM MemoryOfAnswersOnly == Spec => []OnlyAnswersRemembered
  <1>1. GraphInv => OnlyAnswersRemembered BY DEF GraphInv
  <1> QED BY <1>1, GraphInvariant, PTL
====
