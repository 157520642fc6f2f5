---- MODULE RunEvents ----
(***************************************************************************)
(* The events of one agent run, src/core/llm/Agent/AgentRuner.py: run,     *)
(* _run_agent and _run_node publish them on a bus, which calls its         *)
(* subscribers one after the other; any of them may raise.  What the nodes *)
(* do is AgentRun's; here they only succeed or fail.                       *)
(***************************************************************************)
EXTENDS Naturals, Sequences

CONSTANTS
    SUBSCRIBERS,     \* handlers on the bus, the events file included
    MAX_ITERATIONS,  \* of the loop of _run_agent
    MAX_THOUGHTS     \* bound: thoughts of one visit to the agent loop

ASSUME SubscribersAssumption == SUBSCRIBERS \in Nat \ {0}
ASSUME BoundsAssumption == MAX_ITERATIONS \in Nat /\ MAX_THOUGHTS \in Nat

VARIABLES
    pc,          \* what run() does next, and with which node
    event,       \* the event being published, or NoEvent
    subscriber,  \* the handler called with it
    iteration,
    thoughts,    \* of this visit
    failed,      \* agent_status is "failed"
    planned,     \* the next iteration need not plan
    status,      \* of run(): "failed" until the answer was published
    remembered,  \* the answer is in the context memory file
    raising,     \* an exception is leaving run()
    result,      \* "none", "returned" or "raised"
    published,   \* history: events published
    seen,        \* the events that each handler took
    interrupted  \* history: a KeyboardInterrupt came

agent_vars == <<iteration, thoughts, failed, planned>>
run_vars   == <<status, remembered, result>>
bus_vars   == <<event, subscriber, published, seen>>

vars == <<pc, agent_vars, run_vars, raising, bus_vars, interrupted>>

Subscribers == 1 .. SUBSCRIBERS

(* Mistake: the events file is subscribed before the handlers of the caller. *)
FirstSubscriber == 1

(* The writer is subscribed after the extra handlers. *)
Writer == SUBSCRIBERS

NoEvent == <<"none", "none">>

Init ==
    /\ pc = <<"begin", "run">>
    /\ event = NoEvent /\ subscriber = 1
    /\ iteration = 0 /\ thoughts = 0
    /\ failed = FALSE /\ planned = FALSE
    /\ status = "failed" /\ remembered = FALSE
    /\ raising = FALSE /\ result = "none"
    /\ published = <<>>
    /\ seen = [s \in Subscribers |-> <<>>]
    /\ interrupted = FALSE

----
At(stage, what) == pc = <<stage, what>> /\ event = NoEvent

Publish(type, about, then) ==
    /\ event' = <<type, about>>
    /\ subscriber' = 1
    /\ published' = Append(published, event')
    /\ pc' = then
    /\ UNCHANGED seen

Go(then) == pc' = then /\ event' = NoEvent /\ UNCHANGED <<subscriber, published, seen>>

Close == Go(<<"close", "run">>)

(* The finally clause publishes how the run ended, whatever was raised. *)
Finally == Publish("run.finished", status, <<"close", "run">>)

(* Mistake: the exception passes the finally clause by. *)
RaisePastFinally == Publish("agent.error", "run", <<"close", "run">>)

(* An exception in the try block of run(). *)
RaiseInTry == Publish("agent.error", "run", <<"finally", "run">>)

(* EventBus.publish *)
Deliver ==
    /\ event # NoEvent
    /\ seen' = [seen EXCEPT ![subscriber] = Append(@, event)]
    /\ IF subscriber = SUBSCRIBERS
       THEN event' = NoEvent /\ UNCHANGED subscriber
       ELSE subscriber' = subscriber + 1 /\ UNCHANGED event
    /\ UNCHANGED <<pc, agent_vars, run_vars, raising, published, interrupted>>

(* Mistake: the bus logs what a handler raises and drops the event. *)
HandlerIgnored ==
    /\ event # NoEvent
    /\ event' = NoEvent
    /\ UNCHANGED <<pc, agent_vars, run_vars, raising, subscriber, published, seen, interrupted>>

(* A handler raises, and the handlers after it do not get the event.  The    *)
(* exception goes where the publisher is: to the agent loop, which fails the *)
(* step; before or after the try block, out of run(); in its except clause,  *)
(* to the finally clause; else to the except clause.                         *)
HandlerRaises ==
    /\ event # NoEvent
    /\ failed' = (failed \/ event[1] = "agent.loop.thought")
    /\ raising' = (raising \/ event[1] \in {"run.started", "agent.error", "run.finished"})
    /\ CASE event[1] = "agent.loop.thought"               -> Go(<<"log", pc[2]>>)
         [] event[1] \in {"run.started", "run.finished"}  -> Close
         [] event[1] = "agent.error"                      -> Finally
         [] OTHER                                         -> RaiseInTry
    /\ UNCHANGED <<iteration, thoughts, planned, run_vars, interrupted>>

(* No except clause takes a KeyboardInterrupt. *)
Interrupt ==
    /\ ~interrupted /\ result = "none"
    /\ interrupted' = TRUE
    /\ raising' = TRUE
    /\ IF pc[1] \in {"begin", "close"} \/ event[1] = "run.started" THEN Close ELSE Finally
    /\ UNCHANGED <<agent_vars, run_vars>>

----
Plain == UNCHANGED <<agent_vars, run_vars, raising, interrupted>>

RunStarted ==
    /\ At("begin", "run")
    /\ Publish("run.started", "run", <<"load", "run">>)
    /\ Plain

(* The context memory file is read before the first iteration. *)
Load ==
    /\ At("load", "run")
    /\ Go(<<"iterate", "run">>) \/ RaiseInTry
    /\ Plain

(* Mistake: one iteration too many. *)
IterateOnceMore ==
    /\ At("iterate", "run")
    /\ IF iteration > MAX_ITERATIONS
       THEN RaiseInTry /\ UNCHANGED iteration
       ELSE /\ Go(<<"start", IF planned THEN "select_next_step_node" ELSE "planner_node">>)
            /\ iteration' = iteration + 1
    /\ UNCHANGED <<thoughts, failed, planned, run_vars, raising, interrupted>>

Iterate ==
    /\ At("iterate", "run")
    /\ IF iteration = MAX_ITERATIONS
       THEN RaiseInTry /\ UNCHANGED iteration
       ELSE /\ Go(<<"start", IF planned THEN "select_next_step_node" ELSE "planner_node">>)
            /\ iteration' = iteration + 1
    /\ UNCHANGED <<thoughts, failed, planned, run_vars, raising, interrupted>>

(* _run_node: the node between its two events, and what it logged. *)
Nodes == {"planner_node", "select_next_step_node", "agent_loop_node"}

NodeStarted ==
    \E node \in Nodes :
        /\ At("start", node)
        /\ Publish("agent.node.started", node, <<"node", node>>)
        /\ thoughts' = 0
        /\ UNCHANGED <<iteration, failed, planned, run_vars, raising, interrupted>>

(* The agent loop tells its thoughts while it runs. *)
Thought ==
    /\ At("node", "agent_loop_node")
    /\ thoughts < MAX_THOUGHTS
    /\ Publish("agent.loop.thought", "agent_loop_node", <<"node", "agent_loop_node">>)
    /\ thoughts' = thoughts + 1
    /\ UNCHANGED <<iteration, failed, planned, run_vars, raising, interrupted>>

NodeReturns ==
    \E node \in Nodes :
        /\ At("node", node)
        /\ Go(<<"log", node>>)
        /\ failed' \in IF node = "select_next_step_node" THEN {FALSE} ELSE BOOLEAN
        /\ UNCHANGED <<iteration, thoughts, planned, run_vars, raising, interrupted>>

Logged ==
    \E node \in Nodes :
        /\ At("log", node)
        /\ Publish("agent.log", node, <<"finish", node>>)
        /\ Plain

NodeFinished ==
    \E node \in Nodes :
        /\ At("finish", node)
        /\ Publish("agent.node.finished", node, <<"merged", node>>)
        /\ Plain

(* _raise_if_failed *)
RaiseIfFailed ==
    /\ \E node \in Nodes : At("merged", node)
    /\ failed
    /\ RaiseInTry
    /\ Plain

Planned ==
    /\ At("merged", "planner_node") /\ ~failed
    /\ Go(<<"iterate", "run">>)
    /\ planned' = TRUE
    /\ UNCHANGED <<iteration, thoughts, failed, run_vars, raising, interrupted>>

(* No step is left, or one was selected; it is announced if it has an id. *)
Selected ==
    /\ At("merged", "select_next_step_node") /\ ~failed
    /\ \/ Go(<<"summarize", "run">>)
       \/ Go(<<"start", "agent_loop_node">>)
       \/ Publish("agent.step.started", "step", <<"start", "agent_loop_node">>)
    /\ Plain

(* A step was done, or the planner is asked to replan.  What is announced is *)
(* looked up by id: a step without one is not, and after a replan request an *)
(* earlier step of the same id may be, once more.                            *)
Visited ==
    /\ At("merged", "agent_loop_node") /\ ~failed
    /\ \/ Go(<<"iterate", "run">>)
       \/ Publish("agent.step.finished", "step", <<"iterate", "run">>)
    /\ planned' \in BOOLEAN
    /\ UNCHANGED <<iteration, thoughts, failed, run_vars, raising, interrupted>>

----
SummaryRaises == At("summarize", "run") /\ RaiseInTry /\ Plain

(* The answer is appended to the context memory file, which is then read.    *)
Remember ==
    /\ At("summarize", "run")
    /\ Go(<<"answer", "run">>)
    /\ remembered' = TRUE
    /\ UNCHANGED <<agent_vars, status, result, raising, interrupted>>

(* Mistake: a failure to remember the answer is ignored. *)
RememberFailureIgnored ==
    /\ At("summarize", "run")
    /\ Go(<<"answer", "run">>)
    /\ remembered' \in BOOLEAN
    /\ UNCHANGED <<agent_vars, status, result, raising, interrupted>>

(* The file cannot be appended to, or not be read afterwards. *)
RememberRaises ==
    /\ At("summarize", "run")
    /\ RaiseInTry
    /\ remembered' \in BOOLEAN
    /\ UNCHANGED <<agent_vars, status, result, raising, interrupted>>

Answered ==
    /\ At("answer", "run")
    /\ Publish("agent.answer", "run", <<"success", "run">>)
    /\ Plain

Finished ==
    /\ At("success", "run")
    /\ Go(<<"finally", "run">>)
    /\ status' = "finished"
    /\ UNCHANGED <<agent_vars, remembered, result, raising, interrupted>>

RunFinished == At("finally", "run") /\ Finally /\ Plain

(* The events file is closed, and run() returns or raises. *)
End ==
    /\ At("close", "run") /\ result = "none"
    /\ result' = IF status = "finished" /\ ~raising THEN "returned" ELSE "raised"
    /\ UNCHANGED <<pc, agent_vars, status, remembered, raising, bus_vars, interrupted>>

Over == result # "none" /\ UNCHANGED vars

Next ==
    \/ Deliver \/ HandlerRaises \/ Interrupt
    \/ RunStarted \/ Load \/ Iterate
    \/ NodeStarted \/ Thought \/ NodeReturns \/ Logged \/ NodeFinished \/ RaiseIfFailed
    \/ Planned \/ Selected \/ Visited
    \/ SummaryRaises \/ Remember \/ RememberRaises \/ Answered
    \/ Finished \/ RunFinished \/ End
    \/ Over

Spec == Init /\ [][Next]_vars
====
