---- MODULE MCAgentRun ----
(* The instances of AgentRun that TLC explores. *)
EXTENDS AgentRunProperties

(* Plans numbered as the planner prompt asks. *)
NumberedPlans == {<<1>>, <<1, 2>>}

(* A single-step plan, one whose first id is empty and one that repeats an  *)
(* id, which _parse_agent_plan accepts, and two lengths it refuses.         *)
SomePlans == {<<1>>, <<NoStep, 2>>, <<1, 1>>, <<>>, <<1, 2, 3>>}

SingleSteps == {<<1>>}
====
