---- MODULE MCVerifierGraph ----
(* VerifierGraph with the budgets of langgraph.py: its state space is finite. *)
EXTENDS VerifierGraphProperties
====
