---- MODULE MCRunEvents ----
(* RunEvents with two handlers of the caller and the events file.            *)
EXTENDS RunEventsProperties
====
