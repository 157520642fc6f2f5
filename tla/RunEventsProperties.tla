---- MODULE RunEventsProperties ----
(***************************************************************************)
(* What the handlers of a run, and the file of its events, can rely on.    *)
(***************************************************************************)
EXTENDS RunEvents, FiniteSets

Stages == {"begin", "load", "iterate", "start", "node", "log", "finish", "merged", "summarize",
           "answer", "success", "finally", "close"}

Events == {"run.started", "agent.error", "agent.answer", "run.finished",
           "agent.node.started", "agent.loop.thought", "agent.log", "agent.node.finished",
           "agent.step.started", "agent.step.finished"}
          \X (Nodes \cup {"run", "step", "finished", "failed"})

(* The types; and no handler took more than was published. *)
TypeOK ==
    /\ pc \in Stages \X (Nodes \cup {"run"})
    /\ event \in Events \cup {NoEvent}
    /\ subscriber \in Subscribers
    /\ iteration \in 0 .. MAX_ITERATIONS
    /\ thoughts \in 0 .. MAX_THOUGHTS
    /\ failed \in BOOLEAN /\ planned \in BOOLEAN
    /\ status \in {"failed", "finished"}
    /\ remembered \in BOOLEAN /\ raising \in BOOLEAN /\ interrupted \in BOOLEAN
    /\ result \in {"none", "returned", "raised"}
    /\ published \in Seq(Events)
    /\ seen \in [Subscribers -> Seq(Events)]
    /\ \A s \in Subscribers : Len(seen[s]) <= Len(published)

File == seen[Writer]

Last(s) == s[Len(s)]

(* A run that got past its first event is over only when its end was         *)
(* announced: run.finished is published exactly once and last, whichever     *)
(* handlers raised and however the run was interrupted.                      *)
EndIsAnnounced ==
    result # "none" /\ Len(published) > 1 =>
        \A i \in 1 .. Len(published) :
            published[i][1] = "run.finished" <=> i = Len(published)

(* The events file says "finished" exactly when run() returns an answer, and *)
(* then holds every event of the run; only a run stopped by hand after its   *)
(* end was written may say so and raise.                                     *)
FileTellsTheOutcome ==
    result # "none" =>
        /\ result = "returned" => File = published
        /\ (File # <<>> /\ Last(File) = <<"run.finished", "finished">>)
             <=> result = "returned" \/ (interrupted /\ status = "finished" /\ File = published)

(* However many handlers raise, the events file lacks at most four events of *)
(* a run, the one being published included: a thought, an event of the node  *)
(* that failed with it, the error and the end.                               *)
FileIsNearlyComplete == Len(published) - Len(File) <= 4

(* A run that returns has remembered its answer, and its answer was          *)
(* published after that: later runs are planned with every answer a user saw.*)
AnswersAreRemembered ==
    /\ result = "returned" => remembered
    /\ \A i \in 1 .. Len(published) : published[i][1] = "agent.answer" => remembered
====
