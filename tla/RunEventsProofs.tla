---- MODULE RunEventsProofs ----
(***************************************************************************)
(* The safety properties of the events of a run, for any number of         *)
(* handlers, iterations and thoughts.                                      *)
(*                                                                         *)
(* What the file lacks depends on where run() is: nothing but the event    *)
(* that is being delivered, until a handler before the writer raises; then *)
(* at most one event for each clause that the exception passes on its way  *)
(* out.  So the invariant ties the stage of the run to the event on the    *)
(* bus, to the end of what was published and to how far behind the file is.*)
(***************************************************************************)
EXTENDS RunEventsProperties, SequenceTheorems, TLAPS

Delivering == event # NoEvent

(* The stage run() is in when it is back from publishing an event. *)
StageAfter(type) ==
    CASE type = "run.started"         -> "load"
      [] type = "agent.step.finished" -> "iterate"
      [] type = "agent.step.started"  -> "start"
      [] type \in {"agent.node.started", "agent.loop.thought"} -> "node"
      [] type = "agent.log"           -> "finish"
      [] type = "agent.node.finished" -> "merged"
      [] type = "agent.answer"        -> "success"
      [] type = "agent.error"         -> "finally"
      [] type = "run.finished"        -> "close"

BusOK ==
    /\ Delivering => /\ pc[1] = StageAfter(event[1])
                     /\ Len(published) > 0 /\ published[Len(published)] = event
    /\ pc[1] = "begin" => published = <<>>
    /\ event[1] = "run.started" => Len(published) = 1

(* No handler is ahead of the bus. *)
HandlersBehind ==
    \A s \in Subscribers :
        Len(seen[s]) + (IF Delivering /\ s >= subscriber THEN 1 ELSE 0) <= Len(published)

(* run.finished is the last event, if it is one. *)
EndIsLast ==
    \A i \in 1 .. Len(published) :
        published[i][1] = "run.finished" => pc[1] = "close" /\ i = Len(published)

EndIsThere ==
    pc[1] = "close" =>
        \/ Len(published) <= 1 /\ status = "failed"
        \/ Len(published) > 0 /\ published[Len(published)] = <<"run.finished", status>>

(* The exceptions of the agent loop that fail a step have lost a thought. *)
Intact ==
    \/ pc[1] \in {"begin", "load", "iterate", "start", "node", "summarize", "answer", "success"}
    \/ pc[1] \in {"log", "finish", "merged"} /\ ~failed
    \/ pc[1] \in {"finally", "close"} /\ status = "finished"

Undelivered == \E e \in Events : published = Append(File, e)

FileCurrent ==
    Intact => \/ ~Delivering /\ File = published
              \/ Undelivered /\ (Delivering \/ (pc[1] = "close" /\ raising))

Lost == Len(published) - Len(File)

LossBounded ==
    /\ pc[1] \in {"log", "finish", "merged"} => Lost <= IF Delivering THEN 2 ELSE 1
    /\ pc[1] = "finally" => Lost <= 3
    /\ Lost <= 4

StatusOK ==
    /\ raising => pc[1] = "close"
    /\ status = "finished" => pc[1] \in {"finally", "close"} /\ remembered
    /\ pc[1] \in {"finally", "close"} /\ status = "finished" /\ Delivering => pc[1] = "close"
    /\ status = "finished" /\ raising /\ (Delivering \/ File = published) => interrupted
    /\ result # "none" => pc[1] = "close" /\ ~Delivering
    /\ result = "returned" => status = "finished" /\ ~raising
    /\ result = "raised" => status # "finished" \/ raising

(* Only a run that has its answer tells its handlers so. *)
NoFalseEnd ==
    /\ event = <<"run.finished", "finished">> => status = "finished"
    /\ \A i \in 1 .. Len(File) : File[i] = <<"run.finished", "finished">> => status = "finished"

AnswerKept ==
    /\ pc[1] \in {"answer", "success"} => remembered
    /\ remembered => pc[1] \in {"answer", "success", "finally", "close"}
    /\ \A i \in 1 .. Len(published) : published[i][1] = "agent.answer" => remembered

EventsInv ==
    /\ TypeOK
    /\ BusOK /\ HandlersBehind
    /\ EndIsLast /\ EndIsThere
    /\ FileCurrent /\ LossBounded
    /\ StatusOK /\ NoFalseEnd /\ AnswerKept

----
(* What a step of the bus does, whoever takes it. *)

Told(type, about) ==
    /\ event' = <<type, about>> /\ event'[1] = type /\ event' \in Events /\ Delivering'
    /\ published' \in Seq(Events) /\ Len(published') = Len(published) + 1
    /\ published'[Len(published) + 1] = <<type, about>>
    /\ \A i \in 1 .. Len(published') :
         \/ i \in 1 .. Len(published) /\ published'[i] = published[i]
         \/ i = Len(published') /\ published'[i] = <<type, about>>
    /\ File = published => Undelivered'

Silent ==
    /\ event' = NoEvent /\ event'[1] = "none" /\ ~Delivering'
    /\ published' = published
    /\ Undelivered' <=> Undelivered

HandlersKept ==
    /\ seen' = seen /\ File' = File
    /\ subscriber' \in Subscribers
    /\ HandlersBehind'

LEMMA FileType == TypeOK => File \in Seq(Events) /\ Writer \in Subscribers /\ 1 \in Subscribers
BY SubscribersAssumption DEF TypeOK, File, Writer, Subscribers

LEMMA PublishFacts ==
    ASSUME EventsInv, NEW type, NEW about, NEW then, <<type, about>> \in Events,
           Publish(type, about, then)
    PROVE  Told(type, about) /\ HandlersKept /\ pc' = then
<1> USE DEF EventsInv, Publish
<1>1. Told(type, about)
  <2>1. event' # NoEvent
    BY DEF Events, NoEvent
  <2>2. /\ published' \in Seq(Events) /\ Len(published') = Len(published) + 1
        /\ published'[Len(published) + 1] = <<type, about>>
        /\ \A i \in 1 .. Len(published) : published'[i] = published[i]
        /\ Len(published) \in Nat
    BY DEF TypeOK
  <2>3. File' = File
    BY DEF File
  <2>4. File = published => Undelivered'
    BY <2>2, <2>3 DEF Undelivered, TypeOK
  <2> QED  BY <2>1, <2>2, <2>4 DEF Told, Delivering
<1>2. seen' = seen /\ File' = File /\ subscriber' \in Subscribers
  BY FileType DEF File
<1>3. ASSUME NEW s \in Subscribers PROVE Len(seen'[s]) + 1 <= Len(published')
  <2>1. Len(seen[s]) <= Len(published) /\ Len(seen[s]) \in Nat /\ Len(published) \in Nat
    BY DEF TypeOK
  <2> QED  BY <1>1, <2>1 DEF Told
<1>4. HandlersBehind'
  BY <1>1, <1>2, <1>3, SubscribersAssumption DEF HandlersBehind, Told, Subscribers
<1> QED  BY <1>1, <1>2, <1>4 DEF HandlersKept

LEMMA GoFacts ==
    ASSUME EventsInv, NEW then, Go(then)
    PROVE  Silent /\ HandlersKept /\ pc' = then
<1> USE DEF EventsInv, Go
<1>1. Silent
  BY DEF Silent, Delivering, NoEvent, Undelivered, File
<1>2. HandlersBehind'
  BY DEF HandlersBehind, Delivering, TypeOK
<1> QED  BY <1>1, <1>2 DEF HandlersKept, TypeOK, File

LEMMA LossFacts ==
    TypeOK => /\ Lost \in Int
              /\ File = published => Lost = 0
              /\ Undelivered => /\ Lost = 1
                                /\ \A i \in 1 .. Len(File) : File[i] = published[i] /\ i < Len(published)
<1> SUFFICES ASSUME TypeOK PROVE LossFacts!2
  OBVIOUS
<1>1. File \in Seq(Events) /\ published \in Seq(Events)
  BY FileType DEF TypeOK
<1>2. ASSUME Undelivered
      PROVE  /\ Len(published) = Len(File) + 1
             /\ \A i \in 1 .. Len(File) : File[i] = published[i]
  BY <1>1, <1>2 DEF Undelivered
<1> QED  BY <1>1, <1>2 DEF Lost

LEMMA LossTold ==
    ASSUME EventsInv, NEW type, NEW about, Told(type, about), HandlersKept
    PROVE  Lost' = Lost + 1 /\ Lost \in Int
BY LossFacts, FileType DEF Told, HandlersKept, Lost, EventsInv, TypeOK

LEMMA LossSilent ==
    ASSUME EventsInv, Silent, HandlersKept
    PROVE  Lost' = Lost
BY LossFacts, FileType DEF Silent, HandlersKept, Lost

----
(* A step of the try block that raises nothing. *)
Ordinary ==
    /\ ~Delivering
    /\ pc[1] \notin {"finally", "close"}
    /\ pc' \in Stages \X (Nodes \cup {"run"})
    /\ pc'[1] \notin {"begin", "finally", "close"}
    /\ pc'[1] \in {"answer", "success"} <=> remembered'
    /\ remembered => remembered'
    /\ Intact' => Intact
    /\ iteration' \in 0 .. MAX_ITERATIONS /\ thoughts' \in 0 .. MAX_THOUGHTS
    /\ failed' \in BOOLEAN /\ planned' \in BOOLEAN /\ remembered' \in BOOLEAN
    /\ UNCHANGED <<status, result, raising, interrupted>>

(* An event of the try block is the only one that the file may lack. *)
LEMMA TellInv ==
    ASSUME EventsInv, Ordinary, NEW type, NEW about, Told(type, about), HandlersKept,
           pc'[1] = StageAfter(type), type \notin {"agent.error", "run.finished"},
           type = "run.started" => pc[1] = "begin",
           type = "agent.answer" => remembered
    PROVE  EventsInv'
<1> USE DEF EventsInv, Ordinary, Told, HandlersKept
<1>1. TypeOK'
  BY DEF TypeOK
<1>2. BusOK' /\ EndIsThere'
  BY DEF BusOK, EndIsThere, TypeOK
<1>3. EndIsLast' /\ FileCurrent'
  BY DEF EndIsLast, FileCurrent, Intact, TypeOK
<1>4. LossBounded'
  <2>1. Lost <= 1
    BY LossFacts DEF LossBounded, FileCurrent, Intact, TypeOK, Stages
  <2> QED  BY <2>1, LossTold DEF LossBounded
<1>5. StatusOK' /\ NoFalseEnd'
  BY DEF StatusOK, NoFalseEnd
<1>6. AnswerKept'
  BY DEF AnswerKept, TypeOK
<1> QED  BY <1>1, <1>2, <1>3, <1>4, <1>5, <1>6

LEMMA GoInv ==
    ASSUME EventsInv, Ordinary, Silent, HandlersKept
    PROVE  EventsInv'
<1> USE DEF EventsInv, Ordinary, Silent, HandlersKept
<1>1. TypeOK'
  BY DEF TypeOK
<1>2. BusOK' /\ EndIsLast' /\ EndIsThere'
  BY DEF BusOK, EndIsLast, EndIsThere
<1>3. FileCurrent'
  BY DEF FileCurrent, Intact
<1>4. LossBounded'
  <2>1. Lost <= 1
    BY LossFacts DEF LossBounded, FileCurrent, Intact, TypeOK, Stages
  <2> QED  BY <2>1, LossFacts, LossSilent DEF LossBounded
<1>5. StatusOK' /\ NoFalseEnd'
  BY DEF StatusOK, NoFalseEnd, NoEvent
<1>6. AnswerKept'
  BY DEF AnswerKept
<1> QED  BY <1>1, <1>2, <1>3, <1>4, <1>5, <1>6

(* The except clause: a thought, the event of a node and now the error may   *)
(* be missing.                                                               *)
LEMMA RaiseInTryInv ==
    ASSUME EventsInv, RaiseInTry, pc[1] \notin {"begin", "finally", "close"},
           failed' \in BOOLEAN, remembered' \in BOOLEAN, remembered => remembered',
           UNCHANGED <<iteration, thoughts, planned, status, result, raising, interrupted>>
    PROVE  EventsInv'
<1> USE DEF EventsInv
<1>0. Told("agent.error", "run") /\ HandlersKept /\ pc' = <<"finally", "run">>
  BY PublishFacts DEF RaiseInTry, Events
<1> USE <1>0 DEF Told, HandlersKept
<1>1. TypeOK'
  BY DEF TypeOK, Stages
<1>2. BusOK' /\ EndIsThere'
  BY DEF BusOK, EndIsThere, TypeOK, StageAfter
<1>3. EndIsLast' /\ FileCurrent' /\ StatusOK' /\ NoFalseEnd'
  BY DEF EndIsLast, TypeOK, FileCurrent, Intact, StatusOK, NoFalseEnd
<1>4. Lost <= 2
  BY LossFacts DEF LossBounded, FileCurrent, Intact, TypeOK, Stages
<1>5. LossBounded'
  BY <1>4, LossTold DEF LossBounded
<1>6. AnswerKept'
  BY DEF AnswerKept, TypeOK
<1> QED  BY <1>1, <1>2, <1>3, <1>5, <1>6

(* The finally clause tells how the run ended, which is the last event. *)
LEMMA FinallyInv ==
    ASSUME EventsInv, Finally, pc[1] \notin {"begin", "close"}, result = "none",
           raising' \in BOOLEAN, interrupted' \in BOOLEAN,
           raising' /\ status = "finished" => interrupted',
           UNCHANGED <<agent_vars, run_vars>>
    PROVE  EventsInv'
<1> USE DEF EventsInv
<1>0. Told("run.finished", status) /\ HandlersKept /\ pc' = <<"close", "run">>
  BY PublishFacts DEF Finally, Events, TypeOK
<1> USE <1>0 DEF Told, HandlersKept, agent_vars, run_vars
<1>1. TypeOK'
  BY DEF TypeOK, Stages
<1>2. BusOK' /\ EndIsLast' /\ EndIsThere'
  BY DEF BusOK, EndIsLast, EndIsThere, TypeOK, StageAfter
<1>3. FileCurrent'
  BY DEF FileCurrent, Intact, StatusOK
<1>4. LossBounded'
  <2>1. Lost <= 3
    BY LossFacts DEF LossBounded, FileCurrent, Intact, TypeOK, Stages
  <2> QED  BY <2>1, LossTold DEF LossBounded
<1>5. status = "finished" => File' # published'
  BY <1>3, LossFacts, LossTold DEF StatusOK, FileCurrent, Intact
<1>6. StatusOK'
  BY <1>5 DEF StatusOK
<1>7. NoFalseEnd' /\ AnswerKept'
  BY DEF NoFalseEnd, AnswerKept, TypeOK, StatusOK
<1> QED  BY <1>1, <1>2, <1>3, <1>4, <1>6, <1>7

(* What raises before the try block or after it publishes nothing. *)
LEMMA CloseInv ==
    ASSUME EventsInv, Close, result = "none", raising', interrupted' \in BOOLEAN,
           UNCHANGED <<iteration, thoughts, planned, run_vars>>, failed' \in BOOLEAN,
           \/ pc[1] = "begin" \/ event[1] = "run.started"
           \/ pc[1] = "close" /\ (Delivering \/ interrupted'),
           interrupted => interrupted'
    PROVE  EventsInv'
<1> USE DEF EventsInv
<1>0. Silent /\ HandlersKept /\ pc' = <<"close", "run">>
  BY GoFacts DEF Close
<1> USE <1>0 DEF Silent, HandlersKept, run_vars
<1>1. TypeOK'
  BY DEF TypeOK, Stages
<1>2. BusOK' /\ EndIsLast' /\ EndIsThere'
  BY DEF BusOK, EndIsLast, EndIsThere, StatusOK, StageAfter, TypeOK, Delivering, NoEvent
<1>3. FileCurrent'
  BY DEF FileCurrent, Intact, StatusOK, BusOK, StageAfter, Delivering, NoEvent
<1>4. LossBounded'
  BY LossSilent DEF LossBounded
<1>5. StatusOK'
  BY LossFacts DEF StatusOK, BusOK, FileCurrent, Intact, StageAfter, Delivering, NoEvent, TypeOK
<1>6. NoFalseEnd' /\ AnswerKept'
  BY DEF NoFalseEnd, AnswerKept, NoEvent
<1> QED  BY <1>1, <1>2, <1>3, <1>4, <1>5, <1>6

----
(* The bus calls the next handler, and the last of them writes the file. *)
LEMMA DeliverInv == ASSUME EventsInv, Deliver PROVE EventsInv'
<1> USE SubscribersAssumption DEF EventsInv, Deliver, agent_vars, run_vars, Subscribers
<1>1. /\ event \in Events /\ published \in Seq(Events) /\ subscriber \in Subscribers
      /\ seen \in [Subscribers -> Seq(Events)]
      /\ \A s \in Subscribers : seen'[s] = IF s = subscriber THEN Append(seen[s], event) ELSE seen[s]
      /\ seen' \in [Subscribers -> Seq(Events)]
  BY DEF TypeOK
<1>2. \A s \in Subscribers :
         /\ Len(seen[s]) \in Nat
         /\ Len(seen'[s]) = Len(seen[s]) + (IF s = subscriber THEN 1 ELSE 0)
  BY <1>1
<1>3. ASSUME NEW s \in Subscribers
      PROVE  /\ Len(seen'[s]) + (IF Delivering' /\ s >= subscriber' THEN 1 ELSE 0) <= Len(published')
             /\ Len(seen'[s]) <= Len(published')
  <2>1. Len(seen[s]) + (IF s >= subscriber THEN 1 ELSE 0) <= Len(published)
    BY DEF HandlersBehind, Delivering
  <2>2. \/ ~Delivering' /\ subscriber' = subscriber
        \/ subscriber' = subscriber + 1
    BY DEF Delivering
  <2>3. Len(published) \in Nat /\ published' = published /\ Len(seen[s]) \in Nat
    BY <1>1
  <2>4. CASE s = subscriber
    BY <1>1, <1>2, <2>1, <2>2, <2>3, <2>4
  <2>5. CASE s # subscriber
    <3> DEFINE lag == IF Delivering' /\ s >= subscriber' THEN 1 ELSE 0
    <3>1. seen'[s] = seen[s]
      BY <1>1, <2>5
    <3>2. lag \in {0, 1} /\ (s < subscriber => lag = 0)
      BY <1>1, <2>2
    <3> HIDE DEF lag
    <3>3. Len(seen'[s]) + lag <= Len(published') /\ Len(seen'[s]) <= Len(published')
      BY <1>1, <2>1, <2>3, <3>1, <3>2
    <3> QED  BY <3>3 DEF lag
  <2> QED  BY <2>4, <2>5
<1>4. TypeOK' /\ HandlersBehind'
  <2>1. HandlersBehind'
    BY <1>3 DEF HandlersBehind
  <2>2. event' \in Events \cup {NoEvent} /\ subscriber' \in Subscribers
    BY <1>1
  <2> QED  BY <1>1, <1>3, <2>1, <2>2 DEF TypeOK
<1>5. CASE subscriber # SUBSCRIBERS
  <2>1. event' = event /\ File' = File
    BY <1>1, <1>5 DEF File, Writer
  <2> QED  BY <1>1, <1>4, <1>5, <2>1
           DEF BusOK, EndIsLast, EndIsThere, FileCurrent, LossBounded, StatusOK, NoFalseEnd,
               AnswerKept, Intact, Undelivered, Lost, Delivering
<1>6. CASE subscriber = SUBSCRIBERS
  <2>1. event' = NoEvent /\ event'[1] = "none" /\ ~Delivering' /\ File' = Append(File, event)
    BY <1>1, <1>6 DEF File, Writer, NoEvent, Delivering
  <2>2. BusOK' /\ EndIsLast' /\ EndIsThere' /\ AnswerKept'
    BY <2>1 DEF BusOK, EndIsLast, EndIsThere, AnswerKept
  <2>3. Undelivered => File' = published'
    BY <1>1, <2>1, FileType DEF Undelivered, BusOK, Delivering
  <2>4. FileCurrent'
    BY <2>1, <2>3 DEF FileCurrent, Intact, Delivering
  <2>5. Lost' = Lost - 1 /\ Lost \in Int
    BY <1>1, <2>1, FileType DEF Lost
  <2>6. LossBounded'
    BY <2>1, <2>5 DEF LossBounded, Delivering
  <2>7. StatusOK'
    BY <2>1 DEF StatusOK, Delivering
  <2>8. NoFalseEnd'
    <3>1. \A i \in 1 .. Len(File') : (i \in 1 .. Len(File) /\ File'[i] = File[i]) \/ File'[i] = event
      BY <1>1, <2>1, FileType
    <3> QED  BY <2>1, <3>1 DEF NoFalseEnd, NoEvent
  <2> QED  BY <1>4, <2>2, <2>4, <2>6, <2>7, <2>8
<1> QED  BY <1>5, <1>6

----
(* The actions. *)
LEMMA RunStartedInv == ASSUME EventsInv, RunStarted PROVE EventsInv'
<1> USE DEF RunStarted, At, Plain, agent_vars, run_vars
<1>1. Told("run.started", "run") /\ HandlersKept /\ pc' = <<"load", "run">>
  BY PublishFacts DEF Events
<1>2. Ordinary
  BY <1>1 DEF Ordinary, Delivering, EventsInv, TypeOK, Stages, Intact, AnswerKept
<1> QED  BY <1>1, <1>2, TellInv DEF StageAfter

LEMMA NodeStartedInv == ASSUME EventsInv, NodeStarted PROVE EventsInv'
<1> PICK node \in Nodes : NodeStarted!(node)
  BY DEF NodeStarted
<1> USE DEF At, run_vars
<1>1. Told("agent.node.started", node) /\ HandlersKept /\ pc' = <<"node", node>>
  BY PublishFacts DEF Events, Nodes
<1>2. Ordinary
  BY <1>1, BoundsAssumption DEF Ordinary, Delivering, EventsInv, TypeOK, Stages, Intact, AnswerKept
<1> QED  BY <1>1, <1>2, TellInv DEF StageAfter

LEMMA ThoughtInv == ASSUME EventsInv, Thought PROVE EventsInv'
<1> USE DEF Thought, At, run_vars
<1>1. /\ Told("agent.loop.thought", "agent_loop_node") /\ HandlersKept
      /\ pc' = <<"node", "agent_loop_node">>
  BY PublishFacts DEF Events, Nodes
<1>2. thoughts' \in 0 .. MAX_THOUGHTS
  BY BoundsAssumption DEF EventsInv, TypeOK
<1>3. Ordinary
  BY <1>1, <1>2 DEF Ordinary, Delivering, EventsInv, TypeOK, Stages, Intact, AnswerKept
<1> QED  BY <1>1, <1>3, TellInv DEF StageAfter

LEMMA NodeReturnsInv == ASSUME EventsInv, NodeReturns PROVE EventsInv'
<1> PICK node \in Nodes : NodeReturns!(node)
  BY DEF NodeReturns
<1> USE DEF At, run_vars
<1>1. Silent /\ HandlersKept /\ pc' = <<"log", node>>
  BY GoFacts
<1>2. failed' \in BOOLEAN
  OBVIOUS
<1>3. Ordinary
  BY <1>1, <1>2 DEF Ordinary, Delivering, EventsInv, TypeOK, Stages, Intact, AnswerKept
<1> QED  BY <1>1, <1>3, GoInv

LEMMA LoggedInv == ASSUME EventsInv, Logged PROVE EventsInv'
<1> PICK node \in Nodes : Logged!(node)
  BY DEF Logged
<1> USE DEF At, Plain, agent_vars, run_vars
<1>1. Told("agent.log", node) /\ HandlersKept /\ pc' = <<"finish", node>>
  BY PublishFacts DEF Events, Nodes
<1>2. Ordinary
  BY <1>1 DEF Ordinary, Delivering, EventsInv, TypeOK, Stages, Intact, AnswerKept
<1> QED  BY <1>1, <1>2, TellInv DEF StageAfter

LEMMA NodeFinishedInv == ASSUME EventsInv, NodeFinished PROVE EventsInv'
<1> PICK node \in Nodes : NodeFinished!(node)
  BY DEF NodeFinished
<1> USE DEF At, Plain, agent_vars, run_vars
<1>1. Told("agent.node.finished", node) /\ HandlersKept /\ pc' = <<"merged", node>>
  BY PublishFacts DEF Events, Nodes
<1>2. Ordinary
  BY <1>1 DEF Ordinary, Delivering, EventsInv, TypeOK, Stages, Intact, AnswerKept
<1> QED  BY <1>1, <1>2, TellInv DEF StageAfter

LEMMA AnsweredInv == ASSUME EventsInv, Answered PROVE EventsInv'
<1> USE DEF Answered, At, Plain, agent_vars, run_vars
<1>1. Told("agent.answer", "run") /\ HandlersKept /\ pc' = <<"success", "run">>
  BY PublishFacts DEF Events
<1>2. Ordinary /\ remembered
  BY <1>1 DEF Ordinary, Delivering, EventsInv, TypeOK, Stages, Intact, AnswerKept
<1> QED  BY <1>1, <1>2, TellInv DEF StageAfter

LEMMA LoadInv == ASSUME EventsInv, Load PROVE EventsInv'
<1> USE DEF Load, At, Plain, agent_vars, run_vars
<1>1. CASE RaiseInTry
  BY <1>1, RaiseInTryInv DEF EventsInv, TypeOK
<1>2. CASE Go(<<"iterate", "run">>)
  <2>1. Silent /\ HandlersKept /\ pc' = <<"iterate", "run">>
    BY <1>2, GoFacts
  <2>2. Ordinary
    BY <2>1 DEF Ordinary, Delivering, EventsInv, TypeOK, Stages, Intact, AnswerKept
  <2> QED  BY <2>1, <2>2, GoInv
<1> QED  BY <1>1, <1>2

LEMMA IterateInv == ASSUME EventsInv, Iterate PROVE EventsInv'
<1> USE DEF Iterate, At, run_vars
<1>1. CASE iteration = MAX_ITERATIONS
  BY <1>1, RaiseInTryInv DEF EventsInv, TypeOK
<1>2. CASE iteration # MAX_ITERATIONS
  <2> DEFINE node == IF planned THEN "select_next_step_node" ELSE "planner_node"
  <2>1. Silent /\ HandlersKept /\ pc' = <<"start", node>>
    BY <1>2, GoFacts
  <2>2. iteration' \in 0 .. MAX_ITERATIONS
    BY <1>2, BoundsAssumption DEF EventsInv, TypeOK
  <2>3. Ordinary
    BY <2>1, <2>2 DEF Ordinary, Delivering, EventsInv, TypeOK, Stages, Intact, AnswerKept, Nodes
  <2> QED  BY <2>1, <2>3, GoInv
<1> QED  BY <1>1, <1>2

LEMMA RaiseIfFailedInv == ASSUME EventsInv, RaiseIfFailed PROVE EventsInv'
BY RaiseInTryInv DEF RaiseIfFailed, At, Plain, agent_vars, run_vars, EventsInv, TypeOK

LEMMA SummaryRaisesInv == ASSUME EventsInv, SummaryRaises PROVE EventsInv'
BY RaiseInTryInv DEF SummaryRaises, At, Plain, agent_vars, run_vars, EventsInv, TypeOK

LEMMA RememberRaisesInv == ASSUME EventsInv, RememberRaises PROVE EventsInv'
<1> USE DEF RememberRaises, At, agent_vars
<1>1. ~remembered
  BY DEF EventsInv, AnswerKept, TypeOK
<1>2. remembered' \in BOOLEAN
  OBVIOUS
<1> QED  BY <1>1, <1>2, RaiseInTryInv DEF EventsInv, TypeOK

LEMMA PlannedInv == ASSUME EventsInv, Planned PROVE EventsInv'
<1> USE DEF Planned, At, run_vars
<1>1. Silent /\ HandlersKept /\ pc' = <<"iterate", "run">>
  BY GoFacts
<1>2. Ordinary
  BY <1>1 DEF Ordinary, Delivering, EventsInv, TypeOK, Stages, Intact, AnswerKept
<1> QED  BY <1>1, <1>2, GoInv

LEMMA RememberInv == ASSUME EventsInv, Remember PROVE EventsInv'
<1> USE DEF Remember, At, agent_vars
<1>1. Silent /\ HandlersKept /\ pc' = <<"answer", "run">>
  BY GoFacts
<1>2. Ordinary
  BY <1>1 DEF Ordinary, Delivering, EventsInv, TypeOK, Stages, Intact, AnswerKept
<1> QED  BY <1>1, <1>2, GoInv

LEMMA SelectedInv == ASSUME EventsInv, Selected PROVE EventsInv'
<1> USE DEF Selected, At, Plain, agent_vars, run_vars
<1>1. CASE Publish("agent.step.started", "step", <<"start", "agent_loop_node">>)
  <2>1. /\ Told("agent.step.started", "step") /\ HandlersKept
        /\ pc' = <<"start", "agent_loop_node">>
    BY <1>1, PublishFacts DEF Events
  <2>2. Ordinary
    BY <2>1 DEF Ordinary, Delivering, EventsInv, TypeOK, Stages, Intact, AnswerKept, Nodes
  <2> QED  BY <2>1, <2>2, TellInv DEF StageAfter
<1>2. ASSUME NEW then \in {<<"summarize", "run">>, <<"start", "agent_loop_node">>}, Go(then)
      PROVE  EventsInv'
  <2>1. Silent /\ HandlersKept /\ pc' = then
    BY <1>2, GoFacts
  <2>2. Ordinary
    BY <2>1 DEF Ordinary, Delivering, EventsInv, TypeOK, Stages, Intact, AnswerKept, Nodes
  <2> QED  BY <2>1, <2>2, GoInv
<1> QED  BY <1>1, <1>2

LEMMA VisitedInv == ASSUME EventsInv, Visited PROVE EventsInv'
<1> USE DEF Visited, At, run_vars
<1>1. CASE Publish("agent.step.finished", "step", <<"iterate", "run">>)
  <2>1. Told("agent.step.finished", "step") /\ HandlersKept /\ pc' = <<"iterate", "run">>
    BY <1>1, PublishFacts DEF Events
  <2>2. Ordinary
    BY <2>1 DEF Ordinary, Delivering, EventsInv, TypeOK, Stages, Intact, AnswerKept
  <2> QED  BY <2>1, <2>2, TellInv DEF StageAfter
<1>2. CASE Go(<<"iterate", "run">>)
  <2>1. Silent /\ HandlersKept /\ pc' = <<"iterate", "run">>
    BY <1>2, GoFacts
  <2>2. Ordinary
    BY <2>1 DEF Ordinary, Delivering, EventsInv, TypeOK, Stages, Intact, AnswerKept
  <2> QED  BY <2>1, <2>2, GoInv
<1> QED  BY <1>1, <1>2

(* The status is set when the answer was delivered to every handler. *)
LEMMA FinishedInv == ASSUME EventsInv, Finished PROVE EventsInv'
<1> USE DEF EventsInv, Finished, At, agent_vars
<1>1. Silent /\ HandlersKept /\ pc' = <<"finally", "run">>
  BY GoFacts
<1> USE <1>1 DEF Silent, HandlersKept
<1>2. TypeOK'
  BY DEF TypeOK, Stages
<1>3. File = published
  BY DEF FileCurrent, Intact, Delivering
<1>4. BusOK' /\ EndIsLast' /\ EndIsThere' /\ FileCurrent' /\ AnswerKept'
  BY <1>3 DEF BusOK, EndIsLast, EndIsThere, FileCurrent, AnswerKept
<1>5. LossBounded'
  BY <1>3, LossFacts, LossSilent DEF LossBounded
<1>6. StatusOK' /\ NoFalseEnd'
  BY DEF StatusOK, NoFalseEnd, AnswerKept, NoEvent
<1> QED  BY <1>2, <1>4, <1>5, <1>6

LEMMA RunFinishedInv == ASSUME EventsInv, RunFinished PROVE EventsInv'
BY FinallyInv DEF RunFinished, At, Plain, EventsInv, TypeOK, StatusOK, run_vars, agent_vars

LEMMA EndInv == ASSUME EventsInv, End PROVE EventsInv'
<1> USE DEF EventsInv, End, At, agent_vars, bus_vars
<1>1. TypeOK'
  BY DEF TypeOK
<1>2. /\ BusOK' /\ HandlersBehind' /\ EndIsLast' /\ EndIsThere' /\ FileCurrent' /\ LossBounded'
      /\ NoFalseEnd' /\ AnswerKept'
  BY DEF BusOK, HandlersBehind, EndIsLast, EndIsThere, FileCurrent, LossBounded, NoFalseEnd,
         AnswerKept, Delivering, Intact, Undelivered, Lost, File
<1>3. StatusOK'
  BY DEF StatusOK, TypeOK, Delivering, File
<1> QED  BY <1>1, <1>2, <1>3

(* A thought that a handler rejects fails the step: the file lacks it, and   *)
(* the run goes on to the events of the node.                                *)
LEMMA ThoughtRaisesInv ==
    ASSUME EventsInv, HandlerRaises, event[1] = "agent.loop.thought" PROVE EventsInv'
<1> USE DEF EventsInv
<1>1. Go(<<"log", pc[2]>>) /\ failed' = TRUE /\ raising' = raising /\ pc[1] = "node"
  BY DEF HandlerRaises, BusOK, StageAfter, Delivering, TypeOK
<1>2. Silent /\ HandlersKept /\ pc' = <<"log", pc[2]>>
  BY <1>1, GoFacts
<1> USE <1>1, <1>2 DEF Silent, HandlersKept, HandlerRaises, run_vars
<1>3. TypeOK'
  BY DEF TypeOK, Stages
<1>4. BusOK' /\ EndIsLast' /\ EndIsThere' /\ FileCurrent' /\ AnswerKept'
  BY DEF BusOK, EndIsLast, EndIsThere, FileCurrent, Intact, AnswerKept
<1>5. LossBounded'
  BY LossFacts, LossSilent DEF LossBounded, FileCurrent, Intact
<1>6. StatusOK' /\ NoFalseEnd'
  BY DEF StatusOK, NoFalseEnd, NoEvent
<1> QED  BY <1>3, <1>4, <1>5, <1>6

LEMMA HandlerRaisesInv == ASSUME EventsInv, HandlerRaises PROVE EventsInv'
<1> USE DEF HandlerRaises
<1>0. /\ Delivering /\ pc[1] = StageAfter(event[1]) /\ event \in Events /\ result = "none"
      /\ failed' \in BOOLEAN /\ raising' \in BOOLEAN
  BY DEF EventsInv, TypeOK, BusOK, StatusOK, Delivering
<1>1. CASE event[1] = "agent.loop.thought"
  BY <1>1, ThoughtRaisesInv
<1>2. CASE event[1] \in {"run.started", "run.finished"}
  <2>1. Close /\ raising' /\ (event[1] = "run.started" \/ pc[1] = "close")
    BY <1>0, <1>2 DEF StageAfter
  <2> QED  BY <1>0, <2>1, CloseInv DEF EventsInv, TypeOK, run_vars
<1>3. CASE event[1] = "agent.error"
  <2>1. Finally /\ pc[1] = "finally" /\ failed' = failed
    BY <1>0, <1>3 DEF StageAfter, EventsInv, TypeOK
  <2>2. status = "failed"
    BY <1>0, <2>1 DEF EventsInv, StatusOK, TypeOK
  <2> QED  BY <1>0, <2>1, <2>2, FinallyInv DEF EventsInv, TypeOK, agent_vars
<1>4. CASE event[1] \notin {"agent.loop.thought", "run.started", "run.finished", "agent.error"}
  <2>1. RaiseInTry /\ raising' = raising
    BY <1>4 DEF EventsInv, TypeOK
  <2>2. pc[1] \notin {"begin", "finally", "close"}
    BY <1>0, <1>4 DEF StageAfter, Events
  <2> QED  BY <1>0, <2>1, <2>2, RaiseInTryInv DEF EventsInv, TypeOK, run_vars
<1> QED  BY <1>1, <1>2, <1>3, <1>4

LEMMA InterruptInv == ASSUME EventsInv, Interrupt PROVE EventsInv'
<1> USE DEF Interrupt
<1>1. CASE pc[1] \in {"begin", "close"} \/ event[1] = "run.started"
  BY <1>1, CloseInv DEF EventsInv, TypeOK, agent_vars
<1>2. CASE ~(pc[1] \in {"begin", "close"} \/ event[1] = "run.started")
  BY <1>2, FinallyInv
<1> QED  BY <1>1, <1>2

----
LEMMA InitInv == Init => EventsInv
<1> SUFFICES ASSUME Init PROVE EventsInv
  OBVIOUS
<1> USE SubscribersAssumption, BoundsAssumption DEF Init, Subscribers
<1>1. TypeOK
  <2>1. /\ seen \in [Subscribers -> Seq(Events)] /\ published \in Seq(Events)
        /\ \A s \in Subscribers : Len(seen[s]) <= Len(published)
    OBVIOUS
  <2>2. pc \in Stages \X (Nodes \cup {"run"})
    BY DEF Stages
  <2>3. 1 \in Subscribers /\ 0 \in 0 .. MAX_ITERATIONS /\ 0 \in 0 .. MAX_THOUGHTS
    OBVIOUS
  <2> QED  BY <2>1, <2>2, <2>3 DEF TypeOK
<1>2. BusOK /\ HandlersBehind /\ EndIsLast /\ EndIsThere
  BY DEF BusOK, HandlersBehind, EndIsLast, EndIsThere, Delivering, NoEvent
<1>3. File = <<>>
  BY DEF File, Writer
<1>4. FileCurrent /\ LossBounded /\ StatusOK /\ NoFalseEnd /\ AnswerKept
  BY <1>3 DEF FileCurrent, LossBounded, StatusOK, NoFalseEnd, AnswerKept, Delivering, Intact, Lost,
              NoEvent
<1> QED  BY <1>1, <1>2, <1>4 DEF EventsInv

LEMMA NextInv == EventsInv /\ [Next]_vars => EventsInv'
<1> SUFFICES ASSUME EventsInv, [Next]_vars PROVE EventsInv'
  OBVIOUS
<1>1. CASE UNCHANGED vars
  <2> USE <1>1 DEF vars, agent_vars, run_vars, bus_vars, EventsInv, Delivering, File
  <2>1. TypeOK' /\ HandlersBehind'
    BY DEF TypeOK, HandlersBehind
  <2>2. BusOK' /\ EndIsLast' /\ EndIsThere' /\ NoFalseEnd' /\ AnswerKept' /\ StatusOK'
    BY DEF BusOK, EndIsLast, EndIsThere, NoFalseEnd, AnswerKept, StatusOK
  <2>3. FileCurrent' /\ LossBounded'
    BY DEF FileCurrent, LossBounded, Intact, Undelivered, Lost
  <2> QED  BY <2>1, <2>2, <2>3
<1>2. CASE Next
  BY <1>1, <1>2, DeliverInv, HandlerRaisesInv, InterruptInv, RunStartedInv, LoadInv, IterateInv,
     NodeStartedInv, ThoughtInv, NodeReturnsInv, LoggedInv, NodeFinishedInv, RaiseIfFailedInv,
     PlannedInv, SelectedInv, VisitedInv, SummaryRaisesInv, RememberInv, RememberRaisesInv,
     AnsweredInv, FinishedInv, RunFinishedInv, EndInv DEF Next, Over
<1> QED  BY <1>1, <1>2

LEMMA EventsInvariant == Spec => []EventsInv
BY InitInv, NextInv, PTL DEF Spec

----
(* The events are well formed, and no handler took more than was published   *)
(* (EventBus.publish).                                                       *)
THEOREM EventsWellFormed == Spec => []TypeOK
BY EventsInvariant, PTL DEF EventsInv

(* A run that got past its first event is over only when run.finished was    *)
(* published, once and last, whichever handlers raised (the finally clause   *)
(* of run()).                                                                *)
THEOREM RunEndsAreAnnounced == Spec => []EndIsAnnounced
<1>1. EventsInv => EndIsAnnounced
  BY DEF EventsInv, TypeOK, EndIsLast, EndIsThere, StatusOK, EndIsAnnounced
<1> QED  BY <1>1, EventsInvariant, PTL

(* The events file says "finished" exactly if run() returns an answer, and   *)
(* is then complete; or the run was interrupted after its end was written.   *)
THEOREM FileIsTruthful == Spec => []FileTellsTheOutcome
<1>1. EventsInv => FileTellsTheOutcome
  <2> SUFFICES ASSUME EventsInv, result # "none"
               PROVE  /\ result = "returned" => File = published
                      /\ (File # <<>> /\ Last(File) = <<"run.finished", "finished">>)
                           <=> result = "returned"
                               \/ (interrupted /\ status = "finished" /\ File = published)
    BY DEF FileTellsTheOutcome
  <2> USE FileType DEF EventsInv
  <2>1. pc[1] = "close" /\ ~Delivering /\ result \in {"returned", "raised"}
    BY DEF StatusOK, TypeOK
  <2>2. status = "finished" => File = published \/ (Undelivered /\ raising)
    BY <2>1 DEF FileCurrent, Intact, TypeOK
  <2>3. result = "returned" => status = "finished" /\ File = published
    BY <2>2 DEF StatusOK
  <2>4. ASSUME status = "finished", File = published
        PROVE  File # <<>> /\ Last(File) = <<"run.finished", "finished">>
    BY <2>1, <2>4 DEF EndIsThere, Last
  <2>5. ASSUME File # <<>>, Last(File) = <<"run.finished", "finished">>
        PROVE  status = "finished" /\ File = published
    <3>1. Len(File) \in 1 .. Len(File)
      BY <2>5
    <3>2. status = "finished"
      BY <2>5, <3>1 DEF NoFalseEnd, Last
    <3>3. ~Undelivered
      <4> SUFFICES ASSUME Undelivered PROVE FALSE
        OBVIOUS
      <4>1. published[Len(File)] = <<"run.finished", "finished">> /\ Len(File) < Len(published)
        BY <2>5, <3>1, LossFacts DEF Last
      <4> QED  BY <3>1, <4>1 DEF EndIsLast, TypeOK
    <3> QED  BY <2>2, <3>2, <3>3
  <2>6. status = "finished" /\ File = published => result = "returned" \/ interrupted
    BY <2>1 DEF StatusOK
  <2> QED  BY <2>3, <2>4, <2>5, <2>6
<1> QED  BY <1>1, EventsInvariant, PTL

(* However many handlers raise, the events file lacks at most four events.   *)
THEOREM FileLacksFourEvents == Spec => []FileIsNearlyComplete
<1>1. EventsInv => FileIsNearlyComplete
  BY DEF EventsInv, LossBounded, Lost, FileIsNearlyComplete
<1> QED  BY <1>1, EventsInvariant, PTL

(* What a user saw as an answer is in the context memory file (run()).       *)
THEOREM RememberedFirst == Spec => []AnswersAreRemembered
<1>1. EventsInv => AnswersAreRemembered
  BY DEF EventsInv, StatusOK, AnswerKept, AnswersAreRemembered
<1> QED  BY <1>1, EventsInvariant, PTL

====
