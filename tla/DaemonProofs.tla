---- MODULE DaemonProofs ----
(***************************************************************************)
(* The safety properties of the daemon, for any pings and shutdowns.       *)
(*                                                                         *)
(* A command relies on a daemon that it does not control, so the invariant *)
(* relates the two: what the stage of a connection says about the daemon   *)
(* at its other end, and what the command's own daemon can be while the    *)
(* command has not started it.                                             *)
(***************************************************************************)
EXTENDS DaemonProperties, TLAPS

(* A connection has a daemon at its other end, and is of use to a request.   *)
Connections ==
    \A c \in Commands :
        /\ commands[c].stage # "none" => commands[c].daemon \in Daemons /\ Requesting(c)
        /\ commands[c].stage \in {"queued", "open", "answered"} =>
             daemons[commands[c].daemon] \in {"serving", "closing", "exited"}
        /\ commands[c].stage = "queued" => daemons[commands[c].daemon] = "serving"
        /\ commands[c].stage = "cut" => daemons[commands[c].daemon] \in {"closing", "exited"}

(* The daemon of a ping is started once, by the ping. *)
StartedOnce ==
    \A c \in Pings :
        commands[c].pc \in {"idle", "probe", "spawn"} => daemons[c] = "none"

(* Only pings ensure that there is a daemon. *)
ShutdownsOnlyRequest ==
    \A c \in Shutdowns : commands[c].pc \in {"idle", "request", "done", "not_running"}

(* A shutdown that has its answer, or had it, set the event of its daemon. *)
AnswerSetsEvent ==
    \A c \in Shutdowns :
        /\ commands[c].pc = "done" => commands[c].daemon \in asked
        /\ commands[c].stage = "answered" => commands[c].daemon \in asked

(* Without time-outs a daemon stays until a shutdown that is told stops it,  *)
(* and whoever found one finds it again, or finds it stopped.                *)
CalmDaemons ==
    ~timed_out =>
        /\ abandoned = {}
        /\ \A d \in asked : Told(d)
        /\ Stopped \subseteq asked
        /\ \A d \in Daemons : daemons[d] = "refused" => Serving \cup Stopped # {}
        /\ \A c \in Pings :
             /\ commands[c].pc = "request" => commands[c].daemon \in Serving \cup Stopped
             /\ commands[c].pc = "raised" =>
                  daemons[c] = "refused" \/ Stopped \cap {c, commands[c].daemon} # {}

DaemonInv ==
    /\ TypeOK
    /\ Connections
    /\ StartedOnce
    /\ ShutdownsOnlyRequest
    /\ AnswerSetsEvent
    /\ CalmDaemons

----
LEMMA InitInv == Init => DaemonInv
<1> SUFFICES ASSUME Init PROVE DaemonInv
  OBVIOUS
<1> USE CommandsAssumption, PollsAssumption DEF Init, Commands, Daemons, Serving
<1>1. TypeOK
  <2>1. commands \in [Commands ->
          [pc : {"idle", "probe", "spawn", "poll", "probe_again", "request",
                 "done", "raised", "not_running"},
           daemon : Daemons \cup {Nobody},
           stage : {"none", "queued", "open", "answered", "cut"}, polls : 0..MAX_POLLS]]
    BY DEF Waiting
  <2> QED  BY <2>1 DEF TypeOK
<1>2. Connections
  BY DEF Connections, Waiting
<1>3. StartedOnce /\ ShutdownsOnlyRequest /\ AnswerSetsEvent
  BY DEF StartedOnce, ShutdownsOnlyRequest, AnswerSetsEvent, Waiting
<1>4. CalmDaemons
  BY DEF CalmDaemons, Stopped, Waiting
<1> QED  BY <1>1, <1>2, <1>3, <1>4 DEF DaemonInv

(* A command that begins has no connection. *)
LEMMA BeginInv ==
    ASSUME DaemonInv, NEW c \in Commands, Begin(c)
    PROVE  DaemonInv'
<1> USE CommandsAssumption, PollsAssumption
        DEF DaemonInv, TypeOK, Commands, Daemons, Serving, daemon_vars, Begin, Goto
<1>1. TypeOK'
  BY DEF Connections
<1>2. Connections'
  BY DEF Connections, Requesting
<1>3. StartedOnce'
  BY DEF StartedOnce, ShutdownsOnlyRequest, Connections, Requesting
<1>4. ShutdownsOnlyRequest'
  BY DEF ShutdownsOnlyRequest, Connections, Requesting
<1>5. AnswerSetsEvent'
  BY DEF AnswerSetsEvent, Connections, ShutdownsOnlyRequest, Requesting
<1>6. CalmDaemons'
  BY DEF CalmDaemons, Stopped, Told, StartedOnce, Connections, ShutdownsOnlyRequest, Requesting
<1> QED  BY <1>1, <1>2, <1>3, <1>4, <1>5, <1>6

(* Whoever is connected to is serving. *)
LEMMA ConnectInv ==
    ASSUME DaemonInv, NEW c \in Commands, Connect(c)
    PROVE  DaemonInv'
<1> USE CommandsAssumption, PollsAssumption
        DEF DaemonInv, TypeOK, Commands, Daemons, Serving, daemon_vars, Connect, Requesting, Serving
<1>1. TypeOK'
  BY DEF Connections
<1>2. Connections'
  BY DEF Connections, Requesting
<1>3. StartedOnce'
  BY DEF StartedOnce, ShutdownsOnlyRequest, Connections, Requesting
<1>4. ShutdownsOnlyRequest'
  BY DEF ShutdownsOnlyRequest, Connections, Requesting
<1>5. AnswerSetsEvent'
  BY DEF AnswerSetsEvent, Connections, ShutdownsOnlyRequest, Requesting
<1>6. CalmDaemons'
  BY DEF CalmDaemons, Stopped, Told, StartedOnce, Connections, ShutdownsOnlyRequest, Requesting
<1> QED  BY <1>1, <1>2, <1>3, <1>4, <1>5, <1>6

(* A request is refused only if the daemon of its probe was stopped. *)
LEMMA ConnectionRefusedInv ==
    ASSUME DaemonInv, NEW c \in Commands, ConnectionRefused(c)
    PROVE  DaemonInv'
<1> USE CommandsAssumption, PollsAssumption
        DEF DaemonInv, TypeOK, Commands, Daemons, Serving, daemon_vars, ConnectionRefused, RequestFails
<1>1. TypeOK'
  BY DEF Connections
<1>2. Connections'
  BY DEF Connections, Requesting
<1>3. StartedOnce'
  BY DEF StartedOnce, ShutdownsOnlyRequest, Connections, Requesting
<1>4. ShutdownsOnlyRequest'
  BY DEF ShutdownsOnlyRequest, Connections, Requesting
<1>5. AnswerSetsEvent'
  BY DEF AnswerSetsEvent, Connections, ShutdownsOnlyRequest, Requesting
<1>6. CalmDaemons'
  BY DEF CalmDaemons, Stopped, Told, StartedOnce, Connections, ShutdownsOnlyRequest, Requesting
<1> QED  BY <1>1, <1>2, <1>3, <1>4, <1>5, <1>6

(* A connection is cut by a daemon that stops. *)
LEMMA ConnectionCutInv ==
    ASSUME DaemonInv, NEW c \in Commands, ConnectionCut(c)
    PROVE  DaemonInv'
<1> USE CommandsAssumption, PollsAssumption
        DEF DaemonInv, TypeOK, Commands, Daemons, Serving, daemon_vars, ConnectionCut, RequestFails
<1>1. TypeOK'
  BY DEF Connections
<1>2. Connections'
  BY DEF Connections, Requesting
<1>3. StartedOnce'
  BY DEF StartedOnce, ShutdownsOnlyRequest, Connections, Requesting
<1>4. ShutdownsOnlyRequest'
  BY DEF ShutdownsOnlyRequest, Connections, Requesting
<1>5. AnswerSetsEvent'
  BY DEF AnswerSetsEvent, Connections, ShutdownsOnlyRequest, Requesting
<1>6. CalmDaemons'
  BY DEF CalmDaemons, Stopped, Told, StartedOnce, Connections, ShutdownsOnlyRequest, Requesting
<1> QED  BY <1>1, <1>2, <1>3, <1>4, <1>5, <1>6

(* A time-out ends what CalmDaemons is about. *)
LEMMA TimeOutInv ==
    ASSUME DaemonInv, NEW c \in Commands, TimeOut(c)
    PROVE  DaemonInv'
<1> USE CommandsAssumption, PollsAssumption
        DEF DaemonInv, TypeOK, Commands, Daemons, Serving, daemon_vars, TimeOut, RequestFails
<1>1. TypeOK'
  BY DEF Connections
<1>2. Connections'
  BY DEF Connections, Requesting
<1>3. StartedOnce'
  BY DEF StartedOnce, ShutdownsOnlyRequest, Connections, Requesting
<1>4. ShutdownsOnlyRequest'
  BY DEF ShutdownsOnlyRequest, Connections, Requesting
<1>5. AnswerSetsEvent'
  BY DEF AnswerSetsEvent, Connections, ShutdownsOnlyRequest, Requesting
<1>6. CalmDaemons'
  BY DEF CalmDaemons, Stopped, Told, StartedOnce, Connections, ShutdownsOnlyRequest, Requesting
<1> QED  BY <1>1, <1>2, <1>3, <1>4, <1>5, <1>6

(* A ping that has an answer to its probe has found a daemon. *)
LEMMA ReceiveInv ==
    ASSUME DaemonInv, NEW c \in Commands, Receive(c)
    PROVE  DaemonInv'
<1> USE CommandsAssumption, PollsAssumption
        DEF DaemonInv, TypeOK, Commands, Daemons, Serving, daemon_vars, Receive
<1>1. TypeOK'
  BY DEF Connections
<1>2. Connections'
  BY DEF Connections, Requesting
<1>3. StartedOnce'
  BY DEF StartedOnce, ShutdownsOnlyRequest, Connections, Requesting
<1>4. ShutdownsOnlyRequest'
  BY DEF ShutdownsOnlyRequest, Connections, Requesting
<1>5. AnswerSetsEvent'
  BY DEF AnswerSetsEvent, Connections, ShutdownsOnlyRequest, Requesting
<1>6. CalmDaemons'
  BY DEF CalmDaemons, Stopped, Told, StartedOnce, Connections, ShutdownsOnlyRequest, Requesting
<1> QED  BY <1>1, <1>2, <1>3, <1>4, <1>5, <1>6

(* The daemon that a ping starts was never one before. *)
LEMMA SpawnInv ==
    ASSUME DaemonInv, NEW c \in Commands, Spawn(c)
    PROVE  DaemonInv'
<1> USE CommandsAssumption, PollsAssumption
        DEF DaemonInv, TypeOK, Commands, Daemons, Serving, daemon_vars, Spawn, Goto
<1>1. TypeOK'
  <2>1. c \in Pings
    BY DEF ShutdownsOnlyRequest
  <2>2. commands' = [commands EXCEPT ![c].pc = "poll"]
    OBVIOUS
  <2>3. commands' \in [Commands ->
          [pc : {"idle", "probe", "spawn", "poll", "probe_again", "request",
                 "done", "raised", "not_running"},
           daemon : Daemons \cup {Nobody},
           stage : {"none", "queued", "open", "answered", "cut"}, polls : 0..MAX_POLLS]]
    BY <2>2
  <2>4. \A d, e \in Daemons : daemons'[d] = "serving" /\ daemons'[e] = "serving" => d = e
    BY <2>1
  <2> QED  BY <2>1, <2>3, <2>4
<1>2. Connections'
  BY DEF Connections, Requesting, StartedOnce, ShutdownsOnlyRequest
<1>3. StartedOnce'
  BY DEF StartedOnce, ShutdownsOnlyRequest, Connections, Requesting
<1>4. ShutdownsOnlyRequest'
  BY DEF ShutdownsOnlyRequest, Connections, Requesting
<1>5. AnswerSetsEvent'
  BY DEF AnswerSetsEvent, Connections, ShutdownsOnlyRequest, Requesting
<1>6. CalmDaemons'
  BY DEF CalmDaemons, Stopped, Told, StartedOnce, Connections, ShutdownsOnlyRequest, Requesting
<1> QED  BY <1>1, <1>2, <1>3, <1>4, <1>5, <1>6

LEMMA PollInv ==
    ASSUME DaemonInv, NEW c \in Commands, Poll(c)
    PROVE  DaemonInv'
<1> USE CommandsAssumption, PollsAssumption
        DEF DaemonInv, TypeOK, Commands, Daemons, Serving, daemon_vars, Poll
<1>1. TypeOK'
  BY DEF Connections
<1>2. Connections'
  BY DEF Connections, Requesting
<1>3. StartedOnce'
  BY DEF StartedOnce, ShutdownsOnlyRequest, Connections, Requesting
<1>4. ShutdownsOnlyRequest'
  BY DEF ShutdownsOnlyRequest, Connections, Requesting
<1>5. AnswerSetsEvent'
  BY DEF AnswerSetsEvent, Connections, ShutdownsOnlyRequest, Requesting
<1>6. CalmDaemons'
  BY DEF CalmDaemons, Stopped, Told, StartedOnce, Connections, ShutdownsOnlyRequest, Requesting
<1> QED  BY <1>1, <1>2, <1>3, <1>4, <1>5, <1>6

(* A daemon that exited was refused the port or was stopped. *)
LEMMA ChildExitedInv ==
    ASSUME DaemonInv, NEW c \in Commands, ChildExited(c)
    PROVE  DaemonInv'
<1> USE CommandsAssumption, PollsAssumption
        DEF DaemonInv, TypeOK, Commands, Daemons, Serving, daemon_vars, ChildExited, Goto
<1>1. TypeOK'
  BY DEF Connections
<1>2. Connections'
  BY DEF Connections, Requesting
<1>3. StartedOnce'
  BY DEF StartedOnce, ShutdownsOnlyRequest, Connections, Requesting
<1>4. ShutdownsOnlyRequest'
  BY DEF ShutdownsOnlyRequest, Connections, Requesting
<1>5. AnswerSetsEvent'
  BY DEF AnswerSetsEvent, Connections, ShutdownsOnlyRequest, Requesting
<1>6. CalmDaemons'
  BY DEF CalmDaemons, Stopped, Told, StartedOnce, Connections, ShutdownsOnlyRequest, Requesting
<1> QED  BY <1>1, <1>2, <1>3, <1>4, <1>5, <1>6

LEMMA StartupTimeOutInv ==
    ASSUME DaemonInv, NEW c \in Commands, StartupTimeOut(c)
    PROVE  DaemonInv'
<1> USE CommandsAssumption, PollsAssumption
        DEF DaemonInv, TypeOK, Commands, Daemons, Serving, daemon_vars, StartupTimeOut, Goto
<1>1. TypeOK'
  BY DEF Connections
<1>2. Connections'
  BY DEF Connections, Requesting
<1>3. StartedOnce'
  BY DEF StartedOnce, ShutdownsOnlyRequest, Connections, Requesting
<1>4. ShutdownsOnlyRequest'
  BY DEF ShutdownsOnlyRequest, Connections, Requesting
<1>5. AnswerSetsEvent'
  BY DEF AnswerSetsEvent, Connections, ShutdownsOnlyRequest, Requesting
<1>6. CalmDaemons'
  BY DEF CalmDaemons, Stopped, Told, StartedOnce, Connections, ShutdownsOnlyRequest, Requesting
<1> QED  BY <1>1, <1>2, <1>3, <1>4, <1>5, <1>6

(* The port is bound only while nobody serves. *)
LEMMA BindInv ==
    ASSUME DaemonInv, NEW d \in Daemons, Bind(d)
    PROVE  DaemonInv'
<1> USE CommandsAssumption, PollsAssumption
        DEF DaemonInv, TypeOK, Commands, Daemons, Serving, daemon_vars, Bind
<1>1. TypeOK'
  BY DEF Connections
<1>2. Connections'
  BY DEF Connections, Requesting
<1>3. StartedOnce'
  BY DEF StartedOnce, ShutdownsOnlyRequest, Connections, Requesting
<1>4. ShutdownsOnlyRequest'
  BY DEF ShutdownsOnlyRequest, Connections, Requesting
<1>5. AnswerSetsEvent'
  BY DEF AnswerSetsEvent, Connections, ShutdownsOnlyRequest, Requesting
<1>6. CalmDaemons'
  BY DEF CalmDaemons, Stopped, Told, StartedOnce, Connections, ShutdownsOnlyRequest, Requesting
<1> QED  BY <1>1, <1>2, <1>3, <1>4, <1>5, <1>6

LEMMA AcceptInv ==
    ASSUME DaemonInv, NEW d \in Daemons, Accept(d)
    PROVE  DaemonInv'
<1> USE CommandsAssumption, PollsAssumption
        DEF DaemonInv, TypeOK, Commands, Daemons, Serving, daemon_vars, Accept, Connected
<1>1. TypeOK'
  BY DEF Connections
<1>2. Connections'
  BY DEF Connections, Requesting
<1>3. StartedOnce'
  BY DEF StartedOnce, ShutdownsOnlyRequest, Connections, Requesting
<1>4. ShutdownsOnlyRequest'
  BY DEF ShutdownsOnlyRequest, Connections, Requesting
<1>5. AnswerSetsEvent'
  BY DEF AnswerSetsEvent, Connections, ShutdownsOnlyRequest, Requesting
<1>6. CalmDaemons'
  BY DEF CalmDaemons, Stopped, Told, StartedOnce, Connections, ShutdownsOnlyRequest, Requesting
<1> QED  BY <1>1, <1>2, <1>3, <1>4, <1>5, <1>6

LEMMA VisitInv ==
    ASSUME DaemonInv, NEW d \in Daemons, Visit(d)
    PROVE  DaemonInv'
<1> USE CommandsAssumption, PollsAssumption
        DEF DaemonInv, TypeOK, Commands, Daemons, Serving, daemon_vars, Visit
<1>1. TypeOK'
  BY DEF Connections
<1>2. Connections'
  BY DEF Connections, Requesting
<1>3. StartedOnce'
  BY DEF StartedOnce, ShutdownsOnlyRequest, Connections, Requesting
<1>4. ShutdownsOnlyRequest'
  BY DEF ShutdownsOnlyRequest, Connections, Requesting
<1>5. AnswerSetsEvent'
  BY DEF AnswerSetsEvent, Connections, ShutdownsOnlyRequest, Requesting
<1>6. CalmDaemons'
  BY DEF CalmDaemons, Stopped, Told, StartedOnce, Connections, ShutdownsOnlyRequest, Requesting
<1> QED  BY <1>1, <1>2, <1>3, <1>4, <1>5, <1>6

(* The event is set by shutdowns only, which are answered. *)
LEMMA HandleInv ==
    ASSUME DaemonInv, NEW d \in Daemons, Handle(d)
    PROVE  DaemonInv'
<1> USE CommandsAssumption, PollsAssumption
        DEF DaemonInv, TypeOK, Commands, Daemons, Serving, daemon_vars, Handle, Connected, Stops
<1>1. TypeOK'
  BY DEF Connections
<1>2. Connections'
  BY DEF Connections, Requesting
<1>3. StartedOnce'
  BY DEF StartedOnce, ShutdownsOnlyRequest, Connections, Requesting
<1>4. ShutdownsOnlyRequest'
  BY DEF ShutdownsOnlyRequest, Connections, Requesting
<1>5. AnswerSetsEvent'
  BY DEF AnswerSetsEvent, Connections, ShutdownsOnlyRequest, Requesting
<1>6. CalmDaemons'
  BY DEF CalmDaemons, Stopped, Told, StartedOnce, Connections, ShutdownsOnlyRequest, Requesting
<1> QED  BY <1>1, <1>2, <1>3, <1>4, <1>5, <1>6

LEMMA HandleAbandonedInv ==
    ASSUME DaemonInv, NEW d \in Daemons, HandleAbandoned(d)
    PROVE  DaemonInv'
<1> USE CommandsAssumption, PollsAssumption
        DEF DaemonInv, TypeOK, Commands, Daemons, Serving, daemon_vars, HandleAbandoned
<1>1. TypeOK'
  BY DEF Connections
<1>2. Connections'
  BY DEF Connections, Requesting
<1>3. StartedOnce'
  BY DEF StartedOnce, ShutdownsOnlyRequest, Connections, Requesting
<1>4. ShutdownsOnlyRequest'
  BY DEF ShutdownsOnlyRequest, Connections, Requesting
<1>5. AnswerSetsEvent'
  BY DEF AnswerSetsEvent, Connections, ShutdownsOnlyRequest, Requesting
<1>6. CalmDaemons'
  BY DEF CalmDaemons, Stopped, Told, StartedOnce, Connections, ShutdownsOnlyRequest, Requesting
<1> QED  BY <1>1, <1>2, <1>3, <1>4, <1>5, <1>6

(* What is queued is cut, so that only connections that are open outlive the port. *)
LEMMA CloseInv ==
    ASSUME DaemonInv, NEW d \in Daemons, Close(d)
    PROVE  DaemonInv'
<1> USE CommandsAssumption, PollsAssumption
        DEF DaemonInv, TypeOK, Commands, Daemons, Serving, daemon_vars, Close, Connected
<1>1. TypeOK'
  BY DEF Connections
<1>2. Connections'
  BY DEF Connections, Requesting
<1>3. StartedOnce'
  BY DEF StartedOnce, ShutdownsOnlyRequest, Connections, Requesting
<1>4. ShutdownsOnlyRequest'
  BY DEF ShutdownsOnlyRequest, Connections, Requesting
<1>5. AnswerSetsEvent'
  BY DEF AnswerSetsEvent, Connections, ShutdownsOnlyRequest, Requesting
<1>6. CalmDaemons'
  BY DEF CalmDaemons, Stopped, Told, StartedOnce, Connections, ShutdownsOnlyRequest, Requesting
<1> QED  BY <1>1, <1>2, <1>3, <1>4, <1>5, <1>6

(* What is open is cut. *)
LEMMA ExitInv ==
    ASSUME DaemonInv, NEW d \in Daemons, Exit(d)
    PROVE  DaemonInv'
<1> USE CommandsAssumption, PollsAssumption
        DEF DaemonInv, TypeOK, Commands, Daemons, Serving, daemon_vars, Exit, Connected, Open, Stops
<1>1. TypeOK'
  BY DEF Connections
<1>2. Connections'
  BY DEF Connections, Requesting
<1>3. StartedOnce'
  BY DEF StartedOnce, ShutdownsOnlyRequest, Connections, Requesting
<1>4. ShutdownsOnlyRequest'
  BY DEF ShutdownsOnlyRequest, Connections, Requesting
<1>5. AnswerSetsEvent'
  BY DEF AnswerSetsEvent, Connections, ShutdownsOnlyRequest, Requesting
<1>6. CalmDaemons'
  BY DEF CalmDaemons, Stopped, Told, StartedOnce, Connections, ShutdownsOnlyRequest, Requesting
<1> QED  BY <1>1, <1>2, <1>3, <1>4, <1>5, <1>6

----
LEMMA NextInv == DaemonInv /\ [Next]_vars => DaemonInv'
<1> SUFFICES ASSUME DaemonInv, [Next]_vars PROVE DaemonInv'
  OBVIOUS
<1>1. ASSUME NEW c \in Commands, Begin(c) \/ CommandStep(c) PROVE DaemonInv'
  BY <1>1, BeginInv, ConnectInv, ConnectionRefusedInv, ConnectionCutInv, TimeOutInv, ReceiveInv,
     SpawnInv, PollInv, ChildExitedInv, StartupTimeOutInv DEF CommandStep
<1>2. ASSUME NEW d \in Daemons, DaemonStep(d) \/ Visit(d) PROVE DaemonInv'
  BY <1>2, BindInv, AcceptInv, VisitInv, HandleInv, HandleAbandonedInv, CloseInv, ExitInv
     DEF DaemonStep
<1>3. CASE UNCHANGED vars
  BY <1>3 DEF vars, daemon_vars, DaemonInv, TypeOK, Commands, Daemons, Serving, Connections,
     StartedOnce, ShutdownsOnlyRequest, AnswerSetsEvent, CalmDaemons, Stopped, Told, Requesting
<1> QED  BY <1>1, <1>2, <1>3 DEF Next, Rest

LEMMA DaemonInvariant == Spec => []DaemonInv
BY InitInv, NextInv, PTL DEF Spec

(* However many pings start daemons, at most one serves the port, and the    *)
(* states are well typed.                                                    *)
THEOREM AtMostOneServes == Spec => []TypeOK
BY DaemonInvariant, PTL DEF DaemonInv

(* Without time-outs a ping fails only if its daemon lost the port to        *)
(* another's, or if the daemon it had found or started was stopped by a      *)
(* shutdown that is told so (ping_command, ensure_daemon_running).           *)
THEOREM PingFailures == Spec => []PingFailureExplained
<1>1. DaemonInv => PingFailureExplained
  BY DEF DaemonInv, CalmDaemons, Stopped, Daemons, PingFailureExplained
<1> QED  BY <1>1, DaemonInvariant, PTL

(* A shutdown that was answered has set shutdown_event of the daemon that    *)
(* answered it: the daemon was told before the user was (handle_client).     *)
THEOREM AnsweredShutdownsAreObeyed ==
    Spec => [](\A c \in Shutdowns : commands[c].pc = "done" => commands[c].daemon \in asked)
<1>1. DaemonInv => \A c \in Shutdowns : commands[c].pc = "done" => commands[c].daemon \in asked
  BY DEF DaemonInv, AnswerSetsEvent
<1> QED  BY <1>1, DaemonInvariant, PTL

(* shutdown says "Daemon is not running" only when none serves the port,     *)
(* when the one it reached was stopped, or after a time-out: its connection  *)
(* was cut by nothing else (shutdown_command of cli/commands.py).            *)
THEOREM NotRunningTold == Spec => NotRunningExplained
<1>1. ASSUME DaemonInv, Next PROVE NotRunningReason
  <2> SUFFICES ASSUME NEW c \in Shutdowns,
                      commands[c].pc = "request", commands'[c].pc = "not_running"
               PROVE  \/ Serving = {} \/ timed_out'
                      \/ daemons[commands[c].daemon] \in {"closing", "exited"}
    BY DEF NotRunningReason
  <2> USE <1>1 DEF DaemonInv, TypeOK, Commands
  <2>1. ASSUME NEW b \in Commands, ConnectionRefused(b) \/ ConnectionCut(b) \/ TimeOut(b)
        PROVE  Serving = {} \/ timed_out' \/ daemons[commands[c].daemon] \in {"closing", "exited"}
    BY <2>1 DEF ConnectionRefused, ConnectionCut, TimeOut, RequestFails, Connections
  <2>2. ASSUME NEW b \in Commands,
               \/ Begin(b) \/ Connect(b) \/ Receive(b)
               \/ Spawn(b) \/ Poll(b) \/ ChildExited(b) \/ StartupTimeOut(b)
        PROVE  FALSE
    <3>1. CASE Begin(b) \/ Spawn(b) \/ ChildExited(b) \/ StartupTimeOut(b)
      BY <3>1 DEF Begin, Spawn, ChildExited, StartupTimeOut, Goto
    <3>2. CASE Connect(b)
      BY <3>2 DEF Connect
    <3>3. CASE Receive(b)
      BY <3>3 DEF Receive
    <3>4. CASE Poll(b)
      BY <3>4 DEF Poll
    <3> QED  BY <2>2, <3>1, <3>2, <3>3, <3>4
  <2>3. ASSUME NEW d \in Daemons, DaemonStep(d) \/ Visit(d)
        PROVE  FALSE
    BY <2>3 DEF DaemonStep, Bind, Accept, Visit, Handle, HandleAbandoned, Close, Exit, Connected
  <2>4. CASE Rest
    BY <2>4 DEF Rest, vars
  <2> QED  BY <2>1, <2>2, <2>3, <2>4 DEF Next, CommandStep
<1> QED  BY <1>1, DaemonInvariant, PTL DEF Spec, NotRunningExplained
====
