---- MODULE Daemon ----
(***************************************************************************)
(* The core daemon and the commands that talk to it: src/core/daemon,      *)
(* src/core/ipc and the ping and shutdown commands of src/cli/commands.py. *)
(* Each command is a process of its own, and so is each daemon that a ping *)
(* starts; they share one port.                                            *)
(***************************************************************************)
EXTENDS Naturals, FiniteSets

CONSTANTS
    Pings,      \* the ping commands that are run, each once
    Shutdowns,  \* the shutdown commands
    Nobody,     \* no daemon
    MAX_POLLS   \* bound: looks at a starting daemon within STARTUP_TIMEOUT_SECONDS

ASSUME CommandsAssumption == Pings \cap Shutdowns = {} /\ Nobody \notin Pings
ASSUME PollsAssumption == MAX_POLLS \in Nat \ {0}

Commands == Pings \cup Shutdowns

(* A ping starts at most one daemon, which is known by its name. *)
Daemons == Pings

VARIABLES
    waits,      \* wait_closed waits for open connections (Python 3.12.1 on)
    commands,   \* what each command is doing
    daemons,    \* the state of each daemon
    guest,      \* the daemon that another program stays connected to, if any
    asked,      \* daemons whose shutdown_event is set
    abandoned,  \* daemons with a shutdown request whose sender is gone
    timed_out   \* history: a time-out expired

daemon_vars == <<daemons, asked, abandoned>>

vars == <<waits, guest, commands, daemon_vars, timed_out>>

(* stage is that of the command's connection to its daemon, which is the one *)
(* it is connected to or, for its request, the one that it found before.     *)
Waiting == [pc |-> "idle", daemon |-> Nobody, stage |-> "none", polls |-> 0]

Init ==
    /\ waits \in BOOLEAN /\ guest = Nobody
    /\ commands = [c \in Commands |-> Waiting]
    /\ daemons = [d \in Daemons |-> "none"]
    /\ asked = {} /\ abandoned = {}
    /\ timed_out = FALSE

Serving == {d \in Daemons : daemons[d] = "serving"}

----
(* The commands. *)

Goto(c, pc) == commands' = [commands EXCEPT ![c].pc = pc]

(* A ping ensures first that there is a daemon. *)
Begin(c) ==
    /\ commands[c].pc = "idle"
    /\ Goto(c, IF c \in Pings THEN "probe" ELSE "request")
    /\ UNCHANGED <<waits, guest, daemon_vars, timed_out>>

(* The probes of ensure_daemon_running, and the command's own request. *)
Requesting(c) == commands[c].pc \in {"probe", "probe_again", "request"}

(* create_connection and sendall: the request waits in the daemon's backlog. *)
Connect(c) ==
    /\ Requesting(c) /\ commands[c].stage = "none"
    /\ \E d \in Serving :
         commands' = [commands EXCEPT ![c].daemon = d, ![c].stage = "queued"]
    /\ UNCHANGED <<waits, guest, daemon_vars, timed_out>>

(* A probe that fails, for whatever reason, found no daemon.  An error of    *)
(* the request itself leaves ping, while shutdown takes every OSError,       *)
(* TimeoutError included, for a daemon that does not run.                    *)
RequestFails(c) ==
    commands' = [commands EXCEPT
        ![c].stage = "none", ![c].daemon = IF commands[c].pc = "request" THEN @ ELSE Nobody,
        ![c].pc = CASE @ = "probe"       -> "spawn"
                    [] @ = "probe_again" -> "poll"
                    [] OTHER             -> IF c \in Pings THEN "raised" ELSE "not_running"]

ConnectionRefused(c) ==
    /\ Requesting(c) /\ commands[c].stage = "none"
    /\ Serving = {}
    /\ RequestFails(c)
    /\ UNCHANGED <<waits, guest, daemon_vars, timed_out>>

ConnectionCut(c) ==
    /\ commands[c].stage = "cut"
    /\ RequestFails(c)
    /\ UNCHANGED <<waits, guest, daemon_vars, timed_out>>

(* The daemon may read and answer the request all the same. *)
TimeOut(c) ==
    /\ commands[c].stage \in {"queued", "open"}
    /\ RequestFails(c)
    /\ abandoned' = IF c \in Shutdowns
                    THEN abandoned \cup {commands[c].daemon} ELSE abandoned
    /\ timed_out' = TRUE
    /\ UNCHANGED <<waits, guest, daemons, asked>>

Receive(c) ==
    /\ commands[c].stage = "answered"
    /\ commands' = [commands EXCEPT
         ![c].stage = "none", ![c].pc = IF @ = "request" THEN "done" ELSE "request"]
    /\ UNCHANGED <<waits, guest, daemon_vars, timed_out>>

(* _start_daemon_process *)
Spawn(c) ==
    /\ commands[c].pc = "spawn"
    /\ daemons' = [daemons EXCEPT ![c] = "starting"]
    /\ Goto(c, "poll")
    /\ UNCHANGED <<waits, guest, asked, abandoned, timed_out>>

(* Mistake: the time spent is not looked at. *)
PollForEver(c) ==
    /\ commands[c].pc = "poll"
    /\ daemons[c] \notin {"refused", "exited"}
    /\ Goto(c, "probe_again")
    /\ UNCHANGED <<waits, guest, daemon_vars, timed_out>>

Poll(c) ==
    /\ commands[c].pc = "poll"
    /\ commands[c].polls < MAX_POLLS
    /\ daemons[c] \notin {"refused", "exited"}
    /\ commands' = [commands EXCEPT ![c].pc = "probe_again", ![c].polls = @ + 1]
    /\ UNCHANGED <<waits, guest, daemon_vars, timed_out>>

(* "daemon exited during startup" *)
ChildExited(c) ==
    /\ commands[c].pc = "poll"
    /\ daemons[c] \in {"refused", "exited"}
    /\ Goto(c, "raised")
    /\ UNCHANGED <<waits, guest, daemon_vars, timed_out>>

(* "daemon did not become ready" *)
StartupTimeOut(c) ==
    /\ commands[c].pc = "poll" /\ commands[c].polls > 0
    /\ Goto(c, "raised")
    /\ timed_out' = TRUE
    /\ UNCHANGED <<waits, guest, daemon_vars>>

----
(* The daemons. *)

(* Mistake: the port is shared (reuse_port). *)
BindAnyway(d) ==
    /\ daemons[d] = "starting"
    /\ daemons' = [daemons EXCEPT ![d] = "serving"]
    /\ UNCHANGED <<waits, guest, commands, asked, abandoned, timed_out>>

(* start_server binds the port, or the daemon exits with code 1. *)
Bind(d) ==
    /\ daemons[d] = "starting"
    /\ daemons' = [daemons EXCEPT ![d] = IF Serving = {} THEN "serving" ELSE "refused"]
    /\ UNCHANGED <<waits, guest, commands, asked, abandoned, timed_out>>

Connected(d, stage) == {c \in Commands : commands[c].daemon = d /\ commands[c].stage = stage}

Accept(d) ==
    /\ daemons[d] = "serving"
    /\ \E c \in Connected(d, "queued") : commands' = [commands EXCEPT ![c].stage = "open"]
    /\ UNCHANGED <<waits, guest, daemon_vars, timed_out>>

(* A program that never closes its connection, which handle_client goes on   *)
(* reading; where wait_closed does not wait nothing comes of it.             *)
Visit(d) ==
    /\ waits /\ guest = Nobody /\ daemons[d] = "serving"
    /\ guest' = d
    /\ UNCHANGED <<waits, commands, daemon_vars, timed_out>>

(* Mistake: every request stops the daemon. *)
AnyStops(c) == c \in Commands

(* Mistake: should_shutdown is never set. *)
NoneStops(c) == FALSE

(* should_shutdown *)
Stops(c) == c \in Shutdowns

(* Mistake: the connection is closed before the response is written. *)
HandleSilently(d) ==
    /\ daemons[d] \in {"serving", "closing"}
    /\ \E c \in Connected(d, "open") :
         /\ commands' = [commands EXCEPT ![c].stage = IF Stops(c) THEN "cut" ELSE "answered"]
         /\ asked' = IF Stops(c) THEN asked \cup {d} ELSE asked
    /\ UNCHANGED <<waits, guest, daemons, abandoned, timed_out>>

(* handle_client reads a request, answers it and may set shutdown_event. *)
Handle(d) ==
    /\ daemons[d] \in {"serving", "closing"}
    /\ \E c \in Connected(d, "open") :
         /\ commands' = [commands EXCEPT ![c].stage = "answered"]
         /\ asked' = IF Stops(c) THEN asked \cup {d} ELSE asked
    /\ UNCHANGED <<waits, guest, daemons, abandoned, timed_out>>

(* A request whose sender is gone: writing the response may raise, and then  *)
(* shutdown_event is not set.                                                *)
HandleAbandoned(d) ==
    /\ daemons[d] \in {"serving", "closing"} /\ d \in abandoned
    /\ abandoned' = abandoned \ {d}
    /\ asked' \in {asked, asked \cup {d}}
    /\ UNCHANGED <<waits, guest, commands, daemons, timed_out>>

(* server.close(): what is still in the backlog is reset. *)
Close(d) ==
    /\ daemons[d] = "serving" /\ d \in asked
    /\ daemons' = [daemons EXCEPT ![d] = "closing"]
    /\ commands' = [c \in Commands |->
         IF c \in Connected(d, "queued") THEN [commands[c] EXCEPT !.stage = "cut"]
         ELSE commands[c]]
    /\ UNCHANGED <<waits, guest, asked, abandoned, timed_out>>

(* A handler is done when it answered a shutdown or its client has closed.   *)
Open(d) == Connected(d, "open") \cup {c \in Connected(d, "answered") : ~Stops(c)}

(* The end of run_daemon: handlers that wait_closed did not wait for are     *)
(* cancelled, and their connections closed.                                  *)
Exit(d) ==
    /\ daemons[d] = "closing"
    /\ waits => Open(d) = {} /\ guest # d
    /\ daemons' = [daemons EXCEPT ![d] = "exited"]
    /\ commands' = [c \in Commands |->
         IF c \in Connected(d, "open") THEN [commands[c] EXCEPT !.stage = "cut"]
         ELSE commands[c]]
    /\ abandoned' = abandoned \ {d}
    /\ UNCHANGED <<waits, guest, asked, timed_out>>

----
CommandStep(c) ==
    \/ Connect(c) \/ ConnectionRefused(c) \/ ConnectionCut(c) \/ TimeOut(c) \/ Receive(c)
    \/ Spawn(c) \/ Poll(c) \/ ChildExited(c) \/ StartupTimeOut(c)

DaemonStep(d) ==
    \/ Bind(d) \/ Accept(d) \/ Handle(d) \/ HandleAbandoned(d) \/ Close(d) \/ Exit(d)

(* Waiting for the guest. *)
Kept(d) == daemons[d] = "closing" /\ guest = d

(* Every command has ended, and a daemon that is left serves or is kept. *)
Rest ==
    /\ \A c \in Commands : commands[c].pc \in {"done", "raised", "not_running"}
    /\ \A d \in Daemons :
         daemons[d] \in {"none", "serving", "refused", "exited"} \/ Kept(d)
    /\ UNCHANGED vars

Next ==
    \/ \E c \in Commands : Begin(c) \/ CommandStep(c)
    \/ \E d \in Daemons : DaemonStep(d) \/ Visit(d)
    \/ Rest

(* A process that can go on does; commands need not be run. *)
Spec ==
    /\ Init /\ [][Next]_vars
    /\ \A c \in Commands : WF_vars(CommandStep(c))
    /\ \A d \in Daemons : WF_vars(DaemonStep(d))
====
