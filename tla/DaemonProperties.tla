---- MODULE DaemonProperties ----
(***************************************************************************)
(* What the users of sorrow ping and sorrow shutdown can rely on.          *)
(***************************************************************************)
EXTENDS Daemon

(* The types; and at most one daemon serves the port. *)
TypeOK ==
    /\ waits \in BOOLEAN /\ timed_out \in BOOLEAN
    /\ commands \in [Commands ->
         [pc : {"idle", "probe", "spawn", "poll", "probe_again", "request",
                "done", "raised", "not_running"},
          daemon : Daemons \cup {Nobody},
          stage : {"none", "queued", "open", "answered", "cut"}, polls : 0..MAX_POLLS]]
    /\ daemons \in [Daemons ->
         {"none", "starting", "serving", "refused", "closing", "exited"}]
    /\ guest \in Daemons \cup {Nobody}
    /\ asked \subseteq Daemons /\ abandoned \subseteq Daemons
    /\ \A d, e \in Serving : d = e

Stopped == {d \in Daemons : daemons[d] \in {"closing", "exited"}}

(* A shutdown has, or is about to get, the answer of d. *)
Told(d) ==
    \E s \in Shutdowns :
        commands[s].daemon = d /\ (commands[s].stage = "answered" \/ commands[s].pc = "done")

(* "The daemon remains running": without time-outs only a shutdown that is   *)
(* told so stops a daemon.  A ping then fails only if the daemon it started  *)
(* lost the port to another's, or if the daemon that it had found, or        *)
(* started, was stopped before it answered.                                  *)
PingFailureExplained ==
    ~timed_out =>
        /\ \A d \in Stopped : Told(d)
        /\ \A c \in Pings : commands[c].pc = "raised" =>
             \/ daemons[c] = "refused" /\ Serving \cup Stopped # {}
             \/ Stopped \cap {c, commands[c].daemon} # {}

(* shutdown says "Daemon is not running" when none serves the port, when the *)
(* one it reached was stopped by another command, or after a time-out.       *)
NotRunningReason ==
    \A c \in Shutdowns :
        commands[c].pc = "request" /\ commands'[c].pc = "not_running" =>
            \/ Serving = {}
            \/ timed_out'
            \/ daemons[commands[c].daemon] \in {"closing", "exited"}

NotRunningExplained == [][NotRunningReason]_vars

(* Everything comes to rest, and then every command has ended and a daemon   *)
(* that told one of them that it shuts down has exited, whatever the other   *)
(* commands did to it; only one that a program stays connected to, where     *)
(* wait_closed waits, is left neither serving nor exited.                    *)
ShutdownsComplete ==
    <>[](/\ \A c \in Commands : commands[c].pc \in {"idle", "done", "raised", "not_running"}
         /\ \A d \in Daemons :
              daemons[d] \in {"none", "serving", "refused", "exited"} \/ (waits /\ Kept(d))
         /\ \A c \in Shutdowns :
              LET d == commands[c].daemon
              IN commands[c].pc = "done" => daemons[d] = "exited" \/ Kept(d))

----
(* What the documentation says and the code does not do. *)

(* "The first ping starts the core daemon automatically": no ping fails in   *)
(* its startup while a daemon serves, but for time-outs.                     *)
FirstPingsSucceed ==
    [][\A c \in Pings :
         commands[c].pc = "poll" /\ commands'[c].pc = "raised" =>
             Serving = {} \/ timed_out']_vars
====
