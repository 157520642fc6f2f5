---- MODULE MCDaemon ----
(* Daemon for two pings and two shutdowns, in any order.                    *)
EXTENDS DaemonProperties
====
