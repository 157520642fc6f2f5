---- MODULE RecordLog ----
(***************************************************************************)
(* What the context memory promises its readers, whatever writes are cut   *)
(* short or meet and whoever dies: a list whose first entries, once firm,  *)
(* stay what they are.  Where appends are orderly, it grows at its end,    *)
(* can lose nothing but its last entry, and is read as it is at one time;  *)
(* elsewhere a reader is sure of what was firm when it began to read.      *)
(***************************************************************************)
EXTENDS Naturals, Sequences, SequencesExt

CONSTANTS Entries, Readers

VARIABLES
    orderly, \* appending is atomic
    log,     \* the entries that are to be found
    firm,    \* how many of them, from the first, can no longer be lost
    sure,    \* what each reader that reads will find at least
    seen     \* what each reader was given last, until it goes on

vars == <<orderly, log, firm, sure, seen>>

Init ==
    /\ orderly \in BOOLEAN
    /\ log = <<>> /\ firm = 0
    /\ sure = [p \in Readers |-> <<>>]
    /\ seen = [p \in Readers |-> <<>>]

Firmer == firm' \in firm..Len(log')

Settle == UNCHANGED <<orderly, sure, seen, log>> /\ Firmer

Add ==
    /\ UNCHANGED <<orderly, sure, seen>>
    /\ log' \in Seq(Entries) \ {<<>>} /\ Front(log') = log
    /\ Last(log') \notin Range(log)
    /\ Firmer

LoseLast ==
    /\ UNCHANGED <<orderly, sure, seen>>
    /\ firm < Len(log) /\ log' = Front(log)
    /\ Firmer

(* Appends that meet overwrite each other. *)
Collide ==
    /\ ~orderly /\ UNCHANGED <<orderly, sure, seen>>
    /\ log' \in Seq(Entries) /\ SubSeq(log', 1, firm) = SubSeq(log, 1, firm)
    /\ Firmer

Begin(p) ==
    /\ seen' = [seen EXCEPT ![p] = <<>>]
    /\ sure' = [sure EXCEPT ![p] = SubSeq(log, 1, firm)]
    /\ UNCHANGED <<orderly, log, firm>>

(* What is overwritten while it is read may come out in any state. *)
Mixed(p) ==
    /\ ~orderly
    /\ seen'[p] \in Seq(Entries) /\ IsPrefix(sure[p], seen'[p])

Read(p) ==
    /\ sure' = [sure EXCEPT ![p] = <<>>]
    /\ seen' = [seen EXCEPT ![p] = seen'[p]]
    /\ seen'[p] = log \/ Mixed(p)
    /\ UNCHANGED <<orderly, log, firm>>

(* Of what it has read, or before it has. *)
Leave(p) ==
    /\ sure' = [sure EXCEPT ![p] = <<>>] /\ seen' = [seen EXCEPT ![p] = <<>>]
    /\ UNCHANGED <<orderly, log, firm>>

Next ==
    \/ Settle \/ Add \/ LoseLast \/ Collide
    \/ \E p \in Readers : Begin(p) \/ Read(p) \/ Leave(p)

Spec == Init /\ [][Next]_vars
====
