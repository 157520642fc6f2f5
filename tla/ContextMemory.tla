---- MODULE ContextMemory ----
(***************************************************************************)
(* The context memory, class ContextMemory of src/core/llm/Agent/memory.py:*)
(* a file of JSON lines which the runs of the command line and the request *)
(* threads of the API, in several processes, append to and read with no    *)
(* lock.                                                                   *)
(*                                                                         *)
(* A record's text is a row of pieces of one size, <<r, 1>>, <<r, 2>>, ... *)
(* the last of which is the newline; the file is a row of such pieces.     *)
(* All but the newline meet inside one of the two strings of the record,   *)
(* and not inside an escape; in some records they meet inside characters.  *)
(* An absent file and an empty one read the same and are not told apart.   *)
(*                                                                         *)
(* What "a" means is up to the system.  POSIX appends atomically, but may  *)
(* take less than it is given (a full disk, a signal, a kill): then the    *)
(* buffered writer issues another write for the rest.  The C runtime of    *)
(* Windows seeks to the end and then writes.  The two are looked at apart: *)
(* no write is cut short on a system that seeks.                           *)
(***************************************************************************)
EXTENDS Naturals, FiniteSets, Sequences, SequencesExt, Selection

CONSTANTS
    Processes,  \* threads of control that use the file, in any process
    Records,    \* what is remembered, each once
    Long,       \* the records of four pieces; the others have three
    AnswerAt,   \* the piece of each that holds the key of its answer
    Split,      \* how its pieces split characters, 0 if they do not
    MAX_CUTS    \* bound: writes that are cut short

ASSUME RecordsAssumption ==
    /\ Long \subseteq Records
    /\ AnswerAt \in [Records -> 1..3] /\ \A r \in Records \ Long : AnswerAt[r] # 3
    /\ Split \in [Records -> Nat]
ASSUME CutsAssumption == MAX_CUTS \in Nat

VARIABLES
    atomic,     \* the system appends atomically
    file,       \* the pieces in the file
    pc,         \* what each process is doing
    unwritten,  \* the text it has still to write
    at,         \* where the system's seek has put it
    taken,      \* what it has read so far
    views,      \* the list that load returned, until the process goes on
    started,    \* history: records given to remember
    written,    \* history: records whose text was written to its end
    cuts,       \* history: the pieces after which a write was cut short
    met,        \* history: records whose writing met another's
    sure        \* history: what was firm when each load began

file_vars  == <<file, written, cuts, met>>
write_vars == <<unwritten, at, started>>
read_vars  == <<taken, views, sure>>

vars == <<atomic, pc, file_vars, write_vars, read_vars>>

Size(r) == IF r \in Long THEN 4 ELSE 3

(* json.dumps(record, ensure_ascii=False) + "\n" *)
Text(r) == [k \in 1..Size(r) |-> <<r, k>>]

Newline(piece) == piece[2] = Size(piece[1])

(* Whether the piece ends, or begins, inside a string. *)
EndsInside(piece)   == piece[2] < Size(piece[1]) - 1
BeginsInside(piece) == piece[2] \in 2 .. Size(piece[1]) - 1

Init ==
    /\ atomic \in BOOLEAN
    /\ file = <<>>
    /\ pc = [p \in Processes |-> "idle"]
    /\ unwritten = [p \in Processes |-> <<>>]
    /\ at = [p \in Processes |-> 0]
    /\ taken = [p \in Processes |-> <<>>]
    /\ views = [p \in Processes |-> <<>>]
    /\ sure = [p \in Processes |-> <<>>]
    /\ started = {} /\ written = {} /\ cuts = {} /\ met = {}

----
(* Reading the file. *)

StartsLine(f, i) == i = 1 \/ Newline(f[i - 1])

(* The line that i is in goes on to j; it need not be ended. *)
EndsLine(f, i, j) ==
    /\ j = Len(f) \/ Newline(f[j + 1])
    /\ \A k \in i..j : ~Newline(f[k])

LineEnd(f, i) == CHOOSE j \in i .. Len(f) : EndsLine(f, i, j)

(* Whether the pieces from i to j are the JSON of a question and an answer:  *)
(* those of one record, or those of several that were cut inside strings.    *)
(* The key of an answer must be among them; a later answer replaces an       *)
(* earlier one.                                                              *)
IsRecord(f, i, j) ==
    /\ f[i][2] = 1 /\ f[j][2] = Size(f[j][1]) - 1
    /\ \A k \in i .. j - 1 : EndsInside(f[k]) /\ BeginsInside(f[k + 1])
    /\ \E k \in i..j : f[k][2] = AnswerAt[f[k][1]]

RecordAt(f, i) ==
    /\ StartsLine(f, i)
    /\ \E j \in i .. Len(f) : EndsLine(f, i, j) /\ IsRecord(f, i, j)

LineText(f, i) == SubSeq(f, i, LineEnd(f, i))

(* What the lines that start at the given places hold, in their order. *)
RecordsOf(f, lines) ==
    [n \in 1 .. Cardinality(lines) |-> LineText(f, Nth(lines, n))]

RecordLines(f) == {i \in DOMAIN f : RecordAt(f, i)}

(* Mistake: the loop ends at the first line that is no JSON. *)
ReadToFirstBad(f) ==
    RecordsOf(f, {i \in RecordLines(f) :
                    \A j \in 1..i : StartsLine(f, j) => RecordAt(f, j)})

(* The loop of load, which skips every other line. *)
ReadRecords(f) == RecordsOf(f, RecordLines(f))

(* What of a character stands before the place after i, and what behind it. *)
SplitAfter(f, i) == IF i > 0 /\ EndsInside(f[i]) THEN Split[f[i][1]] ELSE 0
SplitBefore(f, i) == IF i <= Len(f) /\ BeginsInside(f[i]) THEN Split[f[i][1]] ELSE 0

(* No character is torn; load does not take UnicodeDecodeError. *)
Decodable(f) == \A i \in 0 .. Len(f) : SplitAfter(f, i) = SplitBefore(f, i + 1)

(* Nobody who has yet to write can reach the first n pieces of the file. *)
Beyond(n) == \A p \in Processes : pc[p] = "sought" => at[p] >= n

(* The records whose newline is in the file and out of reach. *)
FirmLines ==
    {i \in RecordLines(file) :
        LET newline == LineEnd(file, i) + 1 IN newline <= Len(file) /\ Beyond(newline)}

Goto(p, where) == pc' = [pc EXCEPT ![p] = where]

(* Before planning, instead of remembering when the question is blank, and   *)
(* at the end of remembering.                                                *)
Load(p) ==
    /\ pc[p] \in {"idle", "written"} /\ Goto(p, "loading")
    /\ sure' = [sure EXCEPT ![p] = RecordsOf(file, FirmLines)]
    /\ views' = [views EXCEPT ![p] = <<>>]
    /\ UNCHANGED <<atomic, file_vars, write_vars, taken>>

(* The file is read by buffers.  Where it only grows, what they hold in the  *)
(* end is the file as it was when the last one met its end.                  *)
ReadOn(p) ==
    /\ ~atomic /\ pc[p] = "loading"
    /\ \E n \in Len(taken[p]) + 1 .. Len(file) :
         taken' = [taken EXCEPT ![p] = @ \o SubSeq(file, Len(@) + 1, n)]
    /\ UNCHANGED <<atomic, pc, file_vars, write_vars, views, sure>>

AllTaken(p) == taken[p] \o SubSeq(file, Len(taken[p]) + 1, Len(file))

(* A load that raises returns nothing. *)
EndLoad(p) ==
    /\ pc[p] = "loading" /\ Goto(p, "idle")
    /\ \/ ~Decodable(AllTaken(p)) /\ UNCHANGED views
       \/ /\ Decodable(AllTaken(p))
          /\ views' = [views EXCEPT ![p] = ReadRecords(AllTaken(p))]
    /\ taken' = [taken EXCEPT ![p] = <<>>]
    /\ sure' = [sure EXCEPT ![p] = <<>>]
    /\ UNCHANGED <<atomic, file_vars, write_vars>>

----
(* Remembering. *)

(* open("a") and file.write, which puts the text in the buffer. *)
Open(p) ==
    /\ pc[p] = "idle"
    /\ \E r \in Records \ started :
         /\ unwritten' = [unwritten EXCEPT ![p] = Text(r)]
         /\ started' = started \cup {r}
    /\ Goto(p, "writing")
    /\ views' = [views EXCEPT ![p] = <<>>]
    /\ UNCHANGED <<atomic, file_vars, at, taken, sure>>

Seek(p) ==
    /\ ~atomic /\ pc[p] = "writing"
    /\ at' = [at EXCEPT ![p] = Len(file)]
    /\ Goto(p, "sought")
    /\ UNCHANGED <<atomic, file_vars, unwritten, started, read_vars>>

Put(pieces, place) ==
    SubSeq(file, 1, place) \o pieces \o SubSeq(file, place + Len(pieces) + 1, Len(file))

(* Mistake: the file is opened for writing, not for appending. *)
AtStart(p) == 0

Place(p) == IF atomic THEN Len(file) ELSE at[p]

MeetsAnother(p) ==
    Place(p) # Len(file) \/ \E q \in Processes \ {p} : pc[q] = "sought"

(* What is left in the buffer is written when the file is closed. *)
WriteRest(p) ==
    /\ pc[p] = (IF atomic THEN "writing" ELSE "sought")
    /\ LET r == unwritten[p][1][1]
       IN /\ written' = written \cup {r}
          /\ met' = IF MeetsAnother(p) THEN met \cup {r} ELSE met
    /\ file' = Put(unwritten[p], Place(p))
    /\ unwritten' = [unwritten EXCEPT ![p] = <<>>]
    /\ at' = [at EXCEPT ![p] = 0]
    /\ Goto(p, "written")
    /\ UNCHANGED <<atomic, started, cuts, read_vars>>

(* Only a part of it is. *)
WriteCutShort(p) ==
    /\ atomic /\ pc[p] = "writing" /\ Cardinality(cuts) < MAX_CUTS
    /\ \E n \in 1 .. Len(unwritten[p]) - 1 :
         /\ file' = file \o SubSeq(unwritten[p], 1, n)
         /\ unwritten' = [unwritten EXCEPT ![p] = SubSeq(@, n + 1, Len(@))]
         /\ cuts' = cuts \cup {unwritten[p][n]}
    /\ UNCHANGED <<atomic, pc, at, started, written, met, read_vars>>

(* Mistake: the buffer outlives the error. *)
AbandonKeepingBuffer(p) ==
    /\ pc[p] # "idle" /\ Goto(p, "idle")
    /\ taken' = [taken EXCEPT ![p] = <<>>]
    /\ sure' = [sure EXCEPT ![p] = <<>>]
    /\ UNCHANGED <<atomic, file_vars, write_vars, views>>

(* The disk is full and remember raises, or the process is killed and       *)
(* another takes its place: the rest is never written.                      *)
Abandon(p) ==
    /\ pc[p] # "idle" /\ Goto(p, "idle")
    /\ unwritten' = [unwritten EXCEPT ![p] = <<>>]
    /\ at' = [at EXCEPT ![p] = 0]
    /\ taken' = [taken EXCEPT ![p] = <<>>]
    /\ sure' = [sure EXCEPT ![p] = <<>>]
    /\ UNCHANGED <<atomic, file_vars, started, views>>

----
Next ==
    \E p \in Processes :
        \/ Load(p) \/ ReadOn(p) \/ EndLoad(p)
        \/ Open(p) \/ Seek(p) \/ WriteRest(p) \/ WriteCutShort(p) \/ Abandon(p)

Spec == Init /\ [][Next]_vars
====
