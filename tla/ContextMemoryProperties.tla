---- MODULE ContextMemoryProperties ----
(***************************************************************************)
(* What is left of the context memory when writes are cut short, meet and  *)
(* are abandoned.                                                          *)
(***************************************************************************)
EXTENDS ContextMemory

Pieces(S) == {piece \in S \X (1..4) : piece[2] <= Size(piece[1])}

(* The types; a process that is not writing has nothing left to write.      *)
TypeOK ==
    /\ atomic \in BOOLEAN
    /\ started \subseteq Records /\ written \subseteq started /\ met \subseteq written
    /\ cuts \subseteq Pieces(started)
    /\ file \in Seq(Pieces(started))
    /\ pc \in [Processes -> {"idle", "loading", "writing", "sought", "written"}]
    /\ unwritten \in [Processes -> Seq(Pieces(started))]
    /\ at \in [Processes -> 0..Len(file)]
    /\ taken \in [Processes -> Seq(Pieces(started))]
    /\ views \in [Processes -> Seq(Seq(Pieces(started)))]
    /\ sure \in [Processes -> Seq(Seq(Pieces(started)))]
    /\ \A p \in Processes :
         /\ pc[p] \in {"writing", "sought"} <=> unwritten[p] # <<>>
         /\ Len(taken[p]) <= Len(file)
         /\ pc[p] # "loading" => taken[p] = <<>>

(* What a line holds that holds the record and nothing else.                *)
Body(r) == [k \in 1 .. Size(r) - 1 |-> <<r, k>>]

(* Records that were written to the end and that load does not find.        *)
Lost == {r \in written : Body(r) \notin Range(ReadRecords(file))}

(* Those in a list that nobody gave to remember: parts of several.          *)
Mixtures(list) == {text \in Range(list) : \A r \in started : text # Body(r)}

Wide == {r \in Records : Split[r] # 0}

(* Where appending is atomic, a write that is cut short costs at most the   *)
(* record it writes and one other, however many follow; it takes two to mix *)
(* a record that nobody gave, and one more for each further one; and load   *)
(* raises only if a record was cut inside a character.  Elsewhere a record  *)
(* is lost, or comes out mixed, only if its writing met another's, and load *)
(* of the file as it is raises only if that of one with split characters    *)
(* did.                                                                     *)
DamageBounded ==
    /\ atomic =>
         /\ Cardinality(Lost) <= 2 * Cardinality(cuts)
         /\ Mixtures(ReadRecords(file)) = {}
              \/ Cardinality(Mixtures(ReadRecords(file))) < Cardinality(cuts)
         /\ ~Decodable(file) => \E piece \in cuts : piece[1] \in Wide
    /\ ~atomic =>
         /\ Lost \subseteq met
         /\ \A p \in Processes : \A text \in Mixtures(views[p]) :
              \A piece \in Range(text) : piece[1] \in met
         /\ ~Decodable(file) => met \cap Wide # {}

Promise == INSTANCE RecordLog WITH
    Entries <- Seq(Records \X (1..4)), Readers <- Processes, orderly <- atomic,
    log <- ReadRecords(file), firm <- Cardinality(FirmLines), seen <- views

(* A record whose line has ended, with nobody about to write over it, stays *)
(* in its place for every later reader.  Where appending is atomic, what    *)
(* load finds is added at the end only, none but the last is ever lost, and *)
(* a load that returns gives all of it.  Elsewhere it gives at least what   *)
(* was firm when it began.                                                  *)
ImplementsRecordLog == Promise!Spec
====
