---- MODULE RagStoreProperties ----
(***************************************************************************)
(* What the RAG service promises the requests that share it.               *)
(***************************************************************************)
EXTENDS RagStore

ThreadStates ==
    [pc : Pcs, mutex : {"out", "waiting", "in"}, task : {"upload", "retrieve"},
     document : Documents \cup {NoDocument}, name : Names \cup {"none"},
     stale : SUBSET Names, handle : Nat, kind : Kinds \cup {"unset"},
     retrievals : 0..MAX_RETRIEVALS, queries : 0..MAX_QUERIES,
     unread : SUBSET Documents, found : BOOLEAN,
     outcome : {"none", "found", "missed", "raised", "unavailable"},
     known : SUBSET Documents, interrupted : SUBSET Documents]

(* The types; and whoever is inside holds the lock, so that one thread is. *)
TypeOK ==
    /\ installed \in BOOLEAN
    /\ disk \in [Documents -> [made : BOOLEAN, files : SUBSET Names, blank : SUBSET Names,
                               chunks : {"none", "torn", "whole"}]]
    /\ collection \in [number : Nat, exists : BOOLEAN, kind : Kinds \cup {"unset"},
                       documents : SUBSET Documents]
    /\ handle \in Nat
    /\ models \in [{"embed", "rerank"} -> Kinds \cup {"unset"}]
    /\ lock \in Threads \cup {Nobody}
    /\ threads \in [Threads -> ThreadStates]
    /\ \A t \in Threads : threads[t].mutex = "in" => lock = t
    /\ requests \in 0..MAX_REQUESTS
    /\ restarts \in 0..MAX_RESTARTS
    /\ uploaded \subseteq Documents /\ failed \subseteq Documents
    /\ cutoff \subseteq Documents /\ dropped \subseteq Documents
    /\ spoilt \in BOOLEAN

(* All embeddings that one process makes come from the same model, whichever *)
(* thread was the first to need it and whether it could be loaded: vectors   *)
(* of two dimensions never meet in a process.                                *)
OneEmbeddingModel ==
    \A t \in Threads : threads[t].kind \in {"unset", models.embed}

(* The chunks of a document whose upload returned stay on disk, where local  *)
(* retrieval finds them, through later uploads of it that fail or never end; *)
(* they are unreadable only while one writes them, or where the last writing *)
(* of them was cut short.                                                    *)
ChunksKept ==
    \A d \in uploaded :
        \/ disk[d].chunks = "whole"
        \/ disk[d].chunks = "torn" /\ d \in cutoff \cup UploadsAt({"write_chunks"})

(* When no upload is under way, the directories hold the documents that were *)
(* uploaded, but for those with an upload that failed or was cut off, and    *)
(* the collection holds them, but for those whose vectors were lost since to *)
(* a failure, a crash or a reset: in whatever order the uploads of one       *)
(* document, or under two names, were interleaved.                           *)
StoresAgree ==
    (\A t \in Threads : ~Uploading(t)) =>
        /\ \A d \in Documents \ failed :
             /\ disk[d].chunks = IF d \in uploaded THEN "whole" ELSE "none"
             /\ disk[d].files # {} <=> d \in uploaded
             /\ disk[d].blank = {}
        /\ installed =>
             /\ uploaded \ dropped \subseteq collection.documents
             /\ collection.documents \subseteq uploaded \cup failed

(* A retrieval comes back with nothing only if every document that it asked  *)
(* for and that was uploaded before it began was out of its reach at some    *)
(* time since: its chunks or vectors being written or lost before to a       *)
(* failure, a crash or a reset, or unreadable.  It raises only if one was,   *)
(* or if the handle to the collection was spoilt by a reset that failed or   *)
(* that another one overtook.                                                *)
MissExplained ==
    \A t \in Threads :
        LET asked == Asked(t) \cap threads[t].known
        IN /\ threads[t].outcome = "missed" => asked \subseteq threads[t].interrupted
           /\ threads[t].outcome = "raised" =>
                Asked(t) \cap threads[t].interrupted # {} \/ spoilt

(* The calls that an upload, and a retrieval, have still to make at most.    *)
CallsLeft ==
    [upload   |-> [unlink |-> 14, write |-> 13, extract |-> 12, truncate_chunks |-> 11,
                   write_chunks |-> 10, collection |-> 9, embed |-> 8, delete |-> 7,
                   upsert |-> 6, delete_collection |-> 5, recreate |-> 4, assign |-> 3,
                   reread |-> 2, upsert_again |-> 1],
     retrieve |-> [embed |-> 6, collection |-> 5, query |-> 4, local |-> 3, read |-> 2,
                   rerank |-> 1, ready |-> 0]]

(* What it takes to make a value that is missing: wanting the lock, taking   *)
(* it, making the value.                                                     *)
MakingLeft(t) ==
    CASE threads[t].mutex = "in"      -> 1
      [] threads[t].mutex = "waiting" -> 2
      [] OTHER -> IF threads[t].pc \in {"collection", "embed", "rerank"} /\ Missing(t)
                  THEN 3 ELSE 0

QuerySteps == Cardinality(Documents) + 1

ReadingLeft(t) ==
    IF Retrieving(t)
    THEN (MAX_QUERIES - threads[t].queries) * QuerySteps + Cardinality(threads[t].unread)
    ELSE 0

RetrievalSteps == 4 * 6 + 4 + MAX_QUERIES * QuerySteps

StepsLeft(t) ==
    IF threads[t].pc = "idle" THEN 0
    ELSE 1 + (MAX_RETRIEVALS - threads[t].retrievals) * RetrievalSteps
           + 4 * CallsLeft[threads[t].task][threads[t].pc] + MakingLeft(t)
           + ReadingLeft(t) + Cardinality(threads[t].stale)

(* Leaves aside what the steps of others do to it. *)
State(t) == [threads[t] EXCEPT !.interrupted = {}]

(* Each step of a request takes from a number of steps that are left to it,  *)
(* and nobody else's adds to them.                                           *)
StepTaken ==
    \A t \in Threads : threads[t].pc # "idle" =>
        StepsLeft(t)' <= StepsLeft(t) - (IF State(t)' # State(t) THEN 1 ELSE 0)

(* A thread in a request can go on, or waits for the holder of the lock,     *)
(* which can.                                                                *)
NobodyStuck ==
    \A t \in Threads : threads[t].pc # "idle" =>
        \/ ENABLED Step(t)
        \/ /\ threads[t].mutex = "waiting" /\ lock \in Threads /\ threads[lock].mutex = "in"
           /\ ENABLED Step(lock)

(* Every request comes to its end, whatever it waits for, meets and reads    *)
(* anew: it is never stuck, not on the lock in particular, and takes no more *)
(* steps than were left to it when it began.  In a state that has no step    *)
(* every request has ended, which the check for deadlock says.               *)
RequestsRunOut == [][NobodyStuck /\ StepTaken]_vars

----
(* What the code says of itself and does not do. *)

(* Retrieval returns chunks "from Chroma or local storage": a request that   *)
(* is alone finds no collection made yet or the one that exists, not one     *)
(* whose every use raises.                                                   *)
ChromaUsableAtRest ==
    (\A t \in Threads : threads[t].pc = "idle") =>
        handle = 0 \/ (collection.exists /\ handle = collection.number)
====
