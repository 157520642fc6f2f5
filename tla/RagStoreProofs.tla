---- MODULE RagStoreProofs ----
(***************************************************************************)
(* The safety properties of the RAG store, for any number of threads,      *)
(* documents, requests, queries and restarts; and that requests run out of *)
(* steps.                                                                  *)
(*                                                                         *)
(* Disk and collection disagree while documents are uploaded, and several  *)
(* threads may upload one document at once.  So the invariant names, for   *)
(* everything that a store may lack or hold too much, the thread that will *)
(* put it right, or the history in which one that did not get there left   *)
(* its mark; and a retrieval that is under way has marked whatever is out  *)
(* of its reach as interrupted.                                            *)
(***************************************************************************)
EXTENDS RagStoreProperties, FiniteSetTheorems, TLAPS

(* Where a thread has written its chunks, ... *)
Written == {"collection", "embed", "delete"} \cup Vectorless

(* ... and what belongs to an upload, or to a retrieval, only. *)
UploadPcs == {"unlink", "write", "extract", "truncate_chunks", "write_chunks", "delete"}
             \cup Vectorless
RetrievalPcs == {"ready", "query", "local", "read", "rerank"}

(* Where a thread uses the handle that it took. *)
InCollection(t) ==
    \/ threads[t].pc \in {"delete", "query"} \cup Vectorless
    \/ threads[t].pc = "embed" /\ threads[t].task = "upload"

TaskOK(t) ==
    /\ threads[t].pc \in UploadPcs => threads[t].task = "upload"
    /\ threads[t].pc \in RetrievalPcs => threads[t].task = "retrieve"
    /\ threads[t].mutex # "out" => threads[t].pc \in {"collection", "embed", "rerank"}
    /\ Uploading(t) => Document(t) \in Documents /\ threads[t].name \in Names

TasksOK == \A t \in Threads : TaskOK(t)

(* chunks.json, once written, is unreadable only under a writer, or where    *)
(* one was cut short; and whatever was uploaded has a directory.             *)
ChunksOK ==
    /\ \A d \in Documents :
         disk[d].chunks = "torn" => d \in cutoff \cup UploadsAt({"write_chunks"})
    /\ cutoff \subseteq failed
    /\ \A d \in uploaded \cup UploadsAt(Written) : disk[d].chunks # "none"
    /\ \A d \in uploaded \cup UploadsAt(Pcs) : disk[d].made

(* No upload of the document having failed, its directory is that of its     *)
(* uploads.                                                                  *)
FileOK(d) ==
    /\ \A name \in disk[d].blank :
         \E t \in Threads : /\ threads[t].pc = "write" /\ Document(t) = d
                            /\ threads[t].name = name
    /\ disk[d].files # {} \/ disk[d].chunks # "none" => d \in uploaded \cup UploadsAt(Pcs)
    /\ d \in uploaded \cup UploadsAt(Pcs \ {"unlink"}) =>
         disk[d].files # {} \/ d \in UploadsAt({"unlink"})

FilesOK == \A d \in Documents \ failed : FileOK(d)

(* There is one collection, and the handle of the service is to it, but for  *)
(* a reset that is under way or was spoilt.                                  *)
HandlesOK ==
    /\ handle # 0 => installed
    /\ \A t \in Threads : InCollection(t) => installed
    /\ handle = 0 \/ (collection.exists /\ handle = collection.number)
         \/ spoilt \/ UploadsAt(Resetting) # {}
    /\ \A t \in Threads : threads[t].pc = "assign" => Usable(t) \/ spoilt

(* The collection holds what was uploaded, but for what a thread will write  *)
(* again, or what was lost.                                                  *)
VectorsOK ==
    /\ collection.documents \subseteq uploaded \cup failed
    /\ installed =>
         /\ uploaded \ collection.documents \subseteq dropped \cup UploadsAt(Vectorless)
         /\ ~collection.exists => uploaded \subseteq dropped

(* A retrieval under way knows what was out of its reach. *)
Marked(t) == OutOfReach \subseteq threads[t].interrupted /\ threads[t].known \subseteq uploaded

QueryOK(t) == \/ Usable(t) \/ spoilt
              \/ Documents # {} /\ Documents \subseteq threads[t].interrupted

ReadOK(t) ==
    /\ threads[t].unread \subseteq Asked(t)
    /\ threads[t].found \/ (threads[t].known \cap Asked(t)) \ threads[t].interrupted
                             \subseteq threads[t].unread

Explained(t) ==
    LET asked == Asked(t) \cap threads[t].known
    IN /\ threads[t].outcome = "missed" => asked \subseteq threads[t].interrupted
       /\ threads[t].outcome = "raised" => Asked(t) \cap threads[t].interrupted # {} \/ spoilt

RetrievalOK(t) ==
    /\ Retrieving(t) => Marked(t)
    /\ threads[t].pc = "query" => QueryOK(t)
    /\ threads[t].pc = "read" => ReadOK(t)
    /\ Explained(t)

RetrievalsOK == \A t \in Threads : RetrievalOK(t)

StoreInv ==
    /\ TypeOK
    /\ TasksOK
    /\ OneEmbeddingModel
    /\ ChunksOK
    /\ FilesOK
    /\ HandlesOK
    /\ VectorsOK
    /\ RetrievalsOK

----
(* How a step looks from another thread: all that it does to it is to add    *)
(* documents to what interrupted its retrieval.                              *)
Same(u, documents) ==
    /\ threads'[u].pc = threads[u].pc /\ threads'[u].mutex = threads[u].mutex
    /\ threads'[u].task = threads[u].task /\ threads'[u].document = threads[u].document
    /\ threads'[u].name = threads[u].name /\ threads'[u].handle = threads[u].handle
    /\ threads'[u].kind = threads[u].kind /\ threads'[u].unread = threads[u].unread
    /\ threads'[u].found = threads[u].found /\ threads'[u].outcome = threads[u].outcome
    /\ threads'[u].known = threads[u].known
    /\ threads[u].interrupted \subseteq threads'[u].interrupted
    /\ Retrieving(u) => documents \subseteq threads'[u].interrupted

(* Thread t moves, and documents are interrupted. *)
Moves(t, documents) ==
    /\ threads' \in [Threads -> ThreadStates]
    /\ \A u \in Threads \ {t} : Same(u, documents)
    /\ TaskOK(t)'
    /\ threads'[t].kind \in {"unset", models'.embed}
    /\ models.embed \in {"unset", models'.embed}
    /\ models' \in [{"embed", "rerank"} -> Kinds \cup {"unset"}]
    /\ lock' \in Threads \cup {Nobody}
    /\ \A u \in Threads : threads'[u].mutex = "in" => lock' = u
    /\ requests' \in 0 .. MAX_REQUESTS
    /\ UNCHANGED <<installed, restarts>>

(* The documents that the others upload, and the one that thread t does. *)
Elsewhere(t, pcs) ==
    {Document(u) : u \in {v \in Threads \ {t} : Uploading(v) /\ threads[v].pc \in pcs}}

Own(t, pcs) == IF Uploading(t) /\ threads[t].pc \in pcs THEN {Document(t)} ELSE {}

LEMMA MoveFacts ==
    ASSUME StoreInv, NEW t \in Threads, NEW documents, Moves(t, documents)
    PROVE  /\ TasksOK' /\ OneEmbeddingModel'
           /\ \A pcs : UploadsAt(pcs) = Elsewhere(t, pcs) \cup Own(t, pcs)
           /\ \A pcs : UploadsAt(pcs)' = Elsewhere(t, pcs) \cup Own(t, pcs)'
<1> USE DEF StoreInv, Moves
<1>1. TasksOK'
  BY DEF TasksOK, TaskOK, Uploading, Document, Same
<1>2. OneEmbeddingModel'
  BY DEF OneEmbeddingModel, Same
<1>3. ASSUME NEW pcs PROVE UploadsAt(pcs) = Elsewhere(t, pcs) \cup Own(t, pcs)
  BY DEF UploadsAt, Elsewhere, Own
<1>4. ASSUME NEW pcs PROVE UploadsAt(pcs)' = Elsewhere(t, pcs) \cup Own(t, pcs)'
  <2>1. UploadsAt(pcs)' = Elsewhere(t, pcs)' \cup Own(t, pcs)'
    BY DEF UploadsAt, Elsewhere, Own
  <2>2. Elsewhere(t, pcs)' = Elsewhere(t, pcs)
    BY DEF Elsewhere, Uploading, Document, Same
  <2> QED  BY <2>1, <2>2
<1> QED  BY <1>1, <1>2, <1>3, <1>4

(* The retrievals of the others know of the documents that came out of their *)
(* reach.                                                                    *)
LEMMA RetrievalsKept ==
    ASSUME StoreInv, NEW t \in Threads, NEW documents \in SUBSET Documents,
           Moves(t, documents), RetrievalOK(t)',
           OutOfReach' \subseteq OutOfReach \cup documents,
           uploaded \subseteq uploaded', spoilt => spoilt',
           \/ documents = Documents /\ Documents # {}
           \/ \A u \in Threads : Usable(u) /\ threads'[u].handle = threads[u].handle => Usable(u)'
    PROVE  RetrievalsOK'
<1> SUFFICES ASSUME NEW u \in Threads \ {t} PROVE RetrievalOK(u)'
  BY DEF RetrievalsOK
<1>1. RetrievalOK(u)
  BY DEF StoreInv, RetrievalsOK
<1>2. Same(u, documents)
  BY DEF Moves
<1>3. (Retrieving(u)' <=> Retrieving(u)) /\ Asked(u)' = Asked(u)
  BY <1>2 DEF Same, Retrieving, Asked, Document
<1>4. (Retrieving(u) => Marked(u))'
  BY <1>1, <1>2, <1>3 DEF RetrievalOK, Marked, Same
<1>5. (threads[u].pc = "query" => QueryOK(u))'
  <2> SUFFICES ASSUME threads[u].pc = "query" PROVE QueryOK(u)'
    BY <1>2 DEF Same
  <2>1. Retrieving(u)
    BY DEF StoreInv, TasksOK, TaskOK, Retrieving, RetrievalPcs
  <2> QED  BY <1>1, <1>2, <2>1 DEF RetrievalOK, QueryOK, Same
<1>6. (threads[u].pc = "read" => ReadOK(u))'
  BY <1>1, <1>2, <1>3 DEF RetrievalOK, ReadOK, Same
<1>7. Explained(u)'
  BY <1>1, <1>2, <1>3 DEF RetrievalOK, Explained, Same
<1> QED  BY <1>4, <1>5, <1>6, <1>7 DEF RetrievalOK

(* The directories do not change but for that of the document of thread t,   *)
(* which changes as an upload changes it, or the upload of t fails.          *)
KeepsFiles(t) ==
    LET d == Document(t) IN
    /\ Uploading(t)
    /\ \A e \in Documents \ {d} : disk'[e] = disk[e]
    /\ uploaded' \in {uploaded, uploaded \cup {d}}
    /\ failed \subseteq failed'
    /\ Uploading(t)' => Document(t)' = d
    /\ \/ d \in failed'
       \/ /\ Uploading(t)' \/ d \in uploaded'
          /\ \A name \in disk'[d].blank :
               IF name = threads[t].name /\ threads[t].pc = "write"
                 THEN FALSE
                 ELSE \/ name \in disk[d].blank
                      \/ threads'[t].pc = "write" /\ threads'[t].name = name /\ Uploading(t)'
          /\ \/ disk'[d].files # {}
             \/ threads'[t].pc = "unlink" /\ Uploading(t)'
             \/ disk'[d].files = disk[d].files /\ threads[t].pc # "unlink"

LEMMA FilesKept ==
    ASSUME StoreInv, NEW t \in Threads, NEW documents, Moves(t, documents), KeepsFiles(t)
    PROVE  FilesOK'
<1> SUFFICES ASSUME NEW d \in Documents \ failed' PROVE FileOK(d)'
  BY DEF FilesOK
<1>1. FileOK(d)
  BY DEF FilesOK, StoreInv, KeepsFiles
<1>2. /\ \A pcs : UploadsAt(pcs) = Elsewhere(t, pcs) \cup Own(t, pcs)
      /\ \A pcs : UploadsAt(pcs)' = Elsewhere(t, pcs) \cup Own(t, pcs)'
  BY MoveFacts
<1>3. ASSUME NEW name, NEW u \in Threads \ {t}, threads[u].pc = "write",
             Document(u) = d, threads[u].name = name
      PROVE  \E v \in Threads : /\ threads'[v].pc = "write" /\ Document(v)' = d
                                /\ threads'[v].name = name
  BY <1>3 DEF Moves, Same, Document
<1>4. CASE d # Document(t)
  <2>1. \A pcs : d \notin Own(t, pcs) /\ d \notin Own(t, pcs)'
    BY <1>4 DEF Own, KeepsFiles
  <2>2. disk'[d] = disk[d] /\ (d \in uploaded' <=> d \in uploaded)
    BY <1>4 DEF KeepsFiles
  <2>3. \A pcs : d \in UploadsAt(pcs)' <=> d \in UploadsAt(pcs)
    BY <1>2, <2>1
  <2>4. ASSUME NEW name \in disk[d].blank
        PROVE  \E v \in Threads : /\ threads'[v].pc = "write" /\ Document(v)' = d
                                  /\ threads'[v].name = name
    BY <1>1, <1>3, <1>4 DEF FileOK
  <2> QED  BY <1>1, <2>2, <2>3, <2>4 DEF FileOK
<1>5. CASE d = Document(t)
  <2> DEFINE Writes(name) == threads'[t].pc = "write" /\ threads'[t].name = name /\ Uploading(t)'
  <2>1. ASSUME NEW name \in disk'[d].blank
        PROVE  \E v \in Threads : /\ threads'[v].pc = "write" /\ Document(v)' = d
                                  /\ threads'[v].name = name
    <3>1. CASE Writes(name)
      BY <1>5, <3>1 DEF KeepsFiles
    <3>2. CASE ~Writes(name)
      <4>1. name \in disk[d].blank /\ ~(name = threads[t].name /\ threads[t].pc = "write")
        BY <1>5, <3>2 DEF KeepsFiles
      <4>2. PICK u \in Threads : /\ threads[u].pc = "write" /\ Document(u) = d
                                 /\ threads[u].name = name
        BY <1>1, <4>1 DEF FileOK
      <4> QED  BY <1>3, <4>1, <4>2
    <3> QED  BY <3>1, <3>2
  <2>2. d \in uploaded' \cup UploadsAt(Pcs)'
    <3>1. Uploading(t)' => d \in Own(t, Pcs)'
      BY <1>5 DEF Own, KeepsFiles, Moves, ThreadStates
    <3> QED  BY <1>2, <1>5, <3>1 DEF KeepsFiles
  <2>3. disk'[d].files # {} \/ d \in UploadsAt({"unlink"})'
    <3>1. CASE threads'[t].pc = "unlink" /\ Uploading(t)'
      <4>1. d \in Own(t, {"unlink"})'
        BY <1>5, <3>1 DEF Own, KeepsFiles
      <4> QED  BY <1>2, <4>1
    <3>2. CASE disk'[d].files = disk[d].files /\ threads[t].pc # "unlink"
      <4>1. d \in Own(t, Pcs \ {"unlink"}) /\ Own(t, {"unlink"}) = {}
        BY <1>5, <3>2 DEF Own, KeepsFiles, StoreInv, TypeOK, ThreadStates
      <4>2. disk[d].files # {} \/ d \in UploadsAt({"unlink"})
        BY <1>1, <1>2, <4>1 DEF FileOK
      <4> QED  BY <1>2, <3>2, <4>1, <4>2
    <3> QED  BY <1>5, <3>1, <3>2 DEF KeepsFiles
  <2> QED  BY <2>1, <2>2, <2>3 DEF FileOK
<1> QED  BY <1>4, <1>5

----
(* The disk stays as it is, and so does the phase of thread t that shows it. *)
LEMMA DiskKept ==
    ASSUME StoreInv, NEW t \in Threads, NEW documents, Moves(t, documents),
           \A pcs \in {Pcs, Pcs \ {"unlink"}, {"unlink"}, {"write_chunks"}, Written} :
             Own(t, pcs)' = Own(t, pcs),
           threads[t].pc # "write", UNCHANGED <<disk, uploaded, failed, cutoff>>
    PROVE  ChunksOK' /\ FilesOK'
<1> USE DEF StoreInv
<1>1. \A pcs \in {Pcs, Pcs \ {"unlink"}, {"unlink"}, {"write_chunks"}, Written} :
        UploadsAt(pcs)' = UploadsAt(pcs)
  BY MoveFacts
<1>2. ChunksOK'
  BY <1>1 DEF ChunksOK
<1>3. FilesOK'
  <2> SUFFICES ASSUME NEW d \in Documents \ failed PROVE FileOK(d)'
    BY DEF FilesOK
  <2>1. FileOK(d)
    BY DEF FilesOK
  <2>2. ASSUME NEW name \in disk[d].blank
        PROVE  \E v \in Threads : /\ threads'[v].pc = "write" /\ Document(v)' = d
                                  /\ threads'[v].name = name
    <3>1. PICK v \in Threads : /\ threads[v].pc = "write" /\ Document(v) = d
                               /\ threads[v].name = name
      BY <2>1 DEF FileOK
    <3> QED  BY <3>1 DEF Moves, Same, Document
  <2> QED  BY <1>1, <2>1, <2>2 DEF FileOK
<1> QED  BY <1>2, <1>3

Phases == {Pcs, Pcs \ {"unlink"}, {"unlink"}, {"write_chunks"}, Written, Vectorless, Resetting,
           {"write_chunks"} \cup Vectorless}

(* A step that leaves both stores alone, by a thread that stays in its phase.*)
Quiet(t) ==
    /\ Moves(t, {})
    /\ \A pcs \in Phases : Own(t, pcs)' = Own(t, pcs)
    /\ threads[t].pc # "write" /\ threads'[t].pc # "assign"
    /\ InCollection(t)' => installed
    /\ OutOfReach' = OutOfReach => RetrievalOK(t)'
    /\ UNCHANGED <<disk, collection, handle, uploaded, failed, cutoff, dropped, spoilt>>

LEMMA QuietInv ==
    ASSUME StoreInv, NEW t \in Threads, Quiet(t)
    PROVE  StoreInv'
<1> USE DEF StoreInv, Quiet
<1>1. \A pcs \in Phases : UploadsAt(pcs)' = UploadsAt(pcs)
  BY MoveFacts
<1>2. OutOfReach' = OutOfReach
  BY <1>1 DEF OutOfReach, Phases
<1>3. TypeOK'
  BY DEF TypeOK, Moves
<1>4. TasksOK' /\ OneEmbeddingModel'
  BY MoveFacts
<1>5. ChunksOK' /\ FilesOK'
  BY DiskKept DEF Phases
<1>7. HandlesOK'
  BY <1>1 DEF HandlesOK, InCollection, Usable, Moves, Same, Phases
<1>8. VectorsOK'
  BY <1>1 DEF VectorsOK, Phases, Moves
<1>9. RetrievalsOK'
  BY <1>2, RetrievalsKept DEF Usable
<1> QED  BY <1>3, <1>4, <1>5, <1>7, <1>8, <1>9

(* A step that only thread t shows. *)
LEMMA OwnStep ==
    ASSUME threads \in [Threads -> ThreadStates], NEW t \in Threads, NEW thread,
           threads' = [threads EXCEPT ![t] = thread]
    PROVE  /\ threads'[t] = thread
           /\ thread \in ThreadStates => threads' \in [Threads -> ThreadStates]
           /\ \A u \in Threads \ {t} : threads'[u] = threads[u]
           /\ \A u \in Threads \ {t} : Same(u, {})
BY DEF Same

LEMMA IdleFacts == Idle \in ThreadStates
BY BoundsAssumption DEF Idle, ThreadStates, Pcs, Kinds

----
(* The steps that the stores do not show. *)

USE DEF At, Document, UploadPcs, RetrievalPcs, Vectorless, Resetting, Written,
        kept_vars, service_vars, bound_vars, result_vars

LEMMA GotoFacts ==
    ASSUME threads \in [Threads -> ThreadStates],
           NEW t \in Threads, NEW pc \in Pcs, Goto(t, pc)
    PROVE  threads' \in [Threads -> ThreadStates]
BY DEF Goto, ThreadStates

Outcomes == {"none", "found", "missed", "raised", "unavailable"}

LEMMA ThreadTypes ==
    ASSUME NEW thread \in ThreadStates, NEW pc \in Pcs,
           NEW mutex \in {"out", "waiting", "in"}
    PROVE  /\ [thread EXCEPT !.mutex = mutex] \in ThreadStates
           /\ [thread EXCEPT !.mutex = mutex, !.pc = pc] \in ThreadStates
           /\ \A stale \in SUBSET Names : [thread EXCEPT !.stale = stale] \in ThreadStates
           /\ \A number \in Nat :
                [thread EXCEPT !.handle = number, !.pc = pc] \in ThreadStates
           /\ \A queries \in 0 .. MAX_QUERIES, unread \in SUBSET Documents :
                [thread EXCEPT !.pc = pc, !.queries = queries, !.unread = unread]
                  \in ThreadStates
           /\ \A unread, interrupted \in SUBSET Documents, found \in BOOLEAN :
                /\ [thread EXCEPT !.unread = unread, !.interrupted = interrupted]
                     \in ThreadStates
                /\ [thread EXCEPT !.unread = unread, !.found = found] \in ThreadStates
           /\ \A outcome \in Outcomes :
                [thread EXCEPT !.pc = pc, !.mutex = mutex, !.outcome = outcome, !.handle = 0,
                               !.kind = "unset", !.queries = 0, !.unread = {}, !.found = FALSE]
                  \in ThreadStates
<1>1. 0 \in 0 .. MAX_QUERIES /\ 0 \in Nat
  BY BoundsAssumption
<1>2. \A outcome \in Outcomes :
        [thread EXCEPT !.pc = pc, !.mutex = mutex, !.outcome = outcome, !.handle = 0,
                       !.kind = "unset", !.queries = 0, !.unread = {}, !.found = FALSE]
          \in ThreadStates
  BY ONLY <1>1, thread \in ThreadStates, pc \in Pcs, mutex \in {"out", "waiting", "in"}
     DEF ThreadStates, Outcomes
<1>3. /\ [thread EXCEPT !.mutex = mutex] \in ThreadStates
      /\ [thread EXCEPT !.mutex = mutex, !.pc = pc] \in ThreadStates
      /\ \A stale \in SUBSET Names : [thread EXCEPT !.stale = stale] \in ThreadStates
      /\ \A number \in Nat : [thread EXCEPT !.handle = number, !.pc = pc] \in ThreadStates
  BY DEF ThreadStates
<1>4. \A queries \in 0 .. MAX_QUERIES, unread \in SUBSET Documents :
        [thread EXCEPT !.pc = pc, !.queries = queries, !.unread = unread] \in ThreadStates
  BY DEF ThreadStates
<1>5. \A unread, interrupted \in SUBSET Documents, found \in BOOLEAN :
        /\ [thread EXCEPT !.unread = unread, !.interrupted = interrupted] \in ThreadStates
        /\ [thread EXCEPT !.unread = unread, !.found = found] \in ThreadStates
  BY DEF ThreadStates
<1> QED  BY <1>2, <1>3, <1>4, <1>5

LEMMA RetrievedFacts ==
    ASSUME threads \in [Threads -> ThreadStates], NEW t \in Threads,
           NEW outcome \in Outcomes, NEW pc \in Pcs, Retrieved(t, outcome, pc)
    PROVE  /\ threads' \in [Threads -> ThreadStates]
           /\ \A u \in Threads \ {t} : threads'[u] = threads[u] /\ Same(u, {})
           /\ threads'[t].pc = pc /\ threads'[t].mutex = "out"
           /\ threads'[t].outcome = outcome /\ threads'[t].kind = "unset"
           /\ threads'[t].task = threads[t].task /\ threads'[t].document = threads[t].document
           /\ threads'[t].name = threads[t].name /\ threads'[t].known = threads[t].known
           /\ threads'[t].interrupted = threads[t].interrupted
<1> DEFINE thread == [threads[t] EXCEPT !.pc = pc, !.mutex = "out", !.outcome = outcome,
                        !.handle = 0, !.kind = "unset", !.queries = 0, !.unread = {},
                        !.found = FALSE]
<1>1. threads' = [threads EXCEPT ![t] = thread]
  BY DEF Retrieved
<1>2. threads[t] \in ThreadStates
  OBVIOUS
<1>3. thread \in ThreadStates
  BY ONLY <1>2, ThreadTypes
<1>4. /\ thread.pc = pc /\ thread.mutex = "out" /\ thread.outcome = outcome
      /\ thread.kind = "unset" /\ thread.task = threads[t].task
      /\ thread.document = threads[t].document /\ thread.name = threads[t].name
      /\ thread.known = threads[t].known /\ thread.interrupted = threads[t].interrupted
  BY ONLY <1>2 DEF ThreadStates
<1> HIDE DEF thread
<1> QED  BY <1>1, <1>3, <1>4, OwnStep

(* A retrieval ends with what explains its outcome. *)
LEMMA RetrievedInv ==
    ASSUME StoreInv, NEW t \in Threads, NEW outcome \in Outcomes, NEW pc \in {"ready", "rerank"},
           Retrieved(t, outcome, pc), threads[t].task = "retrieve",
           lock' = IF threads[t].mutex = "in" THEN Nobody ELSE lock,
           UNCHANGED <<kept_vars, handle, models, bound_vars, result_vars>>,
           outcome = "missed" => Asked(t) \cap threads[t].known \subseteq threads[t].interrupted,
           outcome = "raised" => Asked(t) \cap threads[t].interrupted # {} \/ spoilt
    PROVE  StoreInv'
<1> USE DEF StoreInv, TypeOK
<1>0. pc \in Pcs
  BY DEF Pcs
<1>1. /\ threads' \in [Threads -> ThreadStates]
      /\ \A u \in Threads \ {t} : threads'[u] = threads[u] /\ Same(u, {})
      /\ threads'[t].pc = pc /\ threads'[t].mutex = "out"
      /\ threads'[t].outcome = outcome /\ threads'[t].kind = "unset"
      /\ threads'[t].task = threads[t].task /\ threads'[t].document = threads[t].document
      /\ threads'[t].name = threads[t].name /\ threads'[t].known = threads[t].known
      /\ threads'[t].interrupted = threads[t].interrupted
  BY <1>0, RetrievedFacts
<1>2. threads[t].pc # "write"
  BY DEF TasksOK, TaskOK
<1>3. Moves(t, {})
  BY <1>1, NobodyAssumption DEF Moves, TasksOK, TaskOK, OneEmbeddingModel, Uploading
<1>4. \A pcs \in Phases : Own(t, pcs)' = Own(t, pcs)
  BY <1>1 DEF Own, Uploading
<1>5. RetrievalOK(t)'
  BY <1>1 DEF RetrievalOK, Retrieving, Explained, Asked
<1>6. ~InCollection(t)'
  BY <1>1 DEF InCollection
<1>7. Quiet(t)
  BY <1>1, <1>2, <1>3, <1>4, <1>5, <1>6 DEF Quiet
<1> QED  BY <1>7, QuietInv

LEMMA QueryCollectionInv ==
    ASSUME StoreInv, NEW t \in Threads, QueryCollection(t)
    PROVE  StoreInv'
<1> USE DEF QueryCollection, Find, ThreadOnly, ServiceKept
<1>1. threads[t].task = "retrieve" /\ installed
  BY DEF StoreInv, TasksOK, TaskOK, HandlesOK, InCollection
<1>2. Asked(t) \cap threads[t].known \subseteq
        (uploaded \ collection.documents) \cup (collection.documents \cap Asked(t))
  BY <1>1 DEF StoreInv, RetrievalsOK, RetrievalOK, Retrieving, Marked
<1>3. uploaded \ collection.documents \subseteq threads[t].interrupted
  <2>1. dropped \cup UploadsAt(Vectorless) \subseteq OutOfReach
    BY DEF OutOfReach, UploadsAt
  <2>2. OutOfReach \subseteq threads[t].interrupted
    BY <1>1 DEF StoreInv, RetrievalsOK, RetrievalOK, Retrieving, Marked
  <2> QED  BY <1>1, <2>1, <2>2 DEF StoreInv, VectorsOK
<1>4. CASE collection.documents \cap Asked(t) # {}
  BY <1>1, <1>4, RetrievedInv DEF Outcomes
<1>5. CASE collection.documents \cap Asked(t) = {}
  BY <1>1, <1>2, <1>3, <1>5, RetrievedInv DEF Outcomes
<1> QED  BY <1>4, <1>5

LEMMA QueryRaisesInv == ASSUME StoreInv, NEW t \in Threads, QueryRaises(t) PROVE StoreInv'
<1> USE DEF QueryRaises, RetrievalRaises, ThreadOnly, ServiceKept
<1>1. threads[t].task = "retrieve"
  BY DEF StoreInv, TasksOK, TaskOK
<1>2. spoilt \/ (Documents # {} /\ Documents \subseteq threads[t].interrupted)
  BY DEF StoreInv, RetrievalsOK, RetrievalOK, QueryOK
<1>3. Asked(t) \cap threads[t].interrupted # {} \/ spoilt
  <2>1. Document(t) \in Documents \cup {NoDocument}
    BY DEF StoreInv, TypeOK, ThreadStates
  <2> QED  BY <1>2, <2>1 DEF Asked
<1> QED  BY <1>1, <1>3, RetrievedInv DEF Outcomes

LEMMA DecodingRaisesInv ==
    ASSUME StoreInv, NEW t \in Threads, DecodingRaises(t)
    PROVE  StoreInv'
<1> USE DEF DecodingRaises, RetrievalRaises, ThreadOnly, ServiceKept
<1>1. threads[t].task = "retrieve"
  BY DEF StoreInv, TasksOK, TaskOK
<1>2. PICK d \in threads[t].unread : disk[d].chunks = "torn"
  OBVIOUS
<1>3. d \in Asked(t) /\ d \in Documents
  BY DEF StoreInv, TypeOK, ThreadStates, RetrievalsOK, RetrievalOK, ReadOK
<1>4. d \in OutOfReach
  BY <1>2, <1>3 DEF StoreInv, ChunksOK, OutOfReach, UploadsAt
<1>5. OutOfReach \subseteq threads[t].interrupted
  BY <1>1 DEF StoreInv, RetrievalsOK, RetrievalOK, Retrieving, Marked
<1> QED  BY <1>1, <1>3, <1>4, <1>5, RetrievedInv DEF Outcomes

LEMMA RetrieveLocallyInv ==
    ASSUME StoreInv, NEW t \in Threads, RetrieveLocally(t)
    PROVE  StoreInv'
<1> USE DEF RetrieveLocally, Find, ThreadOnly, ServiceKept
<1>1. threads[t].task = "retrieve"
  BY DEF StoreInv, TasksOK, TaskOK
<1>2. threads[t].found \/ Asked(t) \cap threads[t].known \subseteq threads[t].interrupted
  BY DEF StoreInv, RetrievalsOK, RetrievalOK, ReadOK
<1>3. CASE threads[t].found
  BY <1>1, <1>3, RetrievedInv DEF Outcomes
<1>4. CASE ~threads[t].found
  BY <1>1, <1>2, <1>4, RetrievedInv DEF Outcomes
<1> QED  BY <1>3, <1>4

LEMMA RetrievalFailsInv ==
    ASSUME StoreInv, NEW t \in Threads, RetrievalFails(t)
    PROVE  StoreInv'
BY RetrievedInv DEF RetrievalFails, Outcomes

LEMMA ExtractTextInv == ASSUME StoreInv, NEW t \in Threads, ExtractText(t) PROVE StoreInv'
<1> USE DEF StoreInv, TypeOK, Kinds, ExtractText, Goto, ThreadOnly, ServiceKept
<1>1. threads' \in [Threads -> ThreadStates]
  <2>1. "truncate_chunks" \in Pcs
    BY DEF Pcs
  <2> QED  BY <2>1, GotoFacts
<1>2. Moves(t, {})
  BY <1>1, NobodyAssumption DEF Moves, Same, TasksOK, TaskOK, OneEmbeddingModel, Uploading,
     ThreadStates
<1>3. \A pcs \in Phases : Own(t, pcs)' = Own(t, pcs)
  <2>1. \A pcs \in Phases : "extract" \in pcs <=> "truncate_chunks" \in pcs
    BY DEF Phases, Pcs
  <2>2. /\ threads[t].pc = "extract" /\ threads'[t].pc = "truncate_chunks"
        /\ Document(t)' = Document(t) /\ threads'[t].task = threads[t].task
    OBVIOUS
  <2> QED  BY ONLY <2>1, <2>2 DEF Own, Uploading
<1>4. OutOfReach' = OutOfReach => RetrievalOK(t)'
  BY DEF RetrievalsOK, RetrievalOK, Retrieving, Marked, QueryOK, ReadOK, Explained, Asked,
     Usable, TasksOK, TaskOK, ThreadStates
<1>5. Quiet(t)
  BY <1>2, <1>3, <1>4 DEF Quiet, HandlesOK, InCollection, TasksOK, TaskOK
<1> QED  BY <1>5, QuietInv

LEMMA WantLockInv == ASSUME StoreInv, NEW t \in Threads, WantLock(t) PROVE StoreInv'
<1> USE DEF StoreInv, TypeOK, Kinds, WantLock, ThreadOnly, ServiceKept
<1>1. threads' \in [Threads -> ThreadStates]
  BY BoundsAssumption DEF ThreadStates, Pcs
<1>2. Moves(t, {})
  BY <1>1, NobodyAssumption DEF Moves, Same, TasksOK, TaskOK, OneEmbeddingModel, Uploading,
     ThreadStates
<1>3. \A pcs \in Phases : Own(t, pcs)' = Own(t, pcs)
  BY DEF Phases, Own, Uploading, TasksOK, TaskOK, ThreadStates, Pcs
<1>4. OutOfReach' = OutOfReach => RetrievalOK(t)'
  BY DEF RetrievalsOK, RetrievalOK, Retrieving, Marked, QueryOK, ReadOK, Explained, Asked,
     Usable, TasksOK, TaskOK, ThreadStates
<1>5. Quiet(t)
  BY <1>2, <1>3, <1>4 DEF Quiet, HandlesOK, InCollection, TasksOK, TaskOK
<1> QED  BY <1>5, QuietInv

LEMMA TakeLockInv == ASSUME StoreInv, NEW t \in Threads, TakeLock(t) PROVE StoreInv'
<1> USE DEF StoreInv, TypeOK, Kinds, TakeLock
<1>1. threads' \in [Threads -> ThreadStates]
  BY BoundsAssumption DEF ThreadStates, Pcs
<1>2. Moves(t, {})
  BY <1>1, NobodyAssumption DEF Moves, Same, TasksOK, TaskOK, OneEmbeddingModel, Uploading,
     ThreadStates
<1>3. \A pcs \in Phases : Own(t, pcs)' = Own(t, pcs)
  BY DEF Phases, Own, Uploading, TasksOK, TaskOK, ThreadStates, Pcs
<1>4. OutOfReach' = OutOfReach => RetrievalOK(t)'
  BY DEF RetrievalsOK, RetrievalOK, Retrieving, Marked, QueryOK, ReadOK, Explained, Asked,
     Usable, TasksOK, TaskOK, ThreadStates
<1>5. Quiet(t)
  BY <1>2, <1>3, <1>4 DEF Quiet, HandlesOK, InCollection, TasksOK, TaskOK
<1> QED  BY <1>5, QuietInv

LEMMA MadeMeanwhileInv == ASSUME StoreInv, NEW t \in Threads, MadeMeanwhile(t) PROVE StoreInv'
<1> USE DEF StoreInv, TypeOK, Kinds, MadeMeanwhile, Release
<1>1. threads' \in [Threads -> ThreadStates]
  <2>1. threads[t] \in ThreadStates /\ threads[t].pc \in Pcs
    BY BoundsAssumption DEF ThreadStates, Pcs
  <2>2. [threads[t] EXCEPT !.mutex = "out"] \in ThreadStates
    BY ONLY <2>1, ThreadTypes
  <2> QED  BY <2>2
<1>2. Moves(t, {})
  BY <1>1, NobodyAssumption DEF Moves, Same, TasksOK, TaskOK, OneEmbeddingModel, Uploading,
     ThreadStates
<1>3. \A pcs \in Phases : Own(t, pcs)' = Own(t, pcs)
  BY DEF Phases, Own, Uploading, TasksOK, TaskOK, ThreadStates, Pcs
<1>4. OutOfReach' = OutOfReach => RetrievalOK(t)'
  BY DEF RetrievalsOK, RetrievalOK, Retrieving, Marked, QueryOK, ReadOK, Explained, Asked,
     Usable, TasksOK, TaskOK, ThreadStates
<1>5. Quiet(t)
  BY <1>2, <1>3, <1>4 DEF Quiet, HandlesOK, InCollection, TasksOK, TaskOK
<1> QED  BY <1>5, QuietInv

LEMMA LoadModelInv == ASSUME StoreInv, NEW t \in Threads, LoadModel(t) PROVE StoreInv'
<1> USE DEF StoreInv, TypeOK, Kinds, LoadModel, Release, Missing, KindsOf
<1>1. threads' \in [Threads -> ThreadStates]
  BY BoundsAssumption DEF ThreadStates, Pcs
<1>2. Moves(t, {})
  BY <1>1, NobodyAssumption DEF Moves, Same, TasksOK, TaskOK, OneEmbeddingModel, Uploading,
     ThreadStates
<1>3. \A pcs \in Phases : Own(t, pcs)' = Own(t, pcs)
  BY DEF Phases, Own, Uploading, TasksOK, TaskOK, ThreadStates, Pcs
<1>4. OutOfReach' = OutOfReach => RetrievalOK(t)'
  BY DEF RetrievalsOK, RetrievalOK, Retrieving, Marked, QueryOK, ReadOK, Explained, Asked,
     Usable, TasksOK, TaskOK, ThreadStates
<1>5. Quiet(t)
  BY <1>2, <1>3, <1>4 DEF Quiet, HandlesOK, InCollection, TasksOK, TaskOK
<1> QED  BY <1>5, QuietInv

LEMMA HaveCollectionInv == ASSUME StoreInv, NEW t \in Threads, HaveCollection(t) PROVE StoreInv'
<1> USE DEF StoreInv, TypeOK, Kinds, HaveCollection, Missing, ThreadOnly, ServiceKept
<1>1. threads' \in [Threads -> ThreadStates]
  BY BoundsAssumption DEF ThreadStates, Pcs
<1>2. Moves(t, {})
  BY <1>1, NobodyAssumption DEF Moves, Same, TasksOK, TaskOK, OneEmbeddingModel, Uploading,
     ThreadStates
<1>3. \A pcs \in Phases : Own(t, pcs)' = Own(t, pcs)
  BY DEF Phases, Own, Uploading, TasksOK, TaskOK, ThreadStates, Pcs
<1>4. OutOfReach' = OutOfReach => RetrievalOK(t)'
  BY DEF RetrievalsOK, RetrievalOK, Retrieving, Marked, QueryOK, ReadOK, Explained, Asked,
     Usable, TasksOK, TaskOK, ThreadStates
<1>5. Quiet(t)
  BY <1>2, <1>3, <1>4 DEF Quiet, HandlesOK, InCollection, TasksOK, TaskOK
<1> QED  BY <1>5, QuietInv

LEMMA EmbedInv == ASSUME StoreInv, NEW t \in Threads, Embed(t) PROVE StoreInv'
<1> USE DEF StoreInv, TypeOK, Kinds, Embed, Missing, ThreadOnly, ServiceKept
<1>1. threads' \in [Threads -> ThreadStates]
  BY BoundsAssumption DEF ThreadStates, Pcs
<1>2. Moves(t, {})
  BY <1>1, NobodyAssumption DEF Moves, Same, TasksOK, TaskOK, OneEmbeddingModel, Uploading,
     ThreadStates
<1>3. \A pcs \in Phases : Own(t, pcs)' = Own(t, pcs)
  BY DEF Phases, Own, Uploading, TasksOK, TaskOK, ThreadStates, Pcs
<1>4. OutOfReach' = OutOfReach => RetrievalOK(t)'
  BY DEF RetrievalsOK, RetrievalOK, Retrieving, Marked, QueryOK, ReadOK, Explained, Asked,
     Usable, TasksOK, TaskOK, ThreadStates
<1>5. Quiet(t)
  BY <1>2, <1>3, <1>4 DEF Quiet, HandlesOK, InCollection, TasksOK, TaskOK
<1> QED  BY <1>5, QuietInv

LEMMA UpsertMismatchesInv == ASSUME StoreInv, NEW t \in Threads, UpsertMismatches(t) PROVE StoreInv'
<1> USE DEF StoreInv, TypeOK, Kinds, UpsertMismatches, Goto, ThreadOnly, ServiceKept
<1>1. threads' \in [Threads -> ThreadStates]
  <2>1. "delete_collection" \in Pcs
    BY DEF Pcs
  <2> QED  BY <2>1, GotoFacts
<1>2. Moves(t, {})
  BY <1>1, NobodyAssumption DEF Moves, Same, TasksOK, TaskOK, OneEmbeddingModel, Uploading,
     ThreadStates
<1>3. \A pcs \in Phases : Own(t, pcs)' = Own(t, pcs)
  BY DEF Phases, Own, Uploading, TasksOK, TaskOK, ThreadStates, Pcs
<1>4. OutOfReach' = OutOfReach => RetrievalOK(t)'
  BY DEF RetrievalsOK, RetrievalOK, Retrieving, Marked, QueryOK, ReadOK, Explained, Asked,
     Usable, TasksOK, TaskOK, ThreadStates
<1>5. Quiet(t)
  BY <1>2, <1>3, <1>4 DEF Quiet, HandlesOK, InCollection, TasksOK, TaskOK
<1> QED  BY <1>5, QuietInv

LEMMA RereadCollectionInv == ASSUME StoreInv, NEW t \in Threads, RereadCollection(t) PROVE StoreInv'
<1> USE DEF StoreInv, TypeOK, Kinds, RereadCollection, ThreadOnly, ServiceKept
<1>1. threads' \in [Threads -> ThreadStates]
  BY BoundsAssumption DEF ThreadStates, Pcs
<1>2. Moves(t, {})
  BY <1>1, NobodyAssumption DEF Moves, Same, TasksOK, TaskOK, OneEmbeddingModel, Uploading,
     ThreadStates
<1>3. \A pcs \in Phases : Own(t, pcs)' = Own(t, pcs)
  BY DEF Phases, Own, Uploading, TasksOK, TaskOK, ThreadStates, Pcs
<1>4. OutOfReach' = OutOfReach => RetrievalOK(t)'
  BY DEF RetrievalsOK, RetrievalOK, Retrieving, Marked, QueryOK, ReadOK, Explained, Asked,
     Usable, TasksOK, TaskOK, ThreadStates
<1>5. Quiet(t)
  BY <1>2, <1>3, <1>4 DEF Quiet, HandlesOK, InCollection, TasksOK, TaskOK
<1> QED  BY <1>5, QuietInv

LEMMA RetrieveInv == ASSUME StoreInv, NEW t \in Threads, Retrieve(t) PROVE StoreInv'
<1> USE DEF StoreInv, TypeOK, Kinds, Retrieve, ThreadOnly, ServiceKept
<1>1. threads' \in [Threads -> ThreadStates]
  BY BoundsAssumption DEF ThreadStates, Pcs
<1>2. Moves(t, {})
  BY <1>1, NobodyAssumption DEF Moves, Same, TasksOK, TaskOK, OneEmbeddingModel, Uploading,
     ThreadStates
<1>3. \A pcs \in Phases : Own(t, pcs)' = Own(t, pcs)
  BY DEF Phases, Own, Uploading, TasksOK, TaskOK, ThreadStates, Pcs
<1>4. OutOfReach' = OutOfReach => RetrievalOK(t)'
  BY DEF RetrievalsOK, RetrievalOK, Retrieving, Marked, QueryOK, ReadOK, Explained, Asked,
     Usable, TasksOK, TaskOK, ThreadStates
<1>5. Quiet(t)
  BY <1>2, <1>3, <1>4 DEF Quiet, HandlesOK, InCollection, TasksOK, TaskOK
<1> QED  BY <1>5, QuietInv

LEMMA QueryMismatchesInv == ASSUME StoreInv, NEW t \in Threads, QueryMismatches(t) PROVE StoreInv'
<1> USE DEF StoreInv, TypeOK, Kinds, QueryMismatches, Goto, ThreadOnly, ServiceKept
<1>1. threads' \in [Threads -> ThreadStates]
  <2>1. "local" \in Pcs
    BY DEF Pcs
  <2> QED  BY <2>1, GotoFacts
<1>2. Moves(t, {})
  BY <1>1, NobodyAssumption DEF Moves, Same, TasksOK, TaskOK, OneEmbeddingModel, Uploading,
     ThreadStates
<1>3. \A pcs \in Phases : Own(t, pcs)' = Own(t, pcs)
  BY DEF Phases, Own, Uploading, TasksOK, TaskOK, ThreadStates, Pcs
<1>4. OutOfReach' = OutOfReach => RetrievalOK(t)'
  BY DEF RetrievalsOK, RetrievalOK, Retrieving, Marked, QueryOK, ReadOK, Explained, Asked,
     Usable, TasksOK, TaskOK, ThreadStates
<1>5. Quiet(t)
  BY <1>2, <1>3, <1>4 DEF Quiet, HandlesOK, InCollection, TasksOK, TaskOK
<1> QED  BY <1>5, QuietInv

LEMMA ReadFailsInv == ASSUME StoreInv, NEW t \in Threads, ReadFails(t) PROVE StoreInv'
<1> USE DEF StoreInv, TypeOK, Kinds, ReadFails, ThreadOnly, ServiceKept
<1>1. threads' \in [Threads -> ThreadStates]
  <2>1. PICK d \in threads[t].unread :
          threads' = [threads EXCEPT ![t] =
                        [threads[t] EXCEPT !.unread = threads[t].unread \ {d},
                                           !.interrupted = threads[t].interrupted \cup {d}]]
    OBVIOUS
  <2>2. /\ threads[t] \in ThreadStates /\ threads[t].pc \in Pcs
        /\ threads[t].unread \ {d} \in SUBSET Documents
        /\ threads[t].interrupted \cup {d} \in SUBSET Documents
    BY DEF ThreadStates
  <2>3. [threads[t] EXCEPT !.unread = threads[t].unread \ {d},
                           !.interrupted = threads[t].interrupted \cup {d}] \in ThreadStates
    BY ONLY <2>2, ThreadTypes
  <2> QED  BY <2>1, <2>3
<1>2. Moves(t, {})
  BY <1>1, NobodyAssumption DEF Moves, Same, TasksOK, TaskOK, OneEmbeddingModel, Uploading,
     ThreadStates
<1>3. \A pcs \in Phases : Own(t, pcs)' = Own(t, pcs)
  BY DEF Phases, Own, Uploading, TasksOK, TaskOK, ThreadStates, Pcs
<1>4. OutOfReach' = OutOfReach => RetrievalOK(t)'
  BY DEF RetrievalsOK, RetrievalOK, Retrieving, Marked, QueryOK, ReadOK, Explained, Asked,
     Usable, TasksOK, TaskOK, ThreadStates
<1>5. Quiet(t)
  BY <1>2, <1>3, <1>4 DEF Quiet, HandlesOK, InCollection, TasksOK, TaskOK
<1> QED  BY <1>5, QuietInv

LEMMA RerankInv == ASSUME StoreInv, NEW t \in Threads, Rerank(t) PROVE StoreInv'
<1> USE DEF StoreInv, TypeOK, Kinds, Rerank, Goto, ThreadOnly, ServiceKept
<1>1. threads' \in [Threads -> ThreadStates]
  <2>1. "ready" \in Pcs
    BY DEF Pcs
  <2> QED  BY <2>1, GotoFacts
<1>2. Moves(t, {})
  BY <1>1, NobodyAssumption DEF Moves, Same, TasksOK, TaskOK, OneEmbeddingModel, Uploading,
     ThreadStates
<1>3. \A pcs \in Phases : Own(t, pcs)' = Own(t, pcs)
  BY DEF Phases, Own, Uploading, TasksOK, TaskOK, ThreadStates, Pcs
<1>4. OutOfReach' = OutOfReach => RetrievalOK(t)'
  BY DEF RetrievalsOK, RetrievalOK, Retrieving, Marked, QueryOK, ReadOK, Explained, Asked,
     Usable, TasksOK, TaskOK, ThreadStates
<1>5. Quiet(t)
  BY <1>2, <1>3, <1>4 DEF Quiet, HandlesOK, InCollection, TasksOK, TaskOK
<1> QED  BY <1>5, QuietInv

LEMMA EndRequestInv == ASSUME StoreInv, NEW t \in Threads, EndRequest(t) PROVE StoreInv'
<1> USE DEF StoreInv, TypeOK, Kinds, EndRequest, ThreadOnly, ServiceKept, Idle
<1>1. threads' \in [Threads -> ThreadStates]
  BY BoundsAssumption DEF ThreadStates, Pcs
<1>2. Moves(t, {})
  BY <1>1, NobodyAssumption DEF Moves, Same, TasksOK, TaskOK, OneEmbeddingModel, Uploading,
     ThreadStates
<1>3. \A pcs \in Phases : Own(t, pcs)' = Own(t, pcs)
  BY DEF Phases, Own, Uploading, TasksOK, TaskOK, ThreadStates, Pcs
<1>4. OutOfReach' = OutOfReach => RetrievalOK(t)'
  BY DEF RetrievalsOK, RetrievalOK, Retrieving, Marked, QueryOK, ReadOK, Explained, Asked,
     Usable, TasksOK, TaskOK, ThreadStates
<1>5. Quiet(t)
  BY <1>2, <1>3, <1>4 DEF Quiet, HandlesOK, InCollection, TasksOK, TaskOK
<1> QED  BY <1>5, QuietInv

LEMMA ListDirectoriesInv ==
    ASSUME StoreInv, NEW t \in Threads, ListDirectories(t)
    PROVE  StoreInv'
<1> USE DEF StoreInv, TypeOK, Kinds, ListDirectories, ThreadOnly, ServiceKept
<1> DEFINE unread == {d \in Asked(t) : disk[d].made}
           thread == [threads[t] EXCEPT !.pc = "read", !.queries = threads[t].queries + 1,
                                        !.unread = unread]
<1>1. threads' = [threads EXCEPT ![t] = thread] /\ threads[t] \in ThreadStates
  OBVIOUS
<1>2. thread \in ThreadStates
  <2>1. "read" \in Pcs
    BY DEF Pcs
  <2>2. threads[t].queries + 1 \in 0 .. MAX_QUERIES
    <3>1. threads[t].queries \in 0 .. MAX_QUERIES
      BY <1>1 DEF ThreadStates
    <3> QED  BY <3>1, BoundsAssumption
  <2>3. unread \in SUBSET Documents
    BY <1>1 DEF Asked, ThreadStates
  <2> QED  BY ONLY <1>1, <2>1, <2>2, <2>3, ThreadTypes
<1>3. /\ thread.pc = "read" /\ thread.mutex = threads[t].mutex /\ thread.unread = unread
      /\ thread.task = threads[t].task /\ thread.document = threads[t].document
      /\ thread.known = threads[t].known /\ thread.found = threads[t].found
      /\ thread.kind = threads[t].kind /\ thread.outcome = threads[t].outcome
      /\ thread.interrupted = threads[t].interrupted
  BY <1>1 DEF ThreadStates
<1>4. threads[t].task = "retrieve" /\ threads[t].pc \in {"local", "read"}
      /\ threads[t].mutex = "out"
  BY DEF TasksOK, TaskOK
<1>5. /\ threads' \in [Threads -> ThreadStates] /\ threads'[t] = thread
      /\ \A u \in Threads \ {t} : Same(u, {}) /\ threads'[u] = threads[u]
  <2> HIDE DEF thread
  <2> QED  BY <1>1, <1>2, OwnStep
<1> HIDE DEF thread, unread
<1>6. Moves(t, {})
  BY <1>3, <1>4, <1>5 DEF Moves, TaskOK, OneEmbeddingModel, Uploading
<1>7. \A pcs \in Phases : Own(t, pcs)' = Own(t, pcs)
  BY <1>3, <1>4, <1>5 DEF Own, Uploading
<1>8. OutOfReach' = OutOfReach => RetrievalOK(t)'
  <2>1. Marked(t) /\ Explained(t)
    BY <1>4 DEF RetrievalsOK, RetrievalOK, Retrieving
  <2>2. threads[t].known \cap Asked(t) \subseteq unread
    BY <2>1 DEF Marked, ChunksOK, unread
  <2>3. unread \subseteq Asked(t) /\ Asked(t)' = Asked(t)
    BY <1>3, <1>5 DEF unread, Asked
  <2> QED  BY <1>3, <1>4, <1>5, <2>1, <2>2, <2>3
              DEF RetrievalOK, Retrieving, Marked, ReadOK, Explained
<1>9. Quiet(t)
  BY <1>3, <1>4, <1>5, <1>6, <1>7, <1>8 DEF Quiet, InCollection
<1> QED  BY <1>9, QuietInv

LEMMA ReadChunksInv == ASSUME StoreInv, NEW t \in Threads, ReadChunks(t) PROVE StoreInv'
<1> USE DEF StoreInv, TypeOK, Kinds, ReadChunks, ThreadOnly, ServiceKept
<1>1. PICK d \in threads[t].unread :
        threads' = [threads EXCEPT ![t] =
          [threads[t] EXCEPT !.unread = threads[t].unread \ {d},
                             !.found = threads[t].found \/ disk[d].chunks = "whole"]]
  OBVIOUS
<1> DEFINE unread == threads[t].unread \ {d}
           found == threads[t].found \/ disk[d].chunks = "whole"
           thread == [threads[t] EXCEPT !.unread = unread, !.found = found]
<1>2. threads[t] \in ThreadStates /\ threads[t].pc \in Pcs /\ d \in Documents
  BY <1>1 DEF ThreadStates
<1>3. thread \in ThreadStates
  <2>1. unread \in SUBSET Documents /\ found \in BOOLEAN
    BY <1>2 DEF ThreadStates
  <2> HIDE DEF unread, found
  <2> QED  BY ONLY <1>2, <2>1, ThreadTypes
<1>4. /\ thread.pc = threads[t].pc /\ thread.mutex = threads[t].mutex
      /\ thread.unread = unread /\ thread.found = found
      /\ thread.task = threads[t].task /\ thread.document = threads[t].document
      /\ thread.known = threads[t].known
      /\ thread.kind = threads[t].kind /\ thread.outcome = threads[t].outcome
      /\ thread.interrupted = threads[t].interrupted
  BY <1>2 DEF ThreadStates
<1>5. /\ threads' \in [Threads -> ThreadStates] /\ threads'[t] = thread
      /\ \A u \in Threads \ {t} : Same(u, {}) /\ threads'[u] = threads[u]
  <2>1. threads' = [threads EXCEPT ![t] = thread]
    BY <1>1
  <2> HIDE DEF thread
  <2> QED  BY <1>3, <2>1, OwnStep
<1>6. threads[t].task = "retrieve" /\ threads[t].pc = "read" /\ threads[t].mutex = "out"
  BY DEF TasksOK, TaskOK
<1> HIDE DEF thread
<1>7. Moves(t, {})
  BY <1>4, <1>5, <1>6 DEF Moves, TaskOK, OneEmbeddingModel, Uploading
<1>8. \A pcs \in Phases : Own(t, pcs)' = Own(t, pcs)
  BY <1>4, <1>5, <1>6 DEF Own, Uploading
<1>9. OutOfReach' = OutOfReach => RetrievalOK(t)'
  <2>1. Marked(t) /\ Explained(t) /\ ReadOK(t)
    BY <1>6 DEF RetrievalsOK, RetrievalOK, Retrieving
  <2>2. d \in threads[t].known \ threads[t].interrupted => found
    <3> SUFFICES ASSUME d \in threads[t].known \ threads[t].interrupted
                 PROVE  disk[d].chunks = "whole"
      OBVIOUS
    <3>1. d \in uploaded \ OutOfReach
      BY <2>1 DEF Marked
    <3>2. d \notin cutoff \cup UploadsAt({"write_chunks"})
      BY <3>1 DEF OutOfReach, UploadsAt
    <3> QED  BY <1>2, <3>1, <3>2 DEF ChunksOK
  <2>3. Asked(t)' = Asked(t)
    BY <1>4, <1>5 DEF Asked
  <2>4. ReadOK(t)'
    BY <1>4, <1>5, <2>1, <2>2, <2>3 DEF ReadOK
  <2> QED  BY <1>4, <1>5, <1>6, <2>1, <2>3, <2>4
              DEF RetrievalOK, Retrieving, Marked, Explained
<1>10. Quiet(t)
  BY <1>4, <1>5, <1>6, <1>7, <1>8, <1>9 DEF Quiet, InCollection
<1> QED  BY <1>10, QuietInv

----
(* The steps of an upload. *)

(* Thread t goes to pc, and documents are interrupted. *)
Advances(t, pc, documents) ==
    /\ threads' \in [Threads -> ThreadStates]
    /\ \A u \in Threads \ {t} : Same(u, documents)
    /\ threads'[t].pc = pc /\ threads'[t].mutex = threads[t].mutex
    /\ threads'[t].task = threads[t].task /\ threads'[t].document = threads[t].document
    /\ threads'[t].name = threads[t].name /\ threads'[t].kind = threads[t].kind
    /\ threads'[t].outcome = threads[t].outcome /\ threads'[t].known = threads[t].known
    /\ threads'[t].interrupted = threads[t].interrupted

LEMMA GotoAdvances ==
    ASSUME threads \in [Threads -> ThreadStates], NEW t \in Threads, NEW pc \in Pcs, Goto(t, pc)
    PROVE  Advances(t, pc, {}) /\ threads'[t].handle = threads[t].handle
<1>1. threads' \in [Threads -> ThreadStates]
  BY GotoFacts
<1> QED  BY <1>1 DEF Goto, Advances, Same, ThreadStates

LEMMA InterruptingAdvances ==
    ASSUME threads \in [Threads -> ThreadStates], NEW t \in Threads, NEW pc \in Pcs,
           NEW documents \in SUBSET Documents, GotoInterrupting(t, pc, documents)
    PROVE  Advances(t, pc, documents) /\ threads'[t].handle = threads[t].handle
<1> DEFINE own == [threads[t] EXCEPT !.pc = pc]
           other(u) == [threads[u] EXCEPT !.interrupted = threads[u].interrupted \cup documents]
<1>1. own \in ThreadStates
  BY DEF ThreadStates
<1>2. ASSUME NEW u \in Threads PROVE other(u) \in ThreadStates
  <2>1. threads[u].interrupted \cup documents \in SUBSET Documents
    BY DEF ThreadStates
  <2> QED  BY <2>1 DEF ThreadStates
<1>3. threads' = [u \in Threads |-> IF u = t THEN own
                                    ELSE IF Retrieving(u) THEN other(u) ELSE threads[u]]
  BY DEF GotoInterrupting
<1>4. threads' \in [Threads -> ThreadStates]
  <2> HIDE DEF own, other
  <2> QED  BY <1>1, <1>2, <1>3
<1>5. ASSUME NEW u \in Threads \ {t} PROVE Same(u, documents)
  <2>1. CASE Retrieving(u)
    <3>1. threads'[u] = other(u) /\ threads[u] \in ThreadStates
      BY <1>3, <2>1
    <3> QED  BY <3>1 DEF Same, ThreadStates
  <2>2. CASE ~Retrieving(u)
    BY <1>3, <2>2 DEF Same
  <2> QED  BY <2>1, <2>2
<1>6. threads'[t] = own /\ threads[t] \in ThreadStates
  BY <1>3
<1> QED  BY <1>4, <1>5, <1>6 DEF Advances, ThreadStates

LEMMA AdvanceFacts ==
    ASSUME StoreInv, NEW t \in Threads, Uploading(t), threads[t].mutex = "out",
           NEW pc \in Pcs \ (RetrievalPcs \cup {"idle"}), NEW documents,
           Advances(t, pc, documents), UNCHANGED <<models, lock, bound_vars, spoilt>>
    PROVE  /\ Moves(t, documents) /\ RetrievalOK(t)'
           /\ Uploading(t)' /\ Document(t)' = Document(t)
           /\ \A pcs : Own(t, pcs) = IF threads[t].pc \in pcs THEN {Document(t)} ELSE {}
           /\ \A pcs : Own(t, pcs)' = IF pc \in pcs THEN {Document(t)} ELSE {}
           /\ \A pcs : UploadsAt(pcs) = Elsewhere(t, pcs) \cup Own(t, pcs)
           /\ \A pcs : UploadsAt(pcs)' = Elsewhere(t, pcs) \cup Own(t, pcs)'
<1> USE DEF StoreInv, TypeOK, Advances
<1>1. Uploading(t)' /\ Document(t)' = Document(t)
  BY DEF Uploading
<1>2. Moves(t, documents)
  BY <1>1 DEF Moves, Same, TasksOK, TaskOK, OneEmbeddingModel, Uploading
<1>3. RetrievalOK(t)'
  <2>1. Explained(t)
    BY DEF RetrievalsOK, RetrievalOK
  <2>2. Asked(t)' = Asked(t) /\ spoilt' = spoilt
    BY DEF Asked
  <2>3. Explained(t)'
    BY <2>1, <2>2 DEF Explained
  <2>4. ~Retrieving(t)' /\ threads'[t].pc \notin {"query", "read"}
    BY DEF Retrieving, Uploading
  <2> QED  BY <2>3, <2>4 DEF RetrievalOK
<1> QED  BY <1>1, <1>2, <1>3, MoveFacts DEF Own

LEMMA ThreadDocuments == StoreInv => \A pcs : UploadsAt(pcs) \subseteq Documents
BY DEF StoreInv, TasksOK, TaskOK, UploadsAt

(* The steps that only the disk shows. *)
LEMMA DiskInv ==
    ASSUME StoreInv, NEW t \in Threads, Uploading(t), threads[t].mutex = "out",
           NEW pc \in {"unlink", "write", "extract", "write_chunks", "collection"},
           NEW documents \in SUBSET Documents,
           Advances(t, pc, documents), UNCHANGED <<models, lock, bound_vars>>,
           pc = "write_chunks" => Document(t) \in documents,
           threads[t].pc \notin Vectorless, KeepsFiles(t), ChunksOK',
           disk' \in [Documents -> [made : BOOLEAN, files : SUBSET Names, blank : SUBSET Names,
                                    chunks : {"none", "torn", "whole"}]],
           cutoff' \in {cutoff, cutoff \ {Document(t)}},
           UNCHANGED <<collection, handle, uploaded, failed, dropped, spoilt>>
    PROVE  StoreInv'
<1> USE DEF StoreInv
<1>0. pc \in Pcs \ (RetrievalPcs \cup {"idle"})
  BY DEF Pcs
<1>1. /\ Moves(t, documents) /\ RetrievalOK(t)'
      /\ \A pcs : Own(t, pcs) = IF threads[t].pc \in pcs THEN {Document(t)} ELSE {}
      /\ \A pcs : Own(t, pcs)' = IF pc \in pcs THEN {Document(t)} ELSE {}
  BY <1>0, AdvanceFacts
<1>2. TypeOK'
  BY <1>1 DEF TypeOK, Moves
<1>3. /\ \A pcs : UploadsAt(pcs) = Elsewhere(t, pcs) \cup Own(t, pcs)
      /\ \A pcs : UploadsAt(pcs)' = Elsewhere(t, pcs) \cup Own(t, pcs)'
  BY <1>1, MoveFacts
<1>4. UploadsAt(Vectorless)' = UploadsAt(Vectorless) /\ UploadsAt(Resetting)' = UploadsAt(Resetting)
  BY <1>1, <1>3
<1>5. HandlesOK'
  BY <1>1, <1>4 DEF HandlesOK, InCollection, Usable, Moves, Same, Advances, Uploading
<1>6. VectorsOK'
  BY <1>1, <1>4 DEF VectorsOK, Moves
<1>7. OutOfReach' \subseteq OutOfReach \cup documents
  <2>1. UploadsAt({"write_chunks"} \cup Vectorless)' \subseteq
          UploadsAt({"write_chunks"} \cup Vectorless) \cup documents
    BY <1>1, <1>3
  <2> HIDE DEF Vectorless, Resetting
  <2> QED  BY <1>4, <2>1 DEF OutOfReach
<1>8. RetrievalsOK'
  BY <1>1, <1>7, RetrievalsKept DEF Usable
<1> QED  BY <1>1, <1>2, <1>5, <1>6, <1>8, MoveFacts, FilesKept

LEMMA UnlinkStaleFileInv ==
    ASSUME StoreInv, NEW t \in Threads, UnlinkStaleFile(t)
    PROVE  StoreInv'
<1> USE DEF StoreInv, TypeOK, UnlinkStaleFile, DiskOnly, ServiceKept
<1>1. Uploading(t) /\ Document(t) \in Documents /\ threads[t].name \in Names
  BY DEF TasksOK, TaskOK, Uploading
<1>2. PICK name \in threads[t].stale :
        /\ disk' = [disk EXCEPT ![Document(t)].files = @ \ {name},
                                ![Document(t)].blank = @ \ {name}]
        /\ threads' = [threads EXCEPT ![t] =
                         [threads[t] EXCEPT !.stale = threads[t].stale \ {name}]]
  OBVIOUS
<1>3. Advances(t, "unlink", {})
  <2>1. threads[t] \in ThreadStates /\ threads[t].stale \ {name} \in SUBSET Names
        /\ threads[t].pc \in Pcs
    BY DEF ThreadStates
  <2> DEFINE thread == [threads[t] EXCEPT !.stale = threads[t].stale \ {name}]
  <2>2. thread \in ThreadStates
    BY ONLY <2>1, ThreadTypes
  <2>3. /\ threads' \in [Threads -> ThreadStates] /\ threads'[t] = thread
        /\ \A u \in Threads \ {t} : Same(u, {})
    <3>1. threads' = [threads EXCEPT ![t] = thread]
      BY <1>2
    <3> HIDE DEF thread
    <3> QED  BY <2>2, <3>1, OwnStep
  <2> QED  BY <2>1, <2>3 DEF Advances, ThreadStates
<1>4. disk' \in [Documents -> [made : BOOLEAN, files : SUBSET Names, blank : SUBSET Names,
                               chunks : {"none", "torn", "whole"}]]
  BY <1>1, <1>2
<1>5. \A pcs : UploadsAt(pcs)' = UploadsAt(pcs)
  <2>0. /\ "unlink" \in Pcs \ (RetrievalPcs \cup {"idle"}) /\ threads[t].mutex = "out"
        /\ UNCHANGED <<models, lock, bound_vars, spoilt>>
    BY DEF Pcs
  <2>1. /\ \A pcs : UploadsAt(pcs) = Elsewhere(t, pcs) \cup Own(t, pcs)
        /\ \A pcs : UploadsAt(pcs)' = Elsewhere(t, pcs) \cup Own(t, pcs)'
        /\ \A pcs : Own(t, pcs) = IF threads[t].pc \in pcs THEN {Document(t)} ELSE {}
        /\ \A pcs : Own(t, pcs)' = IF "unlink" \in pcs THEN {Document(t)} ELSE {}
    <3> HIDE DEF StoreInv, TypeOK
    <3> QED  BY ONLY <1>1, <1>3, <2>0, StoreInv, t \in Threads, AdvanceFacts
  <2>2. threads[t].pc = "unlink"
    OBVIOUS
  <2>3. \A pcs : Own(t, pcs)' = Own(t, pcs)
    BY ONLY <2>1, <2>2
  <2> QED  BY ONLY <2>1, <2>3
<1>6. ChunksOK'
  <2>1. \A d \in Documents : disk'[d].chunks = disk[d].chunks /\ disk'[d].made = disk[d].made
    BY <1>1, <1>2
  <2> QED  BY ONLY <1>5, <2>1, ChunksOK, uploaded \subseteq Documents, ThreadDocuments,
                   UNCHANGED <<uploaded, failed, cutoff>>, StoreInv DEF ChunksOK
<1>7. KeepsFiles(t)
  <2>1. /\ \A d \in Documents \ {Document(t)} : disk'[d] = disk[d]
        /\ disk'[Document(t)].blank \subseteq disk[Document(t)].blank
    BY <1>1, <1>2
  <2>2. Uploading(t)' /\ Document(t)' = Document(t) /\ threads'[t].pc = "unlink"
    BY <1>1, <1>3, AdvanceFacts DEF Pcs, Advances
  <2>3. UNCHANGED <<uploaded, failed>> /\ threads[t].pc = "unlink"
    OBVIOUS
  <2>4. \A file \in disk'[Document(t)].blank :
          file \in disk[Document(t)].blank /\ threads[t].pc # "write"
    BY ONLY <2>1, <2>3
  <2> QED  BY ONLY <1>1, <2>1, <2>2, <2>3, <2>4 DEF KeepsFiles
<1>8. /\ threads[t].mutex = "out" /\ threads[t].pc \notin Vectorless
      /\ cutoff' \in {cutoff, cutoff \ {Document(t)}}
      /\ UNCHANGED <<models, lock, bound_vars, collection, handle, uploaded, failed, dropped,
                     spoilt>>
  OBVIOUS
<1> HIDE DEF StoreInv, TypeOK
<1> QED  BY ONLY <1>1, <1>3, <1>4, <1>6, <1>7, <1>8, StoreInv, t \in Threads, DiskInv

LEMMA TruncateFileInv ==
    ASSUME StoreInv, NEW t \in Threads, TruncateFile(t)
    PROVE  StoreInv'
<1> USE DEF StoreInv, TypeOK, TruncateFile, DiskOnly, ServiceKept
<1>1. Uploading(t) /\ Document(t) \in Documents /\ threads[t].name \in Names
  BY DEF TasksOK, TaskOK, Uploading
<1>2. Advances(t, "write", {})
  BY GotoAdvances DEF Pcs
<1>3. disk' \in [Documents -> [made : BOOLEAN, files : SUBSET Names, blank : SUBSET Names,
                               chunks : {"none", "torn", "whole"}]]
  BY <1>1
<1>4. ChunksOK'
  <2>0. /\ "write" \in Pcs \ (RetrievalPcs \cup {"idle"}) /\ threads[t].mutex = "out"
        /\ UNCHANGED <<models, lock, bound_vars, spoilt>>
    BY DEF Pcs
  <2>1. /\ \A pcs : UploadsAt(pcs) = Elsewhere(t, pcs) \cup Own(t, pcs)
        /\ \A pcs : UploadsAt(pcs)' = Elsewhere(t, pcs) \cup Own(t, pcs)'
        /\ \A pcs : Own(t, pcs) = IF threads[t].pc \in pcs THEN {Document(t)} ELSE {}
        /\ \A pcs : Own(t, pcs)' = IF "write" \in pcs THEN {Document(t)} ELSE {}
    <3> HIDE DEF StoreInv, TypeOK
    <3> QED  BY ONLY <1>1, <1>2, <2>0, StoreInv, t \in Threads, AdvanceFacts
  <2>2. \A pcs \in {{"write_chunks"}, Written, Pcs} : UploadsAt(pcs)' = UploadsAt(pcs)
    BY <2>1 DEF Pcs
  <2>3. \A d \in Documents : disk'[d].chunks = disk[d].chunks /\ disk'[d].made = disk[d].made
    BY <1>1
  <2> QED  BY ONLY <2>2, <2>3, ChunksOK, uploaded \subseteq Documents,
                   UNCHANGED <<uploaded, failed, cutoff>>,
                   ThreadDocuments, StoreInv DEF ChunksOK
<1>5. KeepsFiles(t)
  <2>1. /\ disk'[Document(t)].files = disk[Document(t)].files \cup {threads[t].name}
        /\ disk'[Document(t)].blank = disk[Document(t)].blank \cup {threads[t].name}
        /\ \A d \in Documents \ {Document(t)} : disk'[d] = disk[d]
    BY <1>1
  <2>2. Uploading(t)' /\ Document(t)' = Document(t)
    BY <1>1, <1>2, AdvanceFacts DEF Pcs
  <2>3. UNCHANGED <<uploaded, failed>>
    OBVIOUS
  <2> QED  BY <1>1, <1>2, <2>1, <2>2, <2>3 DEF KeepsFiles, Advances
<1>6. /\ threads[t].mutex = "out" /\ threads[t].pc \notin Vectorless
      /\ cutoff' \in {cutoff, cutoff \ {Document(t)}}
      /\ UNCHANGED <<models, lock, bound_vars, collection, handle, uploaded, failed, dropped,
                     spoilt>>
  OBVIOUS
<1> HIDE DEF StoreInv, TypeOK
<1> QED  BY ONLY <1>1, <1>2, <1>3, <1>4, <1>5, <1>6, StoreInv, t \in Threads, DiskInv

LEMMA WriteFileInv == ASSUME StoreInv, NEW t \in Threads, WriteFile(t) PROVE StoreInv'
<1> USE DEF StoreInv, TypeOK, WriteFile, DiskOnly, ServiceKept
<1>1. Uploading(t) /\ Document(t) \in Documents /\ threads[t].name \in Names
  BY DEF TasksOK, TaskOK, Uploading
<1>2. Advances(t, "extract", {})
  BY GotoAdvances DEF Pcs
<1>3. disk' \in [Documents -> [made : BOOLEAN, files : SUBSET Names, blank : SUBSET Names,
                               chunks : {"none", "torn", "whole"}]]
  BY <1>1
<1>4. ChunksOK'
  <2>0. /\ "extract" \in Pcs \ (RetrievalPcs \cup {"idle"}) /\ threads[t].mutex = "out"
        /\ UNCHANGED <<models, lock, bound_vars, spoilt>>
    BY DEF Pcs
  <2>1. /\ \A pcs : UploadsAt(pcs) = Elsewhere(t, pcs) \cup Own(t, pcs)
        /\ \A pcs : UploadsAt(pcs)' = Elsewhere(t, pcs) \cup Own(t, pcs)'
        /\ \A pcs : Own(t, pcs) = IF threads[t].pc \in pcs THEN {Document(t)} ELSE {}
        /\ \A pcs : Own(t, pcs)' = IF "extract" \in pcs THEN {Document(t)} ELSE {}
    <3> HIDE DEF StoreInv, TypeOK
    <3> QED  BY ONLY <1>1, <1>2, <2>0, StoreInv, t \in Threads, AdvanceFacts
  <2>2. \A pcs \in {{"write_chunks"}, Written, Pcs} : UploadsAt(pcs)' = UploadsAt(pcs)
    BY <2>1 DEF Pcs
  <2>3. \A d \in Documents : disk'[d].chunks = disk[d].chunks /\ disk'[d].made = disk[d].made
    BY <1>1
  <2> QED  BY ONLY <2>2, <2>3, ChunksOK, uploaded \subseteq Documents,
                   UNCHANGED <<uploaded, failed, cutoff>>,
                   ThreadDocuments, StoreInv DEF ChunksOK
<1>5. KeepsFiles(t)
  <2>1. /\ disk'[Document(t)].files = disk[Document(t)].files
        /\ disk'[Document(t)].blank = disk[Document(t)].blank \ {threads[t].name}
        /\ \A d \in Documents \ {Document(t)} : disk'[d] = disk[d]
    BY <1>1
  <2>2. Uploading(t)' /\ Document(t)' = Document(t)
    BY <1>1, <1>2, AdvanceFacts DEF Pcs
  <2>3. UNCHANGED <<uploaded, failed>> /\ threads[t].pc = "write"
    OBVIOUS
  <2>4. \A name \in disk'[Document(t)].blank :
          name \in disk[Document(t)].blank /\ name # threads[t].name
    BY ONLY <2>1
  <2> QED  BY ONLY <1>1, <2>1, <2>2, <2>3, <2>4 DEF KeepsFiles
<1>6. /\ threads[t].mutex = "out" /\ threads[t].pc \notin Vectorless
      /\ cutoff' \in {cutoff, cutoff \ {Document(t)}}
      /\ UNCHANGED <<models, lock, bound_vars, collection, handle, uploaded, failed, dropped,
                     spoilt>>
  OBVIOUS
<1> HIDE DEF StoreInv, TypeOK
<1> QED  BY ONLY <1>1, <1>2, <1>3, <1>4, <1>5, <1>6, StoreInv, t \in Threads, DiskInv

LEMMA TruncateChunksInv ==
    ASSUME StoreInv, NEW t \in Threads, TruncateChunks(t)
    PROVE  StoreInv'
<1> USE DEF StoreInv, TypeOK, TruncateChunks, DiskOnly, ServiceKept
<1>1. Uploading(t) /\ Document(t) \in Documents /\ threads[t].name \in Names
  BY DEF TasksOK, TaskOK, Uploading
<1>2. Advances(t, "write_chunks", {Document(t)})
  BY <1>1, InterruptingAdvances DEF Pcs
<1>3. disk' \in [Documents -> [made : BOOLEAN, files : SUBSET Names, blank : SUBSET Names,
                               chunks : {"none", "torn", "whole"}]]
  BY <1>1
<1>4. ChunksOK'
  <2>0. /\ "write_chunks" \in Pcs \ (RetrievalPcs \cup {"idle"}) /\ threads[t].mutex = "out"
        /\ UNCHANGED <<models, lock, bound_vars, spoilt>>
    BY DEF Pcs
  <2>1. /\ \A pcs : UploadsAt(pcs) = Elsewhere(t, pcs) \cup Own(t, pcs)
        /\ \A pcs : UploadsAt(pcs)' = Elsewhere(t, pcs) \cup Own(t, pcs)'
        /\ \A pcs : Own(t, pcs) = IF threads[t].pc \in pcs THEN {Document(t)} ELSE {}
        /\ \A pcs : Own(t, pcs)' = IF "write_chunks" \in pcs THEN {Document(t)} ELSE {}
    <3> HIDE DEF StoreInv, TypeOK
    <3> QED  BY ONLY <1>1, <1>2, <2>0, StoreInv, t \in Threads, AdvanceFacts
  <2>2. /\ UploadsAt(Written)' = UploadsAt(Written) /\ UploadsAt(Pcs)' = UploadsAt(Pcs)
        /\ UploadsAt({"write_chunks"})' = UploadsAt({"write_chunks"}) \cup {Document(t)}
    BY <2>1 DEF Pcs
  <2> QED  BY <1>1, <2>2, ThreadDocuments DEF ChunksOK
<1>5. KeepsFiles(t)
  <2>1. /\ disk'[Document(t)].files = disk[Document(t)].files
        /\ disk'[Document(t)].blank = disk[Document(t)].blank
        /\ \A d \in Documents \ {Document(t)} : disk'[d] = disk[d]
    BY <1>1
  <2>2. Uploading(t)' /\ Document(t)' = Document(t)
    BY <1>1, <1>2, AdvanceFacts DEF Pcs
  <2>3. UNCHANGED <<uploaded, failed>>
    OBVIOUS
  <2> QED  BY <1>1, <1>2, <2>1, <2>2, <2>3 DEF KeepsFiles, Advances
<1>6. /\ threads[t].mutex = "out" /\ threads[t].pc \notin Vectorless
      /\ cutoff' \in {cutoff, cutoff \ {Document(t)}}
      /\ UNCHANGED <<models, lock, bound_vars, collection, handle, uploaded, failed, dropped,
                     spoilt>>
  OBVIOUS
<1> HIDE DEF StoreInv, TypeOK
<1> QED  BY ONLY <1>1, <1>2, <1>3, <1>4, <1>5, <1>6, StoreInv, t \in Threads, DiskInv

LEMMA WriteChunksInv == ASSUME StoreInv, NEW t \in Threads, WriteChunks(t) PROVE StoreInv'
<1> USE DEF StoreInv, TypeOK, WriteChunks
<1>1. Uploading(t) /\ Document(t) \in Documents /\ threads[t].name \in Names
  BY DEF TasksOK, TaskOK, Uploading
<1>2. Advances(t, "collection", {})
  BY GotoAdvances DEF Pcs
<1>3. disk' \in [Documents -> [made : BOOLEAN, files : SUBSET Names, blank : SUBSET Names,
                               chunks : {"none", "torn", "whole"}]]
  BY <1>1
<1>4. ChunksOK'
  <2>0. /\ "collection" \in Pcs \ (RetrievalPcs \cup {"idle"}) /\ threads[t].mutex = "out"
        /\ UNCHANGED <<models, lock, bound_vars, spoilt>>
    BY DEF Pcs
  <2>1. /\ \A pcs : UploadsAt(pcs) = Elsewhere(t, pcs) \cup Own(t, pcs)
        /\ \A pcs : UploadsAt(pcs)' = Elsewhere(t, pcs) \cup Own(t, pcs)'
        /\ \A pcs : Own(t, pcs) = IF threads[t].pc \in pcs THEN {Document(t)} ELSE {}
        /\ \A pcs : Own(t, pcs)' = IF "collection" \in pcs THEN {Document(t)} ELSE {}
    <3> HIDE DEF StoreInv, TypeOK
    <3> QED  BY ONLY <1>1, <1>2, <2>0, StoreInv, t \in Threads, AdvanceFacts
  <2>2. /\ UploadsAt(Written)' = UploadsAt(Written) \cup {Document(t)}
        /\ UploadsAt(Pcs)' = UploadsAt(Pcs)
        /\ UploadsAt({"write_chunks"}) = UploadsAt({"write_chunks"})' \cup {Document(t)}
    BY <2>1 DEF Pcs
  <2> QED  BY <1>1, <2>2, ThreadDocuments DEF ChunksOK
<1>5. KeepsFiles(t)
  <2>1. /\ disk'[Document(t)].files = disk[Document(t)].files
        /\ disk'[Document(t)].blank = disk[Document(t)].blank
        /\ \A d \in Documents \ {Document(t)} : disk'[d] = disk[d]
    BY <1>1
  <2>2. Uploading(t)' /\ Document(t)' = Document(t)
    BY <1>1, <1>2, AdvanceFacts DEF Pcs
  <2>3. UNCHANGED <<uploaded, failed>>
    OBVIOUS
  <2> QED  BY <1>1, <1>2, <2>1, <2>2, <2>3 DEF KeepsFiles, Advances
<1>6. /\ threads[t].mutex = "out" /\ threads[t].pc \notin Vectorless
      /\ cutoff' \in {cutoff, cutoff \ {Document(t)}}
      /\ UNCHANGED <<models, lock, bound_vars, collection, handle, uploaded, failed, dropped,
                     spoilt>>
  OBVIOUS
<1> HIDE DEF StoreInv, TypeOK
<1> QED  BY ONLY <1>1, <1>2, <1>3, <1>4, <1>5, <1>6, StoreInv, t \in Threads, DiskInv

----
(* The steps that the collection or the handle shows, ... *)

LEMMA OpenCollectionInv ==
    ASSUME StoreInv, NEW t \in Threads, OpenCollection(t)
    PROVE  StoreInv'
<1> USE DEF StoreInv, TypeOK, Kinds, OpenCollection, Release, Missing, GetOrCreate
<1>1. threads' \in [Threads -> ThreadStates]
  <2>1. threads[t] \in ThreadStates /\ threads[t].pc \in Pcs
    BY DEF ThreadStates
  <2>2. [threads[t] EXCEPT !.mutex = "out"] \in ThreadStates
    BY ONLY <2>1, ThreadTypes
  <2> QED  BY <2>2
<1>2. Moves(t, {})
  BY <1>1, NobodyAssumption DEF Moves, Same, TasksOK, TaskOK, OneEmbeddingModel, Uploading,
     ThreadStates
<1>3. \A pcs : Own(t, pcs)' = Own(t, pcs)
  BY DEF Own, Uploading, ThreadStates
<1>4. \A pcs : UploadsAt(pcs)' = UploadsAt(pcs)
  BY <1>2, <1>3, MoveFacts
<1>5. /\ collection'.exists /\ handle' = collection'.number
      /\ collection.exists => collection' = collection
      /\ collection' \in [number : Nat, exists : BOOLEAN, kind : Kinds \cup {"unset"},
                          documents : SUBSET Documents]
      /\ collection'.documents \in {collection.documents, {}}
  OBVIOUS
<1>6. TypeOK'
  BY <1>2, <1>5 DEF Moves
<1>7. HandlesOK'
  BY <1>4, <1>5 DEF HandlesOK, InCollection, Usable
<1>8. VectorsOK'
  BY <1>4, <1>5 DEF VectorsOK
<1>9. OutOfReach' = OutOfReach
  BY <1>4 DEF OutOfReach
<1>10. RetrievalOK(t)'
  BY <1>9 DEF RetrievalsOK, RetrievalOK, Retrieving, Marked, Explained, Asked, ThreadStates
<1>11. RetrievalsOK'
  BY <1>2, <1>5, <1>9, <1>10, RetrievalsKept DEF Usable
<1>12. ChunksOK' /\ FilesOK'
  BY <1>2, <1>3, DiskKept
<1> QED  BY <1>2, <1>6, <1>7, <1>8, <1>11, <1>12, MoveFacts

LEMMA DeleteVectorsInv ==
    ASSUME StoreInv, NEW t \in Threads, DeleteVectors(t)
    PROVE  StoreInv'
<1> USE DEF StoreInv, TypeOK, DeleteVectors, ServiceKept
<1>1. Uploading(t) /\ Document(t) \in Documents
  BY DEF TasksOK, TaskOK, Uploading
<1>2. Advances(t, "upsert", {Document(t)}) /\ threads'[t].handle = threads[t].handle
  BY <1>1, InterruptingAdvances DEF Pcs
<1>3. /\ "upsert" \in Pcs \ (RetrievalPcs \cup {"idle"}) /\ threads[t].mutex = "out"
      /\ threads[t].pc = "delete" /\ UNCHANGED <<models, lock, bound_vars, spoilt>>
  BY DEF Pcs
<1>4. /\ Moves(t, {Document(t)}) /\ RetrievalOK(t)'
      /\ \A pcs : Own(t, pcs) = IF threads[t].pc \in pcs THEN {Document(t)} ELSE {}
      /\ \A pcs : Own(t, pcs)' = IF "upsert" \in pcs THEN {Document(t)} ELSE {}
      /\ \A pcs : UploadsAt(pcs) = Elsewhere(t, pcs) \cup Own(t, pcs)
      /\ \A pcs : UploadsAt(pcs)' = Elsewhere(t, pcs) \cup Own(t, pcs)'
  <2> HIDE DEF StoreInv, TypeOK
  <2> QED  BY ONLY <1>1, <1>2, <1>3, StoreInv, t \in Threads, AdvanceFacts
<1>5. /\ collection' \in [number : Nat, exists : BOOLEAN, kind : Kinds \cup {"unset"},
                          documents : SUBSET Documents]
      /\ collection'.number = collection.number /\ collection'.exists = collection.exists
      /\ collection'.documents \subseteq collection.documents
      /\ collection.documents \subseteq collection'.documents \cup {Document(t)}
  OBVIOUS
<1>6. TypeOK'
  BY <1>4, <1>5 DEF Moves
<1>7. UploadsAt(Resetting)' = UploadsAt(Resetting)
  BY <1>3, <1>4
<1>8. HandlesOK'
  BY <1>2, <1>3, <1>4, <1>5, <1>7 DEF HandlesOK, InCollection, Usable, Moves, Same, Advances
<1>9. UploadsAt(Vectorless)' = UploadsAt(Vectorless) \cup {Document(t)}
  BY <1>3, <1>4
<1>10. VectorsOK'
  BY <1>3, <1>5, <1>9 DEF VectorsOK
<1>11. OutOfReach' \subseteq OutOfReach \cup {Document(t)}
  <2>1. UploadsAt({"write_chunks"} \cup Vectorless)' \subseteq
          UploadsAt({"write_chunks"} \cup Vectorless) \cup {Document(t)}
    BY <1>4
  <2> HIDE DEF Vectorless, Resetting
  <2> QED  BY <1>7, <2>1 DEF OutOfReach
<1>12. RetrievalsOK'
  <2>1. \A u \in Threads : Usable(u) /\ threads'[u].handle = threads[u].handle => Usable(u)'
    BY <1>5 DEF Usable
  <2>2. {Document(t)} \in SUBSET Documents /\ UNCHANGED <<uploaded, spoilt>>
    BY <1>1
  <2> QED  BY <1>4, <1>11, <2>1, <2>2, RetrievalsKept
<1>13. ChunksOK' /\ FilesOK'
  <2>1. \A pcs \in {Pcs, Pcs \ {"unlink"}, {"unlink"}, {"write_chunks"}, Written} :
          "delete" \in pcs <=> "upsert" \in pcs
    BY DEF Pcs
  <2>2. \A pcs \in {Pcs, Pcs \ {"unlink"}, {"unlink"}, {"write_chunks"}, Written} :
          Own(t, pcs)' = Own(t, pcs)
    <3>1. \A pcs : ("delete" \in pcs <=> "upsert" \in pcs) => Own(t, pcs)' = Own(t, pcs)
      BY ONLY <1>3, <1>4
    <3> QED  BY ONLY <2>1, <3>1
  <2> QED  BY <1>3, <1>4, <2>2, DiskKept
<1> QED  BY <1>4, <1>6, <1>8, <1>10, <1>12, <1>13, MoveFacts

LEMMA DeleteCollectionInv ==
    ASSUME StoreInv, NEW t \in Threads, DeleteCollection(t)
    PROVE  StoreInv'
<1> USE DEF StoreInv, TypeOK, DeleteCollection
<1>1. Uploading(t) /\ Document(t) \in Documents
  BY DEF TasksOK, TaskOK, Uploading
<1>2. Advances(t, "recreate", Documents)
  BY InterruptingAdvances DEF Pcs
<1>3. /\ threads[t].mutex = "out" /\ threads[t].pc = "delete_collection"
      /\ UNCHANGED <<models, lock, bound_vars>> /\ "recreate" \in Pcs
  BY DEF Pcs
<1>4. Uploading(t)' /\ Document(t)' = Document(t)
  BY <1>1, <1>2 DEF Advances, Uploading
<1>5. Moves(t, Documents)
  BY <1>1, <1>2, <1>3, <1>4 DEF Advances, Moves, Same, TasksOK, TaskOK, OneEmbeddingModel
<1>6. RetrievalOK(t)'
  <2>1. Explained(t)
    BY DEF RetrievalsOK, RetrievalOK
  <2>2. Asked(t)' = Asked(t) /\ (spoilt => spoilt')
    BY <1>4 DEF Asked
  <2>3. Explained(t)'
    BY <1>2, <2>1, <2>2 DEF Explained, Advances
  <2>4. ~Retrieving(t)' /\ threads'[t].pc \notin {"query", "read"}
    BY <1>2, <1>4 DEF Retrieving, Uploading, Advances
  <2> QED  BY <2>3, <2>4 DEF RetrievalOK
<1>7. /\ \A pcs : Own(t, pcs) = IF threads[t].pc \in pcs THEN {Document(t)} ELSE {}
      /\ \A pcs : Own(t, pcs)' = IF "recreate" \in pcs THEN {Document(t)} ELSE {}
  BY <1>1, <1>2, <1>4 DEF Own, Advances
<1>8. /\ \A pcs : UploadsAt(pcs) = Elsewhere(t, pcs) \cup Own(t, pcs)
      /\ \A pcs : UploadsAt(pcs)' = Elsewhere(t, pcs) \cup Own(t, pcs)'
  BY <1>5, MoveFacts
<1>9. /\ collection' \in [number : Nat, exists : BOOLEAN, kind : Kinds \cup {"unset"},
                          documents : SUBSET Documents]
      /\ collection'.number = collection.number
      /\ collection'.documents = collection.documents
      /\ dropped \subseteq dropped' /\ dropped' \subseteq Documents
      /\ \/ collection' = collection /\ dropped' = dropped /\ spoilt' = spoilt
         \/ dropped' = Documents /\ (spoilt' <=> spoilt \/ UploadsAt(Resetting) # {})
  OBVIOUS
<1>10. TypeOK'
  BY <1>5, <1>9 DEF Moves
<1>11. HandlesOK'
  <2>1. Document(t) \in UploadsAt(Resetting)'
    BY <1>7, <1>8
  <2>2. ASSUME NEW u \in Threads, threads'[u].pc = "assign"
        PROVE  Usable(u)' \/ spoilt'
    <3>1. /\ u # t /\ threads[u].pc = "assign"
          /\ threads'[u].handle = threads[u].handle
      BY <1>2, <2>2 DEF Advances, Same
    <3>2. Usable(u) \/ spoilt
      BY <3>1 DEF HandlesOK
    <3>3. UploadsAt(Resetting) # {}
      <4>1. Uploading(u) /\ threads[u].pc \in Resetting
        BY <3>1 DEF Uploading, TasksOK, TaskOK
      <4>2. Document(u) \in UploadsAt(Resetting)
        BY ONLY <4>1, u \in Threads DEF UploadsAt
      <4> QED  BY ONLY <4>2
    <3> QED  BY <1>9, <3>1, <3>2, <3>3 DEF Usable
  <2>3. \A u \in Threads : InCollection(u)' => installed
    BY <1>2, <1>3 DEF HandlesOK, InCollection, Advances, Same
  <2> QED  BY <1>3, <2>1, <2>2, <2>3 DEF HandlesOK
<1>12. VectorsOK'
  <2>1. UploadsAt(Vectorless)' = UploadsAt(Vectorless)
    BY <1>3, <1>7, <1>8
  <2>2. collection'.exists \/ dropped' = Documents \/ ~collection.exists
    BY <1>9
  <2> QED  BY <1>3, <1>9, <2>1, <2>2 DEF VectorsOK
<1>13. OutOfReach' \subseteq Documents
  <2>1. \A pcs : UploadsAt(pcs)' \subseteq Documents
    BY <1>5, MoveFacts DEF TasksOK, TaskOK, UploadsAt
  <2> QED  BY <1>9, <2>1 DEF OutOfReach
<1>14. RetrievalsOK'
  <2>1. Documents # {} /\ UNCHANGED uploaded /\ (spoilt => spoilt') /\ Documents \in SUBSET Documents
    BY <1>1
  <2> QED  BY <1>5, <1>6, <1>13, <2>1, RetrievalsKept
<1>15. ChunksOK' /\ FilesOK'
  <2>1. \A pcs \in {Pcs, Pcs \ {"unlink"}, {"unlink"}, {"write_chunks"}, Written} :
          "delete_collection" \in pcs <=> "recreate" \in pcs
    BY DEF Pcs
  <2>2. \A pcs \in {Pcs, Pcs \ {"unlink"}, {"unlink"}, {"write_chunks"}, Written} :
          Own(t, pcs)' = Own(t, pcs)
    <3>1. \A pcs : ("delete_collection" \in pcs <=> "recreate" \in pcs) =>
                     Own(t, pcs)' = Own(t, pcs)
      BY ONLY <1>3, <1>7
    <3> QED  BY ONLY <2>1, <3>1
  <2> QED  BY <1>3, <1>5, <2>2, DiskKept
<1> QED  BY <1>5, <1>10, <1>11, <1>12, <1>14, <1>15, MoveFacts

LEMMA RecreateCollectionInv ==
    ASSUME StoreInv, NEW t \in Threads, RecreateCollection(t)
    PROVE  StoreInv'
<1> USE DEF StoreInv, TypeOK, Kinds, RecreateCollection, GetOrCreate, ServiceKept
<1>1. Uploading(t) /\ Document(t) \in Documents
  BY DEF TasksOK, TaskOK, Uploading
<1>2. /\ collection'.exists
      /\ collection.exists => collection' = collection
      /\ collection' \in [number : Nat, exists : BOOLEAN, kind : Kinds \cup {"unset"},
                          documents : SUBSET Documents]
      /\ collection'.documents \in {collection.documents, {}}
      /\ collection'.number \in Nat
  OBVIOUS
<1>3. Advances(t, "assign", {}) /\ threads'[t].handle = collection'.number
  <2> DEFINE thread == [threads[t] EXCEPT !.handle = collection'.number, !.pc = "assign"]
  <2>1. threads[t] \in ThreadStates /\ "assign" \in Pcs /\ threads' = [threads EXCEPT ![t] = thread]
    BY DEF Pcs
  <2>2. thread \in ThreadStates
    BY <1>2, <2>1 DEF ThreadStates
  <2>3. /\ thread.pc = "assign" /\ thread.mutex = threads[t].mutex
        /\ thread.task = threads[t].task /\ thread.document = threads[t].document
        /\ thread.name = threads[t].name /\ thread.kind = threads[t].kind
        /\ thread.outcome = threads[t].outcome /\ thread.known = threads[t].known
        /\ thread.interrupted = threads[t].interrupted
        /\ thread.handle = collection'.number
    BY <2>1 DEF ThreadStates
  <2> HIDE DEF thread
  <2> QED  BY <2>1, <2>2, <2>3, OwnStep DEF Advances
<1>4. /\ "assign" \in Pcs \ (RetrievalPcs \cup {"idle"}) /\ threads[t].mutex = "out"
      /\ threads[t].pc = "recreate" /\ UNCHANGED <<models, lock, bound_vars, spoilt>>
  BY DEF Pcs
<1>5. /\ Moves(t, {}) /\ RetrievalOK(t)'
      /\ \A pcs : Own(t, pcs) = IF threads[t].pc \in pcs THEN {Document(t)} ELSE {}
      /\ \A pcs : Own(t, pcs)' = IF "assign" \in pcs THEN {Document(t)} ELSE {}
      /\ \A pcs : UploadsAt(pcs) = Elsewhere(t, pcs) \cup Own(t, pcs)
      /\ \A pcs : UploadsAt(pcs)' = Elsewhere(t, pcs) \cup Own(t, pcs)'
  <2> HIDE DEF StoreInv, TypeOK
  <2> QED  BY ONLY <1>1, <1>3, <1>4, StoreInv, t \in Threads, AdvanceFacts
<1>6. TypeOK'
  BY <1>2, <1>5 DEF Moves
<1>7. Document(t) \in UploadsAt(Resetting)'
  BY <1>5
<1>8. HandlesOK'
  BY <1>2, <1>3, <1>4, <1>7 DEF HandlesOK, InCollection, Usable, Advances, Same
<1>9. \A pcs \in Phases : "recreate" \in pcs <=> "assign" \in pcs
  BY DEF Phases, Pcs
<1>10. \A pcs \in Phases : Own(t, pcs)' = Own(t, pcs) /\ UploadsAt(pcs)' = UploadsAt(pcs)
  BY ONLY <1>4, <1>5, <1>9
<1>11. VectorsOK'
  BY <1>2, <1>4, <1>10 DEF VectorsOK, Phases
<1>12. OutOfReach' = OutOfReach
  <2> HIDE DEF Vectorless, Resetting
  <2> QED  BY <1>10 DEF OutOfReach, Phases
<1>13. RetrievalsOK'
  BY <1>2, <1>5, <1>12, RetrievalsKept DEF Usable
<1>14. ChunksOK' /\ FilesOK'
  BY <1>4, <1>5, <1>10, DiskKept DEF Phases
<1> QED  BY <1>5, <1>6, <1>8, <1>11, <1>13, <1>14, MoveFacts

LEMMA AssignCollectionInv ==
    ASSUME StoreInv, NEW t \in Threads, AssignCollection(t)
    PROVE  StoreInv'
<1> USE DEF StoreInv, TypeOK, AssignCollection
<1>1. Uploading(t) /\ Document(t) \in Documents
  BY DEF TasksOK, TaskOK, Uploading
<1>2. Advances(t, "reread", {}) /\ threads'[t].handle = threads[t].handle
  BY GotoAdvances DEF Pcs
<1>3. /\ "reread" \in Pcs \ (RetrievalPcs \cup {"idle"}) /\ threads[t].mutex = "out"
      /\ threads[t].pc = "assign" /\ UNCHANGED <<models, lock, bound_vars, spoilt>>
  BY DEF Pcs
<1>4. /\ Moves(t, {}) /\ RetrievalOK(t)'
      /\ \A pcs : Own(t, pcs) = IF threads[t].pc \in pcs THEN {Document(t)} ELSE {}
      /\ \A pcs : Own(t, pcs)' = IF "reread" \in pcs THEN {Document(t)} ELSE {}
      /\ \A pcs : UploadsAt(pcs) = Elsewhere(t, pcs) \cup Own(t, pcs)
      /\ \A pcs : UploadsAt(pcs)' = Elsewhere(t, pcs) \cup Own(t, pcs)'
  <2> HIDE DEF StoreInv, TypeOK
  <2> QED  BY ONLY <1>1, <1>2, <1>3, StoreInv, t \in Threads, AdvanceFacts
<1>5. TypeOK'
  BY <1>4 DEF Moves, ThreadStates
<1>6. HandlesOK'
  BY <1>2, <1>3, <1>4 DEF HandlesOK, InCollection, Usable, Advances, Same
<1> DEFINE phases == {Pcs, Pcs \ {"unlink"}, {"unlink"}, {"write_chunks"}, Written, Vectorless,
                      {"write_chunks"} \cup Vectorless}
<1>7. \A pcs \in phases : "assign" \in pcs <=> "reread" \in pcs
  BY DEF Pcs
<1>8. \A pcs \in phases : Own(t, pcs)' = Own(t, pcs) /\ UploadsAt(pcs)' = UploadsAt(pcs)
  <2>1. \A pcs : ("assign" \in pcs <=> "reread" \in pcs) =>
                   Own(t, pcs)' = Own(t, pcs) /\ UploadsAt(pcs)' = UploadsAt(pcs)
    BY ONLY <1>3, <1>4
  <2> HIDE DEF phases
  <2> QED  BY ONLY <1>7, <2>1
<1>9. UploadsAt(Resetting)' \subseteq UploadsAt(Resetting)
  BY <1>4
<1>11. VectorsOK'
  BY <1>3, <1>8 DEF VectorsOK
<1>12. OutOfReach' \subseteq OutOfReach
  <2> HIDE DEF Vectorless, Resetting
  <2> QED  BY <1>8, <1>9 DEF OutOfReach
<1>13. RetrievalsOK'
  BY <1>4, <1>12, RetrievalsKept DEF Usable
<1>14. ChunksOK' /\ FilesOK'
  BY <1>3, <1>4, <1>8, DiskKept
<1> QED  BY <1>4, <1>5, <1>6, <1>11, <1>13, <1>14, MoveFacts

----
(* ... those that end an upload, with an exception ... *)

LEMMA UploadRaisesInv ==
    ASSUME StoreInv, NEW t \in Threads, UploadRaises(t), Uploading(t), threads[t].pc # "assign",
           collection' \in [number : Nat, exists : BOOLEAN, kind : Kinds \cup {"unset"},
                            documents : SUBSET Documents],
           collection'.number = collection.number, collection'.exists = collection.exists,
           collection'.documents \in
             {collection.documents, collection.documents \cup {Document(t)}}
    PROVE  StoreInv'
<1> USE DEF StoreInv, TypeOK, UploadRaises
<1>1. /\ threads' \in [Threads -> ThreadStates] /\ threads'[t] = Idle
      /\ \A u \in Threads \ {t} : Same(u, {})
  BY IdleFacts, OwnStep
<1>2. Document(t) \in Documents
  BY DEF TasksOK, TaskOK
<1>3. Moves(t, {})
  BY <1>1, NobodyAssumption DEF Moves, Same, TaskOK, OneEmbeddingModel, Uploading, Idle
<1>4. TypeOK'
  BY <1>2, <1>3 DEF Moves
<1>5. /\ \A pcs : Own(t, pcs) = IF threads[t].pc \in pcs THEN {Document(t)} ELSE {}
      /\ \A pcs : Own(t, pcs)' = {}
  BY <1>1 DEF Own, Uploading, Idle
<1>6. /\ \A pcs : UploadsAt(pcs) = Elsewhere(t, pcs) \cup Own(t, pcs)
      /\ \A pcs : UploadsAt(pcs)' = Elsewhere(t, pcs)
  <2>1. /\ \A pcs : UploadsAt(pcs) = Elsewhere(t, pcs) \cup Own(t, pcs)
        /\ \A pcs : UploadsAt(pcs)' = Elsewhere(t, pcs) \cup Own(t, pcs)'
    BY <1>3, MoveFacts
  <2> QED  BY ONLY <1>5, <2>1
<1>7. ChunksOK'
  <2>1. /\ UploadsAt(Written)' \subseteq UploadsAt(Written)
        /\ UploadsAt(Pcs)' \subseteq UploadsAt(Pcs)
        /\ cutoff \cup UploadsAt({"write_chunks"})
             \subseteq cutoff' \cup UploadsAt({"write_chunks"})'
    BY <1>5, <1>6
  <2> QED  BY <2>1 DEF ChunksOK
<1>8. KeepsFiles(t)
  BY <1>1 DEF KeepsFiles, Idle, Uploading
<1>9. HandlesOK'
  <2>1. spoilt' \/ UploadsAt(Resetting)' = UploadsAt(Resetting)
    BY <1>5, <1>6
  <2> QED  BY <1>1, <2>1 DEF HandlesOK, InCollection, Usable, Same, Idle
<1>10. VectorsOK'
  <2>1. dropped \cup UploadsAt(Vectorless) \subseteq dropped' \cup UploadsAt(Vectorless)'
    BY <1>5, <1>6
  <2>2. dropped \subseteq dropped' /\ Document(t) \in failed' /\ failed \subseteq failed'
    OBVIOUS
  <2> HIDE DEF UploadRaises, Vectorless
  <2>3. UNCHANGED <<installed, uploaded>>
    BY DEF UploadRaises
  <2> QED  BY <2>1, <2>2, <2>3 DEF VectorsOK
<1>11. OutOfReach' \subseteq OutOfReach
  <2>1. threads[t].pc \in {"write_chunks"} \cup Vectorless =>
          Document(t) \in UploadsAt({"write_chunks"} \cup Vectorless)
    BY <1>5, <1>6
  <2>2. \A pcs : UploadsAt(pcs)' \subseteq UploadsAt(pcs)
    BY <1>6
  <2>3. /\ cutoff' \cup dropped' \subseteq
             cutoff \cup dropped \cup UploadsAt({"write_chunks"} \cup Vectorless)
    BY <2>1
  <2> HIDE DEF Vectorless, Resetting
  <2> QED  BY <2>2, <2>3 DEF OutOfReach
<1>12. RetrievalOK(t)'
  BY <1>1 DEF RetrievalOK, Retrieving, Explained, Idle
<1>13. RetrievalsOK'
  <2>1. \A u \in Threads : Usable(u) /\ threads'[u].handle = threads[u].handle => Usable(u)'
    BY DEF Usable
  <2>2. (spoilt => spoilt') /\ uploaded \subseteq uploaded'
    OBVIOUS
  <2> QED  BY <1>3, <1>11, <1>12, <2>1, <2>2, RetrievalsKept
<1> QED  BY <1>3, <1>4, <1>7, <1>8, <1>9, <1>10, <1>13, MoveFacts, FilesKept

LEMMA UploadFailuresInv ==
    ASSUME StoreInv, NEW t \in Threads,
           ExtractRaises(t) \/ UploadFails(t) \/ UpsertRaises(t) \/ UpsertFails(t)
    PROVE  StoreInv'
<1> USE DEF StoreInv, TypeOK
<1>1. collection \in [number : Nat, exists : BOOLEAN, kind : Kinds \cup {"unset"},
                      documents : SUBSET Documents]
  OBVIOUS
<1>2. CASE ExtractRaises(t)
  <2>1. UploadRaises(t) /\ Uploading(t) /\ threads[t].pc # "assign" /\ UNCHANGED collection
    BY <1>2 DEF ExtractRaises, Uploading, TasksOK, TaskOK
  <2> QED  BY <1>1, <2>1, UploadRaisesInv
<1>3. CASE UploadFails(t)
  <2>1. UploadRaises(t) /\ Uploading(t) /\ threads[t].pc # "assign" /\ UNCHANGED collection
    BY <1>3 DEF UploadFails, Uploading, TasksOK, TaskOK
  <2> QED  BY <1>1, <2>1, UploadRaisesInv
<1>4. CASE UpsertRaises(t)
  <2>1. UploadRaises(t) /\ Uploading(t) /\ threads[t].pc # "assign" /\ UNCHANGED collection
    BY <1>4 DEF UpsertRaises, Uploading, TasksOK, TaskOK
  <2> QED  BY <1>1, <2>1, UploadRaisesInv
<1>5. CASE UpsertFails(t)
  <2>1. /\ UploadRaises(t) /\ Uploading(t) /\ threads[t].pc # "assign"
        /\ threads[t].kind \in Kinds \cup {"unset"} /\ Document(t) \in Documents
    BY <1>5 DEF UpsertFails, Uploading, TasksOK, TaskOK, ThreadStates
  <2>2. CASE UNCHANGED collection
    BY <1>1, <2>1, <2>2, UploadRaisesInv
  <2>3. CASE collection' = [collection EXCEPT !.kind = threads[t].kind,
                              !.documents = collection.documents \cup {Document(t)}]
    <3>1. /\ collection' \in [number : Nat, exists : BOOLEAN, kind : Kinds \cup {"unset"},
                              documents : SUBSET Documents]
          /\ collection'.number = collection.number /\ collection'.exists = collection.exists
          /\ collection'.documents = collection.documents \cup {Document(t)}
      BY ONLY <1>1, <2>1, <2>3
    <3> QED  BY <2>1, <3>1, UploadRaisesInv
  <2> QED  BY <1>5, <2>2, <2>3 DEF UpsertFails
<1> QED  BY <1>2, <1>3, <1>4, <1>5

(* ... or without. *)
LEMMA ReturnFacts ==
    ASSUME StoreInv, NEW t \in Threads, UploadReturns(t), Uploading(t),
           threads[t].pc \in Written,
           lock' = IF threads[t].mutex = "in" THEN Nobody ELSE lock,
           UNCHANGED <<disk, handle, models>>
    PROVE  /\ Moves(t, {}) /\ TasksOK' /\ OneEmbeddingModel' /\ ChunksOK' /\ FilesOK'
           /\ RetrievalOK(t)' /\ ~InCollection(t)' /\ threads'[t].pc = "ready"
           /\ \A pcs : Own(t, pcs) = IF threads[t].pc \in pcs THEN {Document(t)} ELSE {}
           /\ \A pcs : Own(t, pcs)' = {}
           /\ \A pcs : UploadsAt(pcs) = Elsewhere(t, pcs) \cup Own(t, pcs)
           /\ \A pcs : UploadsAt(pcs)' = Elsewhere(t, pcs)
           /\ Document(t) \in Documents
<1> USE DEF StoreInv, TypeOK, UploadReturns
<1> DEFINE thread == [Idle EXCEPT !.pc = "ready", !.task = "retrieve", !.document = Document(t)]
<1>1. thread \in ThreadStates
  <2>1. threads[t] \in ThreadStates
    OBVIOUS
  <2>2. "ready" \in Pcs
    BY DEF Pcs
  <2>3. Document(t) \in Documents \cup {NoDocument}
    BY ONLY <2>1 DEF ThreadStates
  <2> QED  BY ONLY <2>2, <2>3, IdleFacts DEF ThreadStates
<1>2. /\ threads' \in [Threads -> ThreadStates] /\ threads'[t] = thread
      /\ \A u \in Threads \ {t} : Same(u, {})
  <2> HIDE DEF thread
  <2> QED  BY <1>1, OwnStep DEF thread
<1>3. /\ thread.pc = "ready" /\ thread.task = "retrieve" /\ thread.mutex = "out"
      /\ thread.kind = "unset" /\ thread.outcome = "none"
  BY DEF Idle
<1> HIDE DEF thread
<1>4. Document(t) \in Documents
  BY DEF TasksOK, TaskOK
<1>5. Moves(t, {})
  <2>1. TaskOK(t)'
    BY <1>2, <1>3 DEF TaskOK, Uploading
  <2>2. /\ lock' \in Threads \cup {Nobody}
        /\ \A u \in Threads : threads'[u].mutex = "in" => lock' = u
    <3>1. ASSUME NEW u \in Threads, threads'[u].mutex = "in"
          PROVE  lock' = u
      <4>1. u # t /\ threads[u].mutex = "in"
        BY <1>2, <1>3, <3>1 DEF Same
      <4> QED  BY <4>1
    <3> QED  BY <3>1
  <2> QED  BY <1>2, <1>3, <2>1, <2>2 DEF Moves, OneEmbeddingModel
<1>6. /\ \A pcs : Own(t, pcs) = IF threads[t].pc \in pcs THEN {Document(t)} ELSE {}
      /\ \A pcs : Own(t, pcs)' = {}
  BY <1>2, <1>3 DEF Own, Uploading
<1>7. /\ \A pcs : UploadsAt(pcs) = Elsewhere(t, pcs) \cup Own(t, pcs)
      /\ \A pcs : UploadsAt(pcs)' = Elsewhere(t, pcs)
      /\ TasksOK' /\ OneEmbeddingModel'
  <2>1. /\ \A pcs : UploadsAt(pcs) = Elsewhere(t, pcs) \cup Own(t, pcs)
        /\ \A pcs : UploadsAt(pcs)' = Elsewhere(t, pcs) \cup Own(t, pcs)'
        /\ TasksOK' /\ OneEmbeddingModel'
    BY <1>5, MoveFacts
  <2> QED  BY ONLY <1>6, <2>1
<1>8. ChunksOK'
  <2>1. /\ Document(t) \in UploadsAt(Written) /\ Document(t) \in UploadsAt(Pcs)
        /\ UploadsAt(Written)' \subseteq UploadsAt(Written)
        /\ UploadsAt(Pcs)' \subseteq UploadsAt(Pcs)
        /\ UploadsAt({"write_chunks"}) = UploadsAt({"write_chunks"})'
    <3>1. threads[t].pc \in Pcs /\ threads[t].pc # "write_chunks"
      BY DEF ThreadStates
    <3> QED  BY ONLY <1>6, <1>7, <3>1, threads[t].pc \in Written
  <2> HIDE DEF Written
  <2> QED  BY <1>4, <2>1 DEF ChunksOK
<1>9. FilesOK'
  <2>1. threads[t].pc # "unlink" /\ threads[t].pc # "write"
    OBVIOUS
  <2>2. ~Uploading(t)' /\ threads'[t].pc # "write"
    BY <1>2, <1>3 DEF Uploading
  <2>3. KeepsFiles(t)
    BY <2>1, <2>2 DEF KeepsFiles
  <2> QED  BY <1>5, <2>3, FilesKept
<1>10. RetrievalOK(t)' /\ ~InCollection(t)'
  BY <1>2, <1>3 DEF RetrievalOK, Retrieving, Explained, InCollection
<1> QED  BY <1>2, <1>3, <1>4, <1>5, <1>6, <1>7, <1>8, <1>9, <1>10

LEMMA NoChromaInv == ASSUME StoreInv, NEW t \in Threads, NoChroma(t) PROVE StoreInv'
<1> USE DEF StoreInv, TypeOK, NoChroma
<1>1. CASE threads[t].task = "upload"
  <2>1. /\ UploadReturns(t) /\ Uploading(t) /\ threads[t].pc \in Written
        /\ lock' = IF threads[t].mutex = "in" THEN Nobody ELSE lock
        /\ UNCHANGED <<disk, collection, handle, models, dropped, spoilt, cutoff, failed, installed>>
        /\ uploaded' = uploaded \cup {Document(t)} /\ ~installed
    BY <1>1 DEF Uploading, UploadReturns
  <2>2. /\ Moves(t, {}) /\ TasksOK' /\ OneEmbeddingModel' /\ ChunksOK' /\ FilesOK'
        /\ RetrievalOK(t)' /\ ~InCollection(t)' /\ threads'[t].pc = "ready"
        /\ \A pcs : Own(t, pcs) = IF threads[t].pc \in pcs THEN {Document(t)} ELSE {}
        /\ \A pcs : Own(t, pcs)' = {}
        /\ \A pcs : UploadsAt(pcs) = Elsewhere(t, pcs) \cup Own(t, pcs)
        /\ \A pcs : UploadsAt(pcs)' = Elsewhere(t, pcs)
        /\ Document(t) \in Documents
    BY <2>1, ReturnFacts
  <2>3. TypeOK'
    BY <2>1, <2>2 DEF Moves
  <2>4. HandlesOK'
    BY <2>1, <2>2 DEF HandlesOK, InCollection, Usable, Moves, Same
  <2>5. VectorsOK'
    BY <2>1 DEF VectorsOK
  <2>6. OutOfReach' \subseteq OutOfReach
    <3>1. \A pcs : UploadsAt(pcs)' \subseteq UploadsAt(pcs)
      BY <2>2
    <3> HIDE DEF Vectorless, Resetting
    <3> QED  BY <2>1, <3>1 DEF OutOfReach
  <2>7. RetrievalsOK'
    BY <2>1, <2>2, <2>6, RetrievalsKept DEF Usable
  <2> QED  BY <2>2, <2>3, <2>4, <2>5, <2>7
<1>2. CASE threads[t].task = "retrieve"
  <2> DEFINE thread == [threads[t] EXCEPT !.mutex = "out", !.pc = "local"]
  <2>1. threads' = [threads EXCEPT ![t] = thread] /\ threads[t] \in ThreadStates
    BY <1>2
  <2>2. thread \in ThreadStates
    <3>1. "local" \in Pcs
      BY DEF Pcs
    <3> QED  BY ONLY <2>1, <3>1, ThreadTypes
  <2>3. /\ thread.pc = "local" /\ thread.mutex = "out" /\ thread.task = threads[t].task
        /\ thread.document = threads[t].document /\ thread.kind = threads[t].kind
        /\ thread.outcome = threads[t].outcome /\ thread.known = threads[t].known
        /\ thread.interrupted = threads[t].interrupted
    BY <2>1 DEF ThreadStates
  <2> HIDE DEF thread
  <2>4. /\ threads' \in [Threads -> ThreadStates] /\ threads'[t] = thread
        /\ \A u \in Threads \ {t} : threads'[u] = threads[u] /\ Same(u, {})
    BY <2>1, <2>2, OwnStep
  <2>5. Moves(t, {})
    BY <1>2, <2>3, <2>4, NobodyAssumption DEF Moves, TaskOK, OneEmbeddingModel, Uploading
  <2>6. \A pcs \in Phases : Own(t, pcs)' = Own(t, pcs)
    BY <1>2, <2>3, <2>4 DEF Own, Uploading
  <2>7. OutOfReach' = OutOfReach => RetrievalOK(t)'
    BY <1>2, <2>3, <2>4
       DEF RetrievalsOK, RetrievalOK, Retrieving, Marked, Explained, Asked
  <2>8. Quiet(t)
    BY <1>2, <2>3, <2>4, <2>5, <2>6, <2>7 DEF Quiet, InCollection
  <2> QED  BY <2>8, QuietInv
<1> QED  BY <1>1, <1>2 DEF ThreadStates

LEMMA UpsertInv == ASSUME StoreInv, NEW t \in Threads, Upsert(t) PROVE StoreInv'
<1> USE DEF StoreInv, TypeOK, Upsert
<1>1. /\ UploadReturns(t) /\ Uploading(t) /\ threads[t].pc \in Written /\ threads[t].mutex = "out"
      /\ lock' = IF threads[t].mutex = "in" THEN Nobody ELSE lock
      /\ UNCHANGED <<disk, handle, models, spoilt, cutoff, failed, installed>>
      /\ uploaded' = uploaded \cup {Document(t)} /\ dropped' = dropped \ {Document(t)}
      /\ threads[t].kind \in Kinds \cup {"unset"} /\ threads[t].pc \notin Resetting
      /\ collection.exists
  BY DEF Uploading, UploadReturns, TasksOK, TaskOK, ThreadStates, Usable
<1>2. /\ Moves(t, {}) /\ TasksOK' /\ OneEmbeddingModel' /\ ChunksOK' /\ FilesOK'
      /\ RetrievalOK(t)' /\ ~InCollection(t)' /\ threads'[t].pc = "ready"
      /\ \A pcs : Own(t, pcs) = IF threads[t].pc \in pcs THEN {Document(t)} ELSE {}
      /\ \A pcs : Own(t, pcs)' = {}
      /\ \A pcs : UploadsAt(pcs) = Elsewhere(t, pcs) \cup Own(t, pcs)
      /\ \A pcs : UploadsAt(pcs)' = Elsewhere(t, pcs)
      /\ Document(t) \in Documents
  BY <1>1, ReturnFacts
<1>3. /\ collection' \in [number : Nat, exists : BOOLEAN, kind : Kinds \cup {"unset"},
                          documents : SUBSET Documents]
      /\ collection'.number = collection.number /\ collection'.exists = collection.exists
      /\ collection'.documents = collection.documents \cup {Document(t)}
  BY <1>1, <1>2
<1>4. TypeOK'
  BY <1>1, <1>2, <1>3 DEF Moves
<1>5. HandlesOK'
  <2>1. UploadsAt(Resetting)' = UploadsAt(Resetting)
    BY <1>1, <1>2
  <2>2. \A u \in Threads : threads'[u].pc = "assign" => threads[u].pc = "assign" /\ threads'[u].handle = threads[u].handle
    BY <1>2 DEF Moves, Same
  <2>3. \A u \in Threads : InCollection(u)' => installed
    BY <1>2 DEF HandlesOK, InCollection, Moves, Same
  <2> QED  BY <1>1, <1>3, <2>1, <2>2, <2>3 DEF HandlesOK, Usable
<1>6. VectorsOK'
  <2>1. UploadsAt(Vectorless) \subseteq UploadsAt(Vectorless)' \cup {Document(t)}
    BY <1>2
  <2> HIDE DEF Vectorless
  <2> QED  BY <1>1, <1>3, <2>1 DEF VectorsOK
<1>7. OutOfReach' \subseteq OutOfReach
  <2>1. \A pcs : UploadsAt(pcs)' \subseteq UploadsAt(pcs)
    BY <1>2
  <2> HIDE DEF Vectorless, Resetting
  <2> QED  BY <1>1, <2>1 DEF OutOfReach
<1>8. RetrievalsOK'
  <2>1. \A u \in Threads : Usable(u) /\ threads'[u].handle = threads[u].handle => Usable(u)'
    BY <1>3 DEF Usable
  <2> QED  BY <1>1, <1>2, <1>7, <2>1, RetrievalsKept
<1> QED  BY <1>2, <1>4, <1>5, <1>6, <1>8

----
(* ... and the others. *)

LEMMA BeginInv == ASSUME StoreInv, NEW t \in Threads, Begin(t) PROVE StoreInv'
<1> USE DEF StoreInv, TypeOK, Begin
<1>1. requests' \in 0 .. MAX_REQUESTS
  <2>1. requests \in 0 .. MAX_REQUESTS /\ requests < MAX_REQUESTS /\ requests' = requests + 1
    OBVIOUS
  <2> QED  BY ONLY <2>1, BoundsAssumption
<1>2. CASE /\ threads' = [threads EXCEPT ![t] = [Idle EXCEPT !.pc = "ready", !.task = "retrieve"]]
           /\ UNCHANGED disk
  <2> DEFINE thread == [Idle EXCEPT !.pc = "ready", !.task = "retrieve"]
  <2>1. thread \in ThreadStates
    <3>1. "ready" \in Pcs
      BY DEF Pcs
    <3> QED  BY ONLY <3>1, IdleFacts DEF ThreadStates
  <2>2. /\ thread.pc = "ready" /\ thread.task = "retrieve" /\ thread.mutex = "out"
        /\ thread.kind = "unset" /\ thread.outcome = "none"
    BY DEF Idle
  <2>3. threads' = [threads EXCEPT ![t] = thread]
    BY <1>2
  <2> HIDE DEF thread
  <2>4. /\ threads' \in [Threads -> ThreadStates] /\ threads'[t] = thread
        /\ \A u \in Threads \ {t} : threads'[u] = threads[u] /\ Same(u, {})
    BY <2>1, <2>3, OwnStep
  <2>5. Moves(t, {})
    BY <1>1, <2>2, <2>4 DEF Moves, TaskOK, OneEmbeddingModel, Uploading
  <2>6. Quiet(t)
    BY <1>2, <2>2, <2>4, <2>5
       DEF Quiet, Own, Uploading, InCollection, RetrievalOK, Retrieving, Explained
  <2> QED  BY <2>6, QuietInv
<1>3. ASSUME NEW upload \in Uploads,
             threads' = [threads EXCEPT ![t] =
                [Idle EXCEPT !.pc = "unlink", !.document = upload[1], !.name = upload[2],
                             !.stale = disk[upload[1]].files]],
             disk' = [disk EXCEPT ![upload[1]].made = TRUE]
      PROVE  StoreInv'
  <2> DEFINE thread == [Idle EXCEPT !.pc = "unlink", !.document = upload[1], !.name = upload[2],
                                    !.stale = disk[upload[1]].files]
  <2>1. upload[1] \in Documents /\ upload[2] \in Names /\ disk[upload[1]].files \in SUBSET Names
    BY UploadsAssumption
  <2>2. thread \in ThreadStates
    <3>1. "unlink" \in Pcs
      BY DEF Pcs
    <3> QED  BY ONLY <2>1, <3>1, IdleFacts DEF ThreadStates
  <2>3. /\ thread.pc = "unlink" /\ thread.task = "upload" /\ thread.mutex = "out"
        /\ thread.kind = "unset" /\ thread.outcome = "none"
        /\ thread.document = upload[1] /\ thread.name = upload[2]
    BY DEF Idle
  <2>4. threads' = [threads EXCEPT ![t] = thread]
    BY <1>3
  <2> HIDE DEF thread
  <2>5. /\ threads' \in [Threads -> ThreadStates] /\ threads'[t] = thread
        /\ \A u \in Threads \ {t} : threads'[u] = threads[u] /\ Same(u, {})
    BY <2>2, <2>4, OwnStep
  <2>6. Moves(t, {})
    BY <1>1, <2>1, <2>3, <2>5 DEF Moves, TaskOK, OneEmbeddingModel, Uploading
  <2>7. TypeOK'
    <3>1. disk' \in [Documents -> [made : BOOLEAN, files : SUBSET Names, blank : SUBSET Names,
                                   chunks : {"none", "torn", "whole"}]]
      <4>1. disk \in [Documents -> [made : BOOLEAN, files : SUBSET Names,
                                    blank : SUBSET Names, chunks : {"none", "torn", "whole"}]]
        OBVIOUS
      <4> DEFINE made == [disk[upload[1]] EXCEPT !.made = TRUE]
      <4>2. made \in [made : BOOLEAN, files : SUBSET Names,
                      blank : SUBSET Names, chunks : {"none", "torn", "whole"}]
        BY ONLY <2>1, <4>1
      <4>3. disk' = [disk EXCEPT ![upload[1]] = made]
        BY ONLY <1>3
      <4> HIDE DEF made
      <4> QED  BY ONLY <2>1, <4>1, <4>2, <4>3
    <3> QED  BY <2>6, <3>1 DEF Moves
  <2>8. /\ \A pcs : Own(t, pcs) = {}
        /\ \A pcs : Own(t, pcs)' = IF "unlink" \in pcs THEN {upload[1]} ELSE {}
    BY <2>3, <2>5 DEF Own, Uploading
  <2>9. \A pcs : UploadsAt(pcs)' = UploadsAt(pcs) \cup
                                     (IF "unlink" \in pcs THEN {upload[1]} ELSE {})
    <3>1. /\ \A pcs : UploadsAt(pcs) = Elsewhere(t, pcs) \cup Own(t, pcs)
          /\ \A pcs : UploadsAt(pcs)' = Elsewhere(t, pcs) \cup Own(t, pcs)'
      BY <2>6, MoveFacts
    <3> QED  BY ONLY <2>8, <3>1
  <2>10. /\ \A d \in Documents : /\ disk'[d].files = disk[d].files
                                 /\ disk'[d].blank = disk[d].blank
                                 /\ disk'[d].chunks = disk[d].chunks
                                 /\ disk[d].made => disk'[d].made
         /\ disk'[upload[1]].made
    BY ONLY <1>3, <2>1, TypeOK
  <2>11. /\ UploadsAt(Written)' = UploadsAt(Written)
         /\ UploadsAt({"write_chunks"})' = UploadsAt({"write_chunks"})
         /\ UploadsAt(Vectorless)' = UploadsAt(Vectorless)
         /\ UploadsAt(Resetting)' = UploadsAt(Resetting)
         /\ UploadsAt({"write_chunks"} \cup Vectorless)' =
              UploadsAt({"write_chunks"} \cup Vectorless)
         /\ UploadsAt(Pcs)' \subseteq UploadsAt(Pcs) \cup {upload[1]}
         /\ UploadsAt(Pcs) \subseteq UploadsAt(Pcs)'
         /\ UploadsAt(Pcs \ {"unlink"})' = UploadsAt(Pcs \ {"unlink"})
         /\ UploadsAt({"unlink"}) \subseteq UploadsAt({"unlink"})'
    BY <2>9
  <2>12. ChunksOK'
    <3>1. UNCHANGED <<uploaded, failed, cutoff>> /\ uploaded \subseteq Documents
      OBVIOUS
    <3>2. \A pcs : UploadsAt(pcs) \subseteq Documents
      BY ThreadDocuments
    <3> QED  BY ONLY <2>1, <2>10, <2>11, <3>1, <3>2, ChunksOK DEF ChunksOK
  <2>13. FilesOK'
    <3> SUFFICES ASSUME NEW d \in Documents \ failed PROVE FileOK(d)'
      BY DEF FilesOK
    <3>1. FileOK(d)
      BY DEF FilesOK
    <3>2. \A name \in disk[d].blank :
            \E v \in Threads : /\ threads'[v].pc = "write" /\ Document(v)' = d
                               /\ threads'[v].name = name
      <4>1. threads[t].pc # "write"
        OBVIOUS
      <4> QED  BY ONLY <2>5, <3>1, <4>1 DEF FileOK
    <3>3. UNCHANGED uploaded
      OBVIOUS
    <3> QED  BY ONLY <2>10, <2>11, <3>1, <3>2, <3>3, d \in Documents DEF FileOK
  <2>14. HandlesOK'
    BY <2>3, <2>5, <2>11 DEF HandlesOK, InCollection, Usable
  <2>15. VectorsOK'
    BY <2>11 DEF VectorsOK
  <2>16. OutOfReach' = OutOfReach
    <3> HIDE DEF Vectorless, Resetting
    <3> QED  BY <2>11 DEF OutOfReach
  <2>17. RetrievalOK(t)'
    BY <2>3, <2>5 DEF RetrievalOK, Retrieving, Explained
  <2>18. RetrievalsOK'
    BY <2>6, <2>16, <2>17, RetrievalsKept DEF Usable
  <2> QED  BY <2>6, <2>7, <2>12, <2>13, <2>14, <2>15, <2>18, MoveFacts
<1> QED  BY <1>2, <1>3

LEMMA RestartInv == ASSUME StoreInv, Restart PROVE StoreInv'
<1> USE DEF StoreInv, TypeOK, Restart
<1>1. threads' \in [Threads -> ThreadStates] /\ \A t \in Threads : threads'[t] = Idle
  BY IdleFacts
<1>2. \A pcs : UploadsAt(pcs) \subseteq Documents
  BY ThreadDocuments
<1>3. restarts' \in 0 .. MAX_RESTARTS
  BY BoundsAssumption
<1>4. TypeOK'
  <2>1. models' \in [{"embed", "rerank"} -> Kinds \cup {"unset"}]
    OBVIOUS
  <2>2. \A t \in Threads : threads'[t].mutex # "in"
    BY <1>1 DEF Idle
  <2>3. handle' \in Nat /\ lock' \in Threads \cup {Nobody} /\ spoilt' \in BOOLEAN
        /\ failed' \subseteq Documents /\ cutoff' \subseteq Documents
        /\ dropped' \subseteq Documents
    BY <1>2
  <2> QED  BY <1>1, <1>3, <2>1, <2>2, <2>3
<1>5. TasksOK' /\ OneEmbeddingModel'
  BY <1>1 DEF TasksOK, TaskOK, Uploading, OneEmbeddingModel, Idle
<1>6. \A pcs : UploadsAt(pcs)' = {}
  BY <1>1 DEF UploadsAt, Uploading, Idle
<1>7. ChunksOK'
  <2>1. UploadsAt({"write_chunks"}) \subseteq UploadsAt(Pcs)
    BY DEF UploadsAt, Pcs
  <2>2. /\ \A d \in Documents : disk'[d].chunks = "torn" => d \in cutoff'
        /\ \A d \in uploaded : disk'[d].chunks # "none" /\ disk'[d].made
    BY DEF ChunksOK
  <2> QED  BY <1>6, <2>1, <2>2 DEF ChunksOK
<1>8. FilesOK'
  <2> SUFFICES ASSUME NEW d \in Documents \ failed' PROVE FileOK(d)'
    BY DEF FilesOK
  <2>1. FileOK(d) /\ d \notin UploadsAt(Pcs)
    BY DEF FilesOK
  <2>2. disk[d].blank = {}
    <3> SUFFICES ASSUME NEW t \in Threads, threads[t].pc = "write", Document(t) = d PROVE FALSE
      BY <2>1 DEF FileOK
    <3> QED  BY <2>1 DEF UploadsAt, Uploading, TasksOK, TaskOK, Pcs
  <2>3. /\ UploadsAt(Pcs \ {"unlink"}) \subseteq UploadsAt(Pcs)
        /\ UploadsAt({"unlink"}) \subseteq UploadsAt(Pcs)
    BY DEF UploadsAt, Pcs
  <2> QED  BY <1>6, <2>1, <2>2, <2>3 DEF FileOK
<1>9. HandlesOK'
  BY <1>1 DEF HandlesOK, InCollection, Idle
<1>10. VectorsOK'
  BY <1>6 DEF VectorsOK
<1>11. RetrievalsOK'
  BY <1>1 DEF RetrievalsOK, RetrievalOK, Retrieving, Explained, Idle
<1> QED  BY <1>4, <1>5, <1>7, <1>8, <1>9, <1>10, <1>11

LEMMA InitInv == Init => StoreInv
<1> SUFFICES ASSUME Init PROVE StoreInv
  OBVIOUS
<1> USE DEF Init, NoFiles
<1>1. TypeOK
  <2>1. models \in [{"embed", "rerank"} -> Kinds \cup {"unset"}]
    OBVIOUS
  <2>2. threads \in [Threads -> ThreadStates] /\ \A t \in Threads : threads[t].mutex # "in"
    BY IdleFacts DEF Idle
  <2>3. /\ disk \in [Documents -> [made : BOOLEAN, files : SUBSET Names, blank : SUBSET Names,
                                   chunks : {"none", "torn", "whole"}]]
        /\ collection \in [number : Nat, exists : BOOLEAN, kind : Kinds \cup {"unset"},
                           documents : SUBSET Documents]
    OBVIOUS
  <2>4. requests \in 0 .. MAX_REQUESTS /\ restarts \in 0 .. MAX_RESTARTS
    BY BoundsAssumption
  <2> QED  BY <2>1, <2>2, <2>3, <2>4 DEF TypeOK
<1>2. TasksOK /\ OneEmbeddingModel
  BY DEF TasksOK, TaskOK, Uploading, OneEmbeddingModel, Idle
<1>3. \A pcs : UploadsAt(pcs) = {}
  BY DEF UploadsAt, Uploading, Idle
<1>4. ChunksOK /\ FilesOK
  BY <1>3 DEF ChunksOK, FilesOK, FileOK
<1>5. HandlesOK /\ VectorsOK
  BY DEF HandlesOK, VectorsOK, InCollection, Idle
<1>6. RetrievalsOK
  BY DEF RetrievalsOK, RetrievalOK, Retrieving, Explained, Idle
<1> QED  BY <1>1, <1>2, <1>4, <1>5, <1>6 DEF StoreInv

LEMMA NextInv == StoreInv /\ [Next]_vars => StoreInv'
<1> SUFFICES ASSUME StoreInv, [Next]_vars PROVE StoreInv'
  OBVIOUS
<1>1. ASSUME NEW t \in Threads, Step(t) PROVE StoreInv'
  BY <1>1, UploadFailuresInv, UnlinkStaleFileInv, TruncateFileInv, WriteFileInv,
     TruncateChunksInv, WriteChunksInv, OpenCollectionInv, NoChromaInv,
     DeleteVectorsInv, UpsertInv, DeleteCollectionInv, RecreateCollectionInv,
     ExtractTextInv, WantLockInv, TakeLockInv, MadeMeanwhileInv, LoadModelInv,
     HaveCollectionInv, EmbedInv, UpsertMismatchesInv, AssignCollectionInv,
     RereadCollectionInv, RetrieveInv, QueryCollectionInv, QueryMismatchesInv, QueryRaisesInv,
     ListDirectoriesInv, ReadChunksInv, RetrieveLocallyInv, DecodingRaisesInv, RerankInv,
     EndRequestInv DEF Step
<1>2. ASSUME NEW t \in Threads, Failure(t) PROVE StoreInv'
  BY <1>2, UploadFailuresInv, RetrievalFailsInv, ReadFailsInv DEF Failure
<1>3. CASE UNCHANGED vars
  <2> USE <1>3 DEF vars, StoreInv
  <2>1. TypeOK' /\ TasksOK' /\ OneEmbeddingModel'
    BY DEF TypeOK, TasksOK, TaskOK, OneEmbeddingModel, Uploading
  <2>2. \A pcs : UploadsAt(pcs)' = UploadsAt(pcs)
    BY DEF UploadsAt, Uploading
  <2>3. OutOfReach' = OutOfReach
    BY <2>2 DEF OutOfReach
  <2>4. ChunksOK' /\ FilesOK'
    <3>1. ChunksOK'
      BY <2>2 DEF ChunksOK
    <3>2. ASSUME NEW d \in Documents \ failed, FileOK(d) PROVE FileOK(d)'
      BY <2>2, <3>2 DEF FileOK
    <3> QED  BY <3>1, <3>2 DEF FilesOK
  <2>5. HandlesOK' /\ VectorsOK'
    BY <2>2 DEF HandlesOK, VectorsOK, InCollection, Usable
  <2>6. RetrievalsOK'
    BY <2>3 DEF RetrievalsOK, RetrievalOK, Retrieving, Marked, QueryOK, Usable, ReadOK,
                Explained, Asked
  <2> QED  BY <2>1, <2>4, <2>5, <2>6
<1> QED  BY <1>1, <1>2, <1>3, BeginInv, RestartInv DEF Next, Rest

LEMMA StoreInvariant == Spec => []StoreInv
BY InitInv, NextInv, PTL DEF Spec

----
(* Whatever the number of threads, the states are the ones TypeOK describes; *)
(* above all, the thread inside a lazily made property of rag_service.py is  *)
(* the holder of _lock, so that no two make a model or a collection at once. *)
THEOREM OneThreadMakes == Spec => []TypeOK
BY StoreInvariant, PTL DEF StoreInv

(* All embeddings of a process come from one model (the property             *)
(* embedding_model of rag_service.py), however many threads race to make it. *)
THEOREM OneModelEmbeds == Spec => []OneEmbeddingModel
BY StoreInvariant, PTL DEF StoreInv

(* No upload, of whichever thread and in whichever order, takes away the     *)
(* chunks.json that an earlier upload of the document has written; it is     *)
(* unreadable only under a writer, or where the last writing was cut short.  *)
THEOREM UploadedChunksStay == Spec => []ChunksKept
<1>1. StoreInv => ChunksKept
  <2> SUFFICES ASSUME StoreInv, NEW d \in uploaded, disk[d].chunks # "whole"
               PROVE  /\ disk[d].chunks = "torn"
                      /\ d \in cutoff \cup UploadsAt({"write_chunks"})
    BY DEF ChunksKept
  <2>1. d \in Documents /\ disk[d].chunks = "torn"
    BY DEF StoreInv, ChunksOK, TypeOK
  <2> QED  BY <2>1 DEF StoreInv, ChunksOK
<1> QED  BY <1>1, StoreInvariant, PTL

(* With no upload under way, the directories hold the documents that were    *)
(* uploaded, but for those with an upload that failed, and the collection    *)
(* holds them, but for those whose vectors were lost: uploads of one         *)
(* document by any number of threads leave neither store behind the other.   *)
THEOREM StoresAgreeAtRest == Spec => []StoresAgree
<1>1. StoreInv => StoresAgree
  <2> SUFFICES ASSUME StoreInv, \A t \in Threads : ~Uploading(t)
               PROVE  /\ \A d \in Documents \ failed :
                           /\ disk[d].chunks = IF d \in uploaded THEN "whole" ELSE "none"
                           /\ disk[d].files # {} <=> d \in uploaded
                           /\ disk[d].blank = {}
                      /\ installed =>
                           /\ uploaded \ dropped \subseteq collection.documents
                           /\ collection.documents \subseteq uploaded \cup failed
    BY DEF StoresAgree
  <2>1. \A pcs : UploadsAt(pcs) = {}
    BY DEF UploadsAt
  <2>2. ASSUME NEW d \in Documents \ failed
        PROVE  /\ disk[d].chunks = IF d \in uploaded THEN "whole" ELSE "none"
               /\ disk[d].files # {} <=> d \in uploaded
               /\ disk[d].blank = {}
    <3>1. FileOK(d)
      BY DEF StoreInv, FilesOK
    <3>2. disk[d].blank = {}
      <4> SUFFICES ASSUME NEW t \in Threads, threads[t].pc = "write" PROVE FALSE
        BY <3>1 DEF FileOK
      <4> QED  BY DEF StoreInv, TasksOK, TaskOK, Uploading
    <3>3. disk[d].files # {} <=> d \in uploaded
      BY <3>1, <2>1 DEF FileOK
    <3>4. d \notin cutoff
      BY DEF StoreInv, ChunksOK, TypeOK
    <3>5. disk[d].chunks = IF d \in uploaded THEN "whole" ELSE "none"
      BY <3>1, <2>1, <3>4 DEF FileOK, StoreInv, ChunksOK, TypeOK
    <3> QED  BY <3>2, <3>3, <3>5
  <2>3. installed => /\ uploaded \ dropped \subseteq collection.documents
                     /\ collection.documents \subseteq uploaded \cup failed
    BY <2>1 DEF StoreInv, VectorsOK
  <2> QED  BY <2>2, <2>3
<1> QED  BY <1>1, StoreInvariant, PTL

(* Whatever the number of threads, documents and queries, a retrieval        *)
(* (retrieve_with_mode of rag_service.py) misses documents that were         *)
(* uploaded before it began only if all that it asked for were out of its    *)
(* reach at some time since, and raises only if one was, or the handle was   *)
(* spoilt.                                                                   *)
THEOREM MissesAreExplained == Spec => []MissExplained
<1>1. StoreInv => MissExplained
  BY DEF StoreInv, RetrievalsOK, RetrievalOK, Explained, MissExplained
<1> QED  BY <1>1, StoreInvariant, PTL

----
(* The steps that a request has left.  A call is worth four of them, since   *)
(* before the next one a missing value may have to be made, which takes      *)
(* three; a value, once made, is not missing again while the process lives.  *)

Calls(t) == CallsLeft[threads[t].task][threads[t].pc]

(* What a thread counts, and what it has made, from one step to the next. *)
CountsOK(t) ==
    /\ threads[t].task = "upload" => threads[t].retrievals = 0
    /\ threads[t].pc # "read" => threads[t].queries = 0 /\ threads[t].unread = {}
    /\ threads[t].pc = "assign" => threads[t].handle # 0

NumberOK == collection.exists => collection.number # 0

(* What is made stays, and what belongs to other threads. *)
LeavesOthers(t) ==
    /\ \A u \in Threads \ {t} : State(u)' = State(u)
    /\ handle # 0 => handle' # 0
    /\ \A model \in {"embed", "rerank"} : models[model] # "unset" => models'[model] # "unset"

LEMMA CallsFacts ==
    ASSUME NEW t \in Threads, StoreInv, threads[t].pc # "idle"
    PROVE  Calls(t) \in 0 .. 14
<1>1. threads[t] \in ThreadStates /\ TaskOK(t)
  BY DEF StoreInv, TypeOK, TasksOK
<1>2. CASE threads[t].task = "upload"
  <2>1. threads[t].pc \in {"unlink", "write", "extract", "truncate_chunks", "write_chunks",
             "collection", "embed", "delete", "upsert", "delete_collection", "recreate",
             "assign", "reread", "upsert_again"}
    BY <1>1, <1>2 DEF TaskOK, ThreadStates, Pcs
  <2> QED  BY <1>2, <2>1 DEF Calls, CallsLeft
<1>3. CASE threads[t].task = "retrieve"
  <2>1. threads[t].pc \in {"embed", "collection", "query", "local", "read", "rerank", "ready"}
    BY <1>1, <1>3 DEF TaskOK, ThreadStates, Pcs
  <2> QED  BY <1>3, <2>1 DEF Calls, CallsLeft
<1> QED  BY <1>1, <1>2, <1>3 DEF ThreadStates

LEMMA MadeFacts ==
    ASSUME NEW t \in Threads, StoreInv
    PROVE  MakingLeft(t) \in 0 .. 3
BY DEF StoreInv, TypeOK, MakingLeft, ThreadStates

LEMMA SetFacts ==
    ASSUME NEW t \in Threads, StoreInv
    PROVE  /\ Cardinality(Documents) \in Nat /\ QuerySteps \in Nat /\ QuerySteps > 0
           /\ RetrievalSteps \in Nat
           /\ IsFiniteSet(threads[t].unread) /\ Cardinality(threads[t].unread) \in Nat
           /\ Cardinality(threads[t].unread) <= Cardinality(Documents)
           /\ IsFiniteSet(threads[t].stale) /\ Cardinality(threads[t].stale) \in Nat
           /\ (MAX_RETRIEVALS - threads[t].retrievals) * RetrievalSteps \in Nat
           /\ (MAX_QUERIES - threads[t].queries) * QuerySteps \in Nat
           /\ ReadingLeft(t) \in Nat
<1>1. /\ threads[t].unread \subseteq Documents /\ threads[t].stale \subseteq Names
      /\ threads[t].retrievals \in 0 .. MAX_RETRIEVALS /\ threads[t].queries \in 0 .. MAX_QUERIES
  BY DEF StoreInv, TypeOK, ThreadStates
<1>2. /\ Cardinality(Documents) \in Nat
      /\ IsFiniteSet(threads[t].unread) /\ Cardinality(threads[t].unread) \in Nat
      /\ Cardinality(threads[t].unread) <= Cardinality(Documents)
      /\ IsFiniteSet(threads[t].stale) /\ Cardinality(threads[t].stale) \in Nat
  BY <1>1, FS_Subset, FS_CardinalityType, FiniteAssumption
<1>3. QuerySteps \in Nat /\ QuerySteps > 0
  BY <1>2 DEF QuerySteps
<1>4. \A a, b \in Nat : a * b \in Nat
  OBVIOUS
<1>5. RetrievalSteps \in Nat
  BY <1>3, <1>4, BoundsAssumption DEF RetrievalSteps
<1>6. /\ MAX_RETRIEVALS - threads[t].retrievals \in Nat
      /\ MAX_QUERIES - threads[t].queries \in Nat
  BY <1>1, BoundsAssumption
<1>7. /\ (MAX_RETRIEVALS - threads[t].retrievals) * RetrievalSteps \in Nat
      /\ (MAX_QUERIES - threads[t].queries) * QuerySteps \in Nat
  BY <1>3, <1>4, <1>5, <1>6
<1>8. ReadingLeft(t) \in Nat
  BY <1>2, <1>7 DEF ReadingLeft
<1> QED  BY <1>2, <1>3, <1>5, <1>7, <1>8

(* The numbers that StepsLeft is made of. *)
SizesOK(t) ==
    /\ threads[t].pc # "idle" => Calls(t) \in 0 .. 14
    /\ MakingLeft(t) \in 0 .. 3 /\ ReadingLeft(t) \in Nat
    /\ Cardinality(threads[t].stale) \in Nat
    /\ (MAX_RETRIEVALS - threads[t].retrievals) * RetrievalSteps \in Nat

LEMMA Sizes == StoreInv => \A t \in Threads : SizesOK(t)
BY CallsFacts, MadeFacts, SetFacts DEF SizesOK

LEMMA SizesNext == StoreInv' => (\A t \in Threads : SizesOK(t))'
BY Sizes, PTL

LEMMA IdleLeft ==
    ASSUME NEW t \in Threads, StoreInv, threads[t].pc # "idle", threads'[t].pc = "idle"
    PROVE  StepsLeft(t)' <= StepsLeft(t) - 1
<1>1. StepsLeft(t) = 1 + (MAX_RETRIEVALS - threads[t].retrievals) * RetrievalSteps
                               + 4 * Calls(t) + MakingLeft(t) + ReadingLeft(t)
                               + Cardinality(threads[t].stale)
  BY DEF StepsLeft, Calls
<1>2. StepsLeft(t)' = 0
  BY DEF StepsLeft
<1>3. SizesOK(t)
  BY Sizes
<1> QED  BY ONLY <1>1, <1>2, <1>3, threads[t].pc # "idle" DEF SizesOK

(* A step of a thread that goes on to a later call. *)
LEMMA FewerCalls ==
    ASSUME NEW t \in Threads, StoreInv, StoreInv', threads[t].pc # "idle", threads'[t].pc # "idle",
           threads'[t].retrievals = threads[t].retrievals,
           threads'[t].stale \subseteq threads[t].stale,
           Calls(t)' < Calls(t),
           \/ ~Retrieving(t)'
           \/ /\ Retrieving(t) /\ threads'[t].queries = threads[t].queries
              /\ threads'[t].unread = threads[t].unread
    PROVE  StepsLeft(t)' <= StepsLeft(t) - 1
<1>1. ReadingLeft(t)' <= ReadingLeft(t)
  BY SetFacts DEF ReadingLeft
<1>2. SizesOK(t) /\ SizesOK(t)'
  BY Sizes, SizesNext
<1>3. /\ StepsLeft(t) = 1 + (MAX_RETRIEVALS - threads[t].retrievals) * RetrievalSteps
                               + 4 * Calls(t) + MakingLeft(t) + ReadingLeft(t)
                               + Cardinality(threads[t].stale)
      /\ StepsLeft(t)' = 1 + (MAX_RETRIEVALS - threads[t].retrievals) * RetrievalSteps
                               + 4 * Calls(t)' + MakingLeft(t)' + ReadingLeft(t)'
                               + Cardinality(threads[t].stale)'
  BY DEF StepsLeft, Calls
<1>4. Cardinality(threads[t].stale)' <= Cardinality(threads[t].stale)
  BY SetFacts, FS_Subset
<1> QED  BY ONLY <1>1, <1>2, <1>3, <1>4, Calls(t)' < Calls(t), threads[t].pc # "idle",
                 threads'[t].pc # "idle"
         DEF SizesOK

(* One that makes a value, or waits for it. *)
LEMMA LessToMake ==
    ASSUME NEW t \in Threads, StoreInv, StoreInv', threads[t].pc # "idle",
           threads'[t] = [threads[t] EXCEPT !.mutex = threads'[t].mutex],
           MakingLeft(t)' < MakingLeft(t)
    PROVE  StepsLeft(t)' <= StepsLeft(t) - 1
<1>1. threads[t] \in ThreadStates
  BY DEF StoreInv, TypeOK
<1>2. /\ threads'[t].pc = threads[t].pc /\ threads'[t].task = threads[t].task
      /\ threads'[t].retrievals = threads[t].retrievals /\ threads'[t].stale = threads[t].stale
      /\ threads'[t].queries = threads[t].queries /\ threads'[t].unread = threads[t].unread
  BY <1>1 DEF ThreadStates
<1>3. SizesOK(t) /\ SizesOK(t)'
  BY Sizes, SizesNext
<1>4. Calls(t)' = Calls(t) /\ ReadingLeft(t)' = ReadingLeft(t)
  BY <1>2 DEF Calls, ReadingLeft, Retrieving
<1>5. /\ StepsLeft(t) = 1 + (MAX_RETRIEVALS - threads[t].retrievals) * RetrievalSteps
                               + 4 * Calls(t) + MakingLeft(t) + ReadingLeft(t)
                               + Cardinality(threads[t].stale)
      /\ StepsLeft(t)' = 1 + (MAX_RETRIEVALS - threads[t].retrievals) * RetrievalSteps
                               + 4 * Calls(t)' + MakingLeft(t)' + ReadingLeft(t)'
                               + Cardinality(threads[t].stale)
  BY <1>2 DEF StepsLeft, Calls
<1> QED  BY ONLY <1>3, <1>4, <1>5, MakingLeft(t)' < MakingLeft(t), threads[t].pc # "idle"
         DEF SizesOK

(* Others leave it at least as it is. *)
LEMMA OthersLeft ==
    ASSUME NEW t \in Threads, StoreInv, StoreInv', State(t)' = State(t),
           handle # 0 => handle' # 0,
           \A model \in {"embed", "rerank"} : models[model] # "unset" => models'[model] # "unset"
    PROVE  StepsLeft(t)' <= StepsLeft(t)
<1>1. threads[t] \in ThreadStates /\ threads'[t] \in ThreadStates
  BY DEF StoreInv, TypeOK
<1>2. /\ threads'[t].pc = threads[t].pc /\ threads'[t].task = threads[t].task
      /\ threads'[t].retrievals = threads[t].retrievals /\ threads'[t].stale = threads[t].stale
      /\ threads'[t].queries = threads[t].queries /\ threads'[t].unread = threads[t].unread
      /\ threads'[t].mutex = threads[t].mutex
  BY <1>1 DEF ThreadStates, State
<1>3. SizesOK(t) /\ SizesOK(t)'
  BY Sizes, SizesNext
<1>4. Calls(t)' = Calls(t) /\ ReadingLeft(t)' = ReadingLeft(t)
  BY <1>2 DEF Calls, ReadingLeft, Retrieving
<1>5. MakingLeft(t)' <= MakingLeft(t)
  BY <1>2 DEF MakingLeft, Missing
<1> QED  BY <1>2, <1>3, <1>4, <1>5 DEF SizesOK, StepsLeft, Calls

(* What a step of thread t does to the numbers. *)
Progress(t) ==
    /\ LeavesOthers(t) /\ NumberOK' /\ CountsOK(t)'
    /\ threads[t].pc # "idle" => StepsLeft(t)' <= StepsLeft(t) - 1

(* Its step to a later call of upload, or of a retrieval before it reads. *)
LEMMA AdvanceProgress ==
    ASSUME NEW t \in Threads, StoreInv, StoreInv', CountsOK(t),
           threads[t].pc \notin {"idle", "read"}, threads'[t].pc # "idle",
           threads'[t].retrievals = threads[t].retrievals, threads'[t].stale = threads[t].stale,
           threads'[t].queries = threads[t].queries, threads'[t].unread = threads[t].unread,
           threads'[t].task = threads[t].task,
           Calls(t)' < Calls(t), Retrieving(t)' => Retrieving(t),
           threads'[t].pc = "assign" => threads'[t].handle # 0
    PROVE  /\ CountsOK(t)'
           /\ StepsLeft(t)' <= StepsLeft(t) - 1
BY FewerCalls DEF CountsOK

LEMMA GotoProgress ==
    ASSUME NEW t \in Threads, StoreInv, StoreInv', CountsOK(t), NumberOK,
           \/ TruncateFile(t) \/ WriteFile(t) \/ ExtractText(t) \/ WriteChunks(t)
           \/ UpsertMismatches(t) \/ QueryMismatches(t) \/ Rerank(t)
    PROVE  Progress(t)
<1>0. threads \in [Threads -> ThreadStates] /\ threads[t] \in ThreadStates /\ TaskOK(t)
  BY DEF StoreInv, TypeOK, TasksOK
<1>1. PICK pc \in Pcs :
        /\ Goto(t, pc) /\ threads[t].mutex = "out"
        /\ <<threads[t].pc, pc>> \in {<<"unlink", "write">>, <<"write", "extract">>,
              <<"extract", "truncate_chunks">>, <<"write_chunks", "collection">>,
              <<"upsert", "delete_collection">>, <<"query", "local">>, <<"rerank", "ready">>}
        /\ UNCHANGED <<collection, handle, models>>
  BY DEF TruncateFile, WriteFile, ExtractText, WriteChunks, UpsertMismatches,
         QueryMismatches, Rerank, ThreadOnly, DiskOnly, ServiceKept, Pcs
<1>2. threads' = [threads EXCEPT ![t] = [threads[t] EXCEPT !.pc = pc]]
  BY <1>0, <1>1 DEF Goto
<1>3. /\ threads'[t] = [threads[t] EXCEPT !.pc = pc]
      /\ \A u \in Threads \ {t} : threads'[u] = threads[u]
  BY <1>0, <1>2
<1>4. /\ threads'[t].pc = pc /\ threads'[t].task = threads[t].task
      /\ threads'[t].retrievals = threads[t].retrievals /\ threads'[t].stale = threads[t].stale
      /\ threads'[t].queries = threads[t].queries /\ threads'[t].unread = threads[t].unread
  BY <1>0, <1>3 DEF ThreadStates
<1>5. Calls(t)' < Calls(t) /\ (Retrieving(t)' => Retrieving(t))
  BY <1>0, <1>1, <1>4 DEF TaskOK, Calls, CallsLeft, Retrieving
<1>6. LeavesOthers(t) /\ NumberOK'
  BY <1>1, <1>3 DEF LeavesOthers, State, NumberOK
<1> QED  BY <1>1, <1>4, <1>5, <1>6, AdvanceProgress DEF Progress

LEMMA InterruptingProgress ==
    ASSUME NEW t \in Threads, StoreInv, StoreInv', CountsOK(t), NumberOK,
           TruncateChunks(t) \/ DeleteVectors(t) \/ DeleteCollection(t)
    PROVE  Progress(t)
<1>0. threads \in [Threads -> ThreadStates] /\ threads[t] \in ThreadStates /\ TaskOK(t)
  BY DEF StoreInv, TypeOK, TasksOK
<1>1. PICK pc \in Pcs :
        /\ \E documents : GotoInterrupting(t, pc, documents)
        /\ <<threads[t].pc, pc>> \in {<<"truncate_chunks", "write_chunks">>,
              <<"delete", "upsert">>, <<"delete_collection", "recreate">>}
        /\ UNCHANGED <<handle, models>>
  BY DEF TruncateChunks, DeleteVectors, DeleteCollection, DiskOnly, ServiceKept, Pcs
<1>2. NumberOK'
  BY DEF TruncateChunks, DeleteVectors, DeleteCollection, DiskOnly, NumberOK, StoreInv, TypeOK
<1>3. /\ threads'[t] = [threads[t] EXCEPT !.pc = pc]
      /\ \A u \in Threads \ {t} : State(u)' = State(u)
  <2>1. PICK documents : GotoInterrupting(t, pc, documents)
    BY <1>1
  <2>2. ASSUME NEW u \in Threads \ {t} PROVE State(u)' = State(u)
    BY <1>0, <2>1 DEF GotoInterrupting, State, ThreadStates
  <2> QED  BY <2>1, <2>2 DEF GotoInterrupting
<1>4. /\ threads'[t].pc = pc /\ threads'[t].task = threads[t].task
      /\ threads'[t].retrievals = threads[t].retrievals /\ threads'[t].stale = threads[t].stale
      /\ threads'[t].queries = threads[t].queries /\ threads'[t].unread = threads[t].unread
  BY <1>0, <1>3 DEF ThreadStates
<1>5. Calls(t)' < Calls(t) /\ ~Retrieving(t)'
  BY <1>0, <1>1, <1>4 DEF TaskOK, Calls, CallsLeft, Retrieving
<1>6. LeavesOthers(t)
  BY <1>1, <1>3 DEF LeavesOthers
<1> QED  BY <1>1, <1>2, <1>4, <1>5, <1>6, AdvanceProgress DEF Progress

LEMMA ValueProgress ==
    ASSUME NEW t \in Threads, StoreInv, StoreInv', CountsOK(t), NumberOK,
           \/ HaveCollection(t) \/ Embed(t) \/ RereadCollection(t) \/ AssignCollection(t)
           \/ RecreateCollection(t)
    PROVE  Progress(t)
<1>0. threads \in [Threads -> ThreadStates] /\ threads[t] \in ThreadStates /\ TaskOK(t)
  BY DEF StoreInv, TypeOK, TasksOK
<1>1. NumberOK' /\ (RecreateCollection(t) => collection'.number # 0)
  BY DEF HaveCollection, Embed, RereadCollection, AssignCollection, RecreateCollection,
         GetOrCreate, ThreadOnly, NumberOK, StoreInv, TypeOK
<1>2. handle # 0 => handle' # 0
  BY DEF HaveCollection, Embed, RereadCollection, AssignCollection, RecreateCollection,
         ThreadOnly, ServiceKept, CountsOK
<1>3. UNCHANGED models
  BY DEF HaveCollection, Embed, RereadCollection, AssignCollection, RecreateCollection,
         ThreadOnly, ServiceKept
<1>4. /\ threads'[t].task = threads[t].task
      /\ threads'[t].retrievals = threads[t].retrievals /\ threads'[t].stale = threads[t].stale
      /\ threads'[t].queries = threads[t].queries /\ threads'[t].unread = threads[t].unread
      /\ \A u \in Threads \ {t} : threads'[u] = threads[u]
  BY <1>0 DEF HaveCollection, Embed, RereadCollection, AssignCollection, RecreateCollection,
         Goto, ThreadStates
<1>5. \/ threads[t].task = "upload"
         /\ <<threads[t].pc, threads'[t].pc>> \in {<<"collection", "embed">>, <<"embed", "delete">>}
      \/ threads[t].task = "retrieve"
         /\ <<threads[t].pc, threads'[t].pc>> \in {<<"collection", "query">>,
                                                 <<"embed", "collection">>}
      \/ <<threads[t].pc, threads'[t].pc>> \in {<<"reread", "upsert_again">>,
                                               <<"assign", "reread">>}
      \/ <<threads[t].pc, threads'[t].pc>> = <<"recreate", "assign">> /\ threads'[t].handle # 0
  BY <1>0, <1>1 DEF HaveCollection, Embed, RereadCollection, AssignCollection,
         RecreateCollection, Goto, ThreadStates
<1>6. Calls(t)' < Calls(t) /\ (Retrieving(t)' => Retrieving(t))
  BY <1>0, <1>4, <1>5 DEF TaskOK, Calls, CallsLeft, Retrieving
<1>7. LeavesOthers(t)
  BY <1>2, <1>3, <1>4 DEF LeavesOthers, State
<1> QED  BY <1>1, <1>4, <1>5, <1>6, <1>7, AdvanceProgress DEF Progress

LEMMA MakingProgress ==
    ASSUME NEW t \in Threads, StoreInv, StoreInv', CountsOK(t), NumberOK,
           \/ WantLock(t) \/ TakeLock(t) \/ MadeMeanwhile(t) \/ LoadModel(t) \/ OpenCollection(t)
    PROVE  Progress(t)
<1>0. /\ threads \in [Threads -> ThreadStates] /\ threads[t] \in ThreadStates /\ TaskOK(t)
      /\ models \in [{"embed", "rerank"} -> Kinds \cup {"unset"}]
  BY DEF StoreInv, TypeOK, TasksOK
<1>1. NumberOK' /\ (OpenCollection(t) => handle' # 0)
  BY DEF WantLock, TakeLock, MadeMeanwhile, LoadModel, OpenCollection, GetOrCreate, ThreadOnly,
         NumberOK, StoreInv, TypeOK
<1>2. PICK mutex : threads' = [threads EXCEPT ![t] = [threads[t] EXCEPT !.mutex = mutex]]
  BY <1>0 DEF WantLock, TakeLock, MadeMeanwhile, LoadModel, OpenCollection, Release
<1>3. /\ threads'[t] = [threads[t] EXCEPT !.mutex = mutex] /\ threads'[t].mutex = mutex
      /\ threads'[t].pc = threads[t].pc /\ threads'[t].task = threads[t].task
      /\ threads'[t].retrievals = threads[t].retrievals /\ threads'[t].handle = threads[t].handle
      /\ threads'[t].queries = threads[t].queries /\ threads'[t].unread = threads[t].unread
      /\ \A u \in Threads \ {t} : threads'[u] = threads[u]
  BY <1>0, <1>2 DEF ThreadStates
<1>4. threads[t].pc \in {"collection", "embed", "rerank"}
  BY <1>0 DEF WantLock, TakeLock, MadeMeanwhile, LoadModel, OpenCollection, Release, TaskOK
<1>5. MakingLeft(t)' < MakingLeft(t) /\ LeavesOthers(t)
  <2>1. CASE WantLock(t)
    <3>1. threads'[t].mutex = "waiting" /\ UNCHANGED <<handle, models>>
      BY <1>0, <2>1 DEF WantLock, ThreadOnly, ServiceKept, ThreadStates
    <3> QED  BY <1>3, <2>1, <3>1 DEF WantLock, MakingLeft, LeavesOthers, State
  <2>2. CASE TakeLock(t)
    <3>1. threads'[t].mutex = "in" /\ UNCHANGED <<handle, models>>
      BY <1>0, <2>2 DEF TakeLock, ThreadStates
    <3> QED  BY <1>3, <2>2, <3>1 DEF TakeLock, MakingLeft, LeavesOthers, State
  <2>3. CASE Release(t) /\ (MadeMeanwhile(t) \/ LoadModel(t) \/ OpenCollection(t))
    <3>1. threads'[t].mutex = "out"
      BY <1>0, <2>3 DEF Release, ThreadStates
    <3>2. ~Missing(t)'
      <4>1. CASE MadeMeanwhile(t)
        BY <1>3, <4>1 DEF MadeMeanwhile, Missing
      <4>2. CASE LoadModel(t)
        BY <1>0, <1>3, <4>2 DEF LoadModel, Missing, KindsOf, Kinds
      <4>3. CASE OpenCollection(t)
        BY <1>1, <1>3, <4>3 DEF OpenCollection, Missing
      <4> QED  BY <2>3, <4>1, <4>2, <4>3
    <3>3. /\ handle # 0 => handle' # 0
          /\ \A model \in {"embed", "rerank"} : models[model] # "unset" => models'[model] # "unset"
      BY <1>0, <1>1, <2>3 DEF MadeMeanwhile, LoadModel, OpenCollection, KindsOf, Kinds
    <3> QED  BY <1>3, <2>3, <3>1, <3>2, <3>3 DEF Release, MakingLeft, LeavesOthers, State
  <2> QED  BY <2>1, <2>2, <2>3 DEF MadeMeanwhile, LoadModel, OpenCollection
<1>6. StepsLeft(t)' <= StepsLeft(t) - 1
  BY <1>3, <1>4, <1>5, LessToMake
<1>7. CountsOK(t)'
  BY <1>3 DEF CountsOK
<1> QED  BY <1>1, <1>5, <1>6, <1>7 DEF Progress

(* A request that ends. *)
LEMMA EndProgress ==
    ASSUME NEW t \in Threads, StoreInv, StoreInv', CountsOK(t), NumberOK,
           \/ UploadFails(t) \/ ExtractRaises(t) \/ UpsertRaises(t) \/ UpsertFails(t)
           \/ EndRequest(t)
    PROVE  Progress(t)
<1>1. /\ threads' = [threads EXCEPT ![t] = Idle] /\ UNCHANGED <<handle, models>>
      /\ collection'.exists = collection.exists /\ collection'.number = collection.number
  BY DEF UploadFails, ExtractRaises, UpsertRaises, UpsertFails, EndRequest, UploadRaises,
         ThreadOnly, ServiceKept, StoreInv, TypeOK
<1>2. threads'[t] = Idle /\ \A u \in Threads \ {t} : threads'[u] = threads[u]
  BY <1>1 DEF StoreInv, TypeOK
<1>3. threads[t].pc # "idle" => StepsLeft(t)' <= StepsLeft(t) - 1
  BY <1>2, IdleLeft DEF Idle
<1>4. CountsOK(t)'
  BY <1>2 DEF CountsOK, Idle
<1> QED  BY <1>1, <1>2, <1>3, <1>4 DEF Progress, LeavesOthers, State, NumberOK

(* An upload that is done may go on to retrieve. *)
LEMMA ReturnProgress ==
    ASSUME NEW t \in Threads, StoreInv, StoreInv', CountsOK(t), NumberOK,
           \/ NoChroma(t) /\ threads[t].task = "upload"
           \/ Upsert(t)
    PROVE  Progress(t)
<1>0. threads[t] \in ThreadStates /\ TaskOK(t)
  BY DEF StoreInv, TypeOK, TasksOK
<1>1. /\ UploadReturns(t) /\ UNCHANGED <<handle, models>> /\ threads[t].task = "upload"
      /\ threads[t].pc \in {"collection", "upsert", "upsert_again"}
      /\ collection'.exists = collection.exists /\ collection'.number = collection.number
  BY <1>0 DEF NoChroma, Upsert, StoreInv, TypeOK, TaskOK
<1>2. /\ threads'[t] = [Idle EXCEPT !.pc = "ready", !.task = "retrieve",
                                    !.document = threads[t].document]
      /\ \A u \in Threads \ {t} : threads'[u] = threads[u]
  BY <1>1 DEF UploadReturns, StoreInv, TypeOK
<1>3. /\ threads'[t].pc = "ready" /\ threads'[t].task = "retrieve"
      /\ threads'[t].retrievals = 0 /\ threads'[t].queries = 0 /\ threads'[t].unread = {}
      /\ threads'[t].stale = {}
  BY <1>2 DEF Idle
<1>4. Calls(t)' < Calls(t) /\ ~Retrieving(t)'
  BY <1>1, <1>3 DEF Calls, CallsLeft, Retrieving
<1>5. CountsOK(t)'
  BY <1>3 DEF CountsOK
<1>6. threads[t].retrievals = 0
  BY <1>1 DEF CountsOK
<1>7. StepsLeft(t)' <= StepsLeft(t) - 1
  BY <1>1, <1>3, <1>4, <1>6, FewerCalls
<1> QED  BY <1>1, <1>2, <1>5, <1>7 DEF Progress, LeavesOthers, State, NumberOK

(* A retrieval that goes on to its disk, or comes to its end. *)
LEMMA FoundProgress ==
    ASSUME NEW t \in Threads, StoreInv, StoreInv', CountsOK(t), NumberOK,
           \/ NoChroma(t) /\ threads[t].task # "upload"
           \/ QueryCollection(t) \/ QueryRaises(t) \/ DecodingRaises(t) \/ RetrieveLocally(t)
           \/ RetrievalFails(t)
    PROVE  Progress(t)
<1>0. threads \in [Threads -> ThreadStates] /\ threads[t] \in ThreadStates /\ TaskOK(t)
  BY DEF StoreInv, TypeOK, TasksOK
<1>1. /\ UNCHANGED <<collection, handle, models>>
      /\ threads[t].pc \in {"collection", "embed", "query", "local", "read", "rerank"}
      /\ threads[t].task = "retrieve"
  BY <1>0 DEF NoChroma, QueryCollection, QueryRaises, DecodingRaises, RetrieveLocally,
         RetrievalFails, Find, RetrievalRaises, ThreadOnly, ServiceKept, TaskOK, ThreadStates
<1>2. CASE NoChroma(t)
  <2>1. /\ threads' = [threads EXCEPT ![t].mutex = "out", ![t].pc = "local"]
        /\ threads[t].pc = "collection"
    BY <1>1, <1>2 DEF NoChroma
  <2>2. /\ threads'[t].pc = "local" /\ threads'[t].task = threads[t].task
        /\ threads'[t].retrievals = threads[t].retrievals /\ threads'[t].stale = threads[t].stale
        /\ threads'[t].queries = threads[t].queries /\ threads'[t].unread = threads[t].unread
        /\ \A u \in Threads \ {t} : threads'[u] = threads[u]
    BY <1>0, <2>1 DEF ThreadStates
  <2>3. Calls(t)' < Calls(t) /\ Retrieving(t)
    BY <1>1, <2>1, <2>2 DEF Calls, CallsLeft, Retrieving
  <2> QED  BY <1>1, <2>1, <2>2, <2>3, AdvanceProgress DEF Progress, LeavesOthers, State, NumberOK
<1>3. CASE ~NoChroma(t)
  <2>1. PICK outcome \in Outcomes, pc \in {"ready", "rerank"} :
          /\ Retrieved(t, outcome, pc)
          /\ pc = "rerank" => threads[t].pc \in {"query", "read"}
    <3>1. CASE QueryRaises(t) \/ DecodingRaises(t)
      <4>1. Retrieved(t, "raised", "ready")
        BY <3>1 DEF QueryRaises, DecodingRaises, RetrievalRaises
      <4> QED  BY <4>1 DEF Outcomes
    <3>2. CASE QueryCollection(t) \/ RetrieveLocally(t)
      <4>1. /\ Retrieved(t, "found", "rerank") \/ Retrieved(t, "missed", "ready")
            /\ threads[t].pc \in {"query", "read"}
        BY <3>2 DEF QueryCollection, RetrieveLocally, Find
      <4> QED  BY <4>1 DEF Outcomes
    <3>3. CASE RetrievalFails(t)
      <4>1. Retrieved(t, "unavailable", "ready")
        BY <3>3 DEF RetrievalFails
      <4> QED  BY <4>1 DEF Outcomes
    <3> QED  BY <1>3, <3>1, <3>2, <3>3
  <2>2. /\ threads'[t].pc = pc /\ threads'[t].task = threads[t].task
        /\ threads'[t].retrievals = threads[t].retrievals /\ threads'[t].stale = threads[t].stale
        /\ threads'[t].queries = 0 /\ threads'[t].unread = {}
        /\ \A u \in Threads \ {t} : threads'[u] = threads[u]
    BY <1>0, <2>1 DEF Retrieved, ThreadStates
  <2>3. Calls(t)' < Calls(t) /\ ~Retrieving(t)'
    BY <1>1, <2>1, <2>2 DEF Calls, CallsLeft, Retrieving
  <2>4. CountsOK(t)'
    BY <1>1, <2>2 DEF CountsOK
  <2>5. StepsLeft(t)' <= StepsLeft(t) - 1
    BY <1>1, <2>2, <2>3, FewerCalls
  <2> QED  BY <1>1, <2>2, <2>4, <2>5 DEF Progress, LeavesOthers, State, NumberOK
<1> QED  BY <1>2, <1>3

LEMMA Distributes ==
    ASSUME NEW n \in Nat, NEW k \in Nat, NEW m \in Nat
    PROVE  (n - (k + 1)) * m = (n - k) * m - m
OBVIOUS

LEMMA RetrieveProgress ==
    ASSUME NEW t \in Threads, StoreInv, StoreInv', CountsOK(t), NumberOK, Retrieve(t)
    PROVE  Progress(t)
<1>0. threads \in [Threads -> ThreadStates] /\ threads[t] \in ThreadStates /\ TaskOK(t)
  BY DEF StoreInv, TypeOK, TasksOK
<1>1. /\ threads'[t].pc = "embed" /\ threads'[t].task = "retrieve" /\ threads[t].task = "retrieve"
      /\ threads'[t].retrievals = threads[t].retrievals + 1 /\ threads'[t].stale = threads[t].stale
      /\ threads[t].queries = 0 /\ threads[t].unread = {}
      /\ threads'[t].queries = 0 /\ threads'[t].unread = {}
      /\ threads[t].pc = "ready" /\ threads[t].retrievals \in Nat
      /\ \A u \in Threads \ {t} : threads'[u] = threads[u]
  BY <1>0 DEF Retrieve, TaskOK, CountsOK, ThreadStates
<1>2. Calls(t) = 0 /\ Calls(t)' = 6
  BY <1>1 DEF Calls, CallsLeft
<1>3. ReadingLeft(t) = 0 /\ ReadingLeft(t)' = MAX_QUERIES * QuerySteps
  <2>1. MAX_QUERIES * QuerySteps \in Nat
    <3>1. MAX_QUERIES \in Nat /\ QuerySteps \in Nat
      BY SetFacts, BoundsAssumption
    <3> QED  BY <3>1
  <2> QED  BY <1>1, <2>1, FS_EmptySet, BoundsAssumption DEF ReadingLeft, Retrieving
<1>4. SizesOK(t) /\ SizesOK(t)'
  BY Sizes, SizesNext
<1>5. (MAX_RETRIEVALS - threads'[t].retrievals) * RetrievalSteps
        = (MAX_RETRIEVALS - threads[t].retrievals) * RetrievalSteps - RetrievalSteps
  <2>1. RetrievalSteps \in Nat
    BY SetFacts
  <2> QED  BY <1>1, <2>1, Distributes, BoundsAssumption
<1>6. StepsLeft(t)' <= StepsLeft(t) - 1
  <2>1. StepsLeft(t) = 1 + (MAX_RETRIEVALS - threads[t].retrievals) * RetrievalSteps
                         + 4 * Calls(t) + MakingLeft(t) + ReadingLeft(t)
                         + Cardinality(threads[t].stale)
    BY <1>1 DEF StepsLeft, Calls
  <2>2. StepsLeft(t)' = 1 + (MAX_RETRIEVALS - threads'[t].retrievals) * RetrievalSteps
                         + 4 * Calls(t)' + MakingLeft(t)' + ReadingLeft(t)'
                         + Cardinality(threads[t].stale)
    BY <1>1 DEF StepsLeft, Calls
  <2>3. RetrievalSteps = 28 + MAX_QUERIES * QuerySteps
    BY SetFacts, BoundsAssumption DEF RetrievalSteps
  <2>4. MAX_QUERIES * QuerySteps \in Nat
    BY <1>3, <1>4 DEF SizesOK
  <2> QED  BY ONLY <1>2, <1>3, <1>4, <1>5, <2>1, <2>2, <2>3, <2>4 DEF SizesOK
<1>7. CountsOK(t)'
  BY <1>1 DEF CountsOK
<1>8. UNCHANGED <<collection, handle, models>>
  BY DEF Retrieve, ThreadOnly, ServiceKept
<1> QED  BY <1>1, <1>6, <1>7, <1>8 DEF Progress, LeavesOthers, State, NumberOK

(* A step of local retrieval, or of unlinking, that does not leave it: there *)
(* is less to read, or to unlink.                                            *)
LEMMA LessToRead ==
    ASSUME NEW t \in Threads, StoreInv, StoreInv', threads[t].pc # "idle", threads'[t].pc # "idle",
           threads'[t].retrievals = threads[t].retrievals,
           Calls(t)' <= Calls(t), MakingLeft(t)' = MakingLeft(t),
           ReadingLeft(t)' + Cardinality(threads'[t].stale)
             <= ReadingLeft(t) + Cardinality(threads[t].stale) - 1
    PROVE  StepsLeft(t)' <= StepsLeft(t) - 1
<1>1. SizesOK(t) /\ SizesOK(t)'
  BY Sizes, SizesNext
<1>2. StepsLeft(t) = 1 + (MAX_RETRIEVALS - threads[t].retrievals) * RetrievalSteps
                         + 4 * Calls(t) + MakingLeft(t) + ReadingLeft(t)
                         + Cardinality(threads[t].stale)
  BY DEF StepsLeft, Calls
<1>3. StepsLeft(t)' = 1 + (MAX_RETRIEVALS - threads[t].retrievals) * RetrievalSteps
                         + 4 * Calls(t)' + MakingLeft(t)' + ReadingLeft(t)'
                         + Cardinality(threads'[t].stale)
  BY DEF StepsLeft, Calls
<1> QED
  BY <1>1, <1>2, <1>3 DEF SizesOK

LEMMA ListProgress ==
    ASSUME NEW t \in Threads, StoreInv, StoreInv', CountsOK(t), NumberOK, ListDirectories(t)
    PROVE  Progress(t)
<1>0. threads \in [Threads -> ThreadStates] /\ threads[t] \in ThreadStates /\ TaskOK(t)
  BY DEF StoreInv, TypeOK, TasksOK
<1>1. /\ threads'[t].pc = "read" /\ threads'[t].task = "retrieve" /\ threads[t].task = "retrieve"
      /\ threads'[t].retrievals = threads[t].retrievals /\ threads'[t].stale = threads[t].stale
      /\ threads[t].unread = {} /\ threads[t].pc \in {"local", "read"}
      /\ threads'[t].queries = threads[t].queries + 1
      /\ threads[t].mutex = "out" /\ threads'[t].mutex = "out"
      /\ \A u \in Threads \ {t} : threads'[u] = threads[u]
  BY <1>0 DEF ListDirectories, TaskOK, CountsOK, ThreadStates
<1>2. Calls(t)' <= Calls(t)
  BY <1>1 DEF Calls, CallsLeft
<1>3. MakingLeft(t)' = MakingLeft(t)
  BY <1>1 DEF MakingLeft
<1>4. (MAX_QUERIES - threads'[t].queries) * QuerySteps
        = (MAX_QUERIES - threads[t].queries) * QuerySteps - QuerySteps
  <2>1. QuerySteps \in Nat /\ threads[t].queries \in Nat
    BY <1>0, SetFacts DEF ThreadStates
  <2> QED  BY <1>1, <2>1, Distributes, BoundsAssumption
<1>5. Cardinality(threads'[t].unread) \in Nat
      /\ Cardinality(threads'[t].unread) <= Cardinality(Documents)
  <2>1. threads'[t].unread \subseteq Documents
    BY DEF StoreInv, TypeOK, ThreadStates
  <2> QED  BY <2>1, FS_Subset, FS_CardinalityType, FiniteAssumption
<1>6. ReadingLeft(t)' <= ReadingLeft(t) - 1
  <2>1. /\ ReadingLeft(t)' = (MAX_QUERIES - threads'[t].queries) * QuerySteps
                               + Cardinality(threads'[t].unread)
        /\ ReadingLeft(t) = (MAX_QUERIES - threads[t].queries) * QuerySteps + 0
    BY <1>1, FS_EmptySet DEF ReadingLeft, Retrieving
  <2>2. (MAX_QUERIES - threads[t].queries) * QuerySteps \in Nat /\ Cardinality(Documents) \in Nat
    BY SetFacts
  <2> QED  BY <1>4, <1>5, <2>1, <2>2 DEF QuerySteps
<1>7. StepsLeft(t)' <= StepsLeft(t) - 1
  <2>1. /\ ReadingLeft(t)' \in Nat /\ ReadingLeft(t) \in Nat
        /\ Cardinality(threads[t].stale) \in Nat
    BY Sizes, SizesNext DEF SizesOK
  <2> QED  BY <1>1, <1>2, <1>3, <1>6, <2>1, LessToRead
<1>8. CountsOK(t)'
  BY <1>1 DEF CountsOK
<1>9. UNCHANGED <<collection, handle, models>>
  BY DEF ListDirectories, ThreadOnly, ServiceKept
<1> QED  BY <1>1, <1>7, <1>8, <1>9 DEF Progress, LeavesOthers, State, NumberOK

LEMMA ReadProgress ==
    ASSUME NEW t \in Threads, StoreInv, StoreInv', CountsOK(t), NumberOK,
           ReadChunks(t) \/ ReadFails(t)
    PROVE  Progress(t)
<1>0. threads \in [Threads -> ThreadStates] /\ threads[t] \in ThreadStates /\ TaskOK(t)
  BY DEF StoreInv, TypeOK, TasksOK
<1>1. PICK d \in threads[t].unread :
        /\ threads'[t].pc = "read" /\ threads'[t].task = "retrieve" /\ threads[t].task = "retrieve"
        /\ threads'[t].retrievals = threads[t].retrievals /\ threads'[t].stale = threads[t].stale
        /\ threads'[t].unread = threads[t].unread \ {d} /\ threads[t].pc = "read"
        /\ threads'[t].queries = threads[t].queries
        /\ threads[t].mutex = "out" /\ threads'[t].mutex = "out"
        /\ \A u \in Threads \ {t} : threads'[u] = threads[u]
  <2>1. PICK d \in threads[t].unread :
          /\ threads'[t].unread = threads[t].unread \ {d}
          /\ threads'[t].pc = threads[t].pc /\ threads'[t].task = threads[t].task
          /\ threads'[t].mutex = threads[t].mutex
          /\ threads'[t].retrievals = threads[t].retrievals
          /\ threads'[t].queries = threads[t].queries /\ threads'[t].stale = threads[t].stale
          /\ \A u \in Threads \ {t} : threads'[u] = threads[u]
    <3>1. CASE ReadChunks(t)
      <4>1. PICK d \in threads[t].unread : threads' =
              [threads EXCEPT ![t].unread = @ \ {d},
                              ![t].found = @ \/ disk[d].chunks = "whole"]
        BY <3>1 DEF ReadChunks
      <4> DEFINE found == threads[t].found \/ disk[d].chunks = "whole"
      <4>2. /\ threads'[t] = [threads[t] EXCEPT !.unread = @ \ {d}, !.found = found]
            /\ \A u \in Threads \ {t} : threads'[u] = threads[u]
        BY <1>0, <4>1
      <4> HIDE DEF found
      <4> QED  BY <1>0, <4>2 DEF ThreadStates
    <3>2. CASE ReadFails(t)
      <4>1. PICK d \in threads[t].unread : threads' =
              [threads EXCEPT ![t].unread = @ \ {d}, ![t].interrupted = @ \cup {d}]
        BY <3>2 DEF ReadFails
      <4>2. /\ threads'[t] = [threads[t] EXCEPT !.unread = @ \ {d},
                                                !.interrupted = @ \cup {d}]
            /\ \A u \in Threads \ {t} : threads'[u] = threads[u]
        BY <1>0, <4>1
      <4> QED  BY <1>0, <4>2 DEF ThreadStates
    <3> QED  BY <3>1, <3>2
  <2>2. /\ threads[t].pc = "read" /\ threads[t].mutex = "out" /\ threads[t].task = "retrieve"
    BY <1>0 DEF ReadChunks, ReadFails, TaskOK
  <2> QED  BY <2>1, <2>2
<1>2. Calls(t)' = Calls(t)
  BY <1>1 DEF Calls
<1>3. MakingLeft(t)' = MakingLeft(t)
  BY <1>1 DEF MakingLeft
<1>4. Cardinality(threads'[t].unread) = Cardinality(threads[t].unread) - 1
  BY <1>1, SetFacts, FS_RemoveElement
<1>5. /\ ReadingLeft(t)' \in Nat /\ ReadingLeft(t) \in Nat
      /\ Cardinality(threads[t].stale) \in Nat /\ Calls(t) \in 0 .. 14
  BY <1>1, Sizes, SizesNext DEF SizesOK
<1>6. ReadingLeft(t)' = ReadingLeft(t) - 1
  BY <1>1, <1>4, SetFacts DEF ReadingLeft, Retrieving
<1>7. StepsLeft(t)' <= StepsLeft(t) - 1
  BY <1>1, <1>2, <1>3, <1>5, <1>6, LessToRead
<1>8. CountsOK(t)'
  BY <1>1 DEF CountsOK
<1>9. UNCHANGED <<collection, handle, models>>
  BY DEF ReadChunks, ReadFails, ThreadOnly, ServiceKept
<1> QED  BY <1>1, <1>7, <1>8, <1>9 DEF Progress, LeavesOthers, State, NumberOK

LEMMA UnlinkProgress ==
    ASSUME NEW t \in Threads, StoreInv, StoreInv', CountsOK(t), NumberOK, UnlinkStaleFile(t)
    PROVE  Progress(t)
<1>0. threads \in [Threads -> ThreadStates] /\ threads[t] \in ThreadStates /\ TaskOK(t)
  BY DEF StoreInv, TypeOK, TasksOK
<1>1. PICK name \in threads[t].stale :
        /\ threads'[t].pc = "unlink" /\ threads'[t].task = "upload" /\ threads[t].task = "upload"
        /\ threads'[t].retrievals = threads[t].retrievals
        /\ threads'[t].stale = threads[t].stale \ {name} /\ threads[t].pc = "unlink"
        /\ threads'[t].queries = threads[t].queries /\ threads'[t].unread = threads[t].unread
        /\ threads[t].mutex = "out" /\ threads'[t].mutex = "out"
        /\ \A u \in Threads \ {t} : threads'[u] = threads[u]
  BY <1>0 DEF UnlinkStaleFile, TaskOK, ThreadStates
<1>2. Calls(t)' = Calls(t)
  BY <1>1 DEF Calls
<1>3. MakingLeft(t)' = MakingLeft(t)
  BY <1>1 DEF MakingLeft
<1>4. Cardinality(threads'[t].stale) = Cardinality(threads[t].stale) - 1
  BY <1>1, SetFacts, FS_RemoveElement
<1>5. ReadingLeft(t)' = 0 /\ ReadingLeft(t) = 0
  BY <1>1 DEF ReadingLeft, Retrieving
<1>6. Cardinality(threads[t].stale) \in Nat /\ Calls(t) \in 0 .. 14
  BY <1>1, Sizes DEF SizesOK
<1>7. StepsLeft(t)' <= StepsLeft(t) - 1
  <2>1. ReadingLeft(t)' + Cardinality(threads'[t].stale)
          <= ReadingLeft(t) + Cardinality(threads[t].stale) - 1
    BY <1>4, <1>5, <1>6
  <2>2. Calls(t)' <= Calls(t)
    BY <1>2, <1>6
  <2> QED  BY <1>1, <1>3, <2>1, <2>2, LessToRead
<1>8. CountsOK(t)'
  BY <1>1 DEF CountsOK
<1>9. UNCHANGED <<collection, handle, models>>
  BY DEF UnlinkStaleFile, DiskOnly, ServiceKept
<1> QED  BY <1>1, <1>7, <1>8, <1>9 DEF Progress, LeavesOthers, State, NumberOK

LEMMA BeginProgress ==
    ASSUME NEW t \in Threads, StoreInv, StoreInv', CountsOK(t), NumberOK, Begin(t)
    PROVE  Progress(t)
<1>0. threads \in [Threads -> ThreadStates]
  BY DEF StoreInv, TypeOK
<1>1. /\ threads'[t].task = "retrieve" \/ threads'[t].retrievals = 0
      /\ threads'[t].queries = 0 /\ threads'[t].unread = {} /\ threads'[t].pc # "assign"
      /\ \A u \in Threads \ {t} : threads'[u] = threads[u]
      /\ threads[t].pc = "idle"
  <2>1. PICK thread :
          /\ threads' = [threads EXCEPT ![t] = thread] /\ thread.pc # "assign"
          /\ thread.retrievals = 0 /\ thread.queries = 0 /\ thread.unread = {}
    <3> DEFINE ready == [Idle EXCEPT !.pc = "ready", !.task = "retrieve"]
               unlink(upload) ==
                 [Idle EXCEPT !.pc = "unlink", !.document = upload[1], !.name = upload[2],
                              !.stale = disk[upload[1]].files]
    <3>1. CASE threads' = [threads EXCEPT ![t] = ready]
      <4>1. /\ ready.pc # "assign" /\ ready.retrievals = 0
            /\ ready.queries = 0 /\ ready.unread = {}
        BY DEF Idle
      <4> HIDE DEF ready
      <4> QED  BY <3>1, <4>1
    <3>2. ASSUME NEW upload, threads' = [threads EXCEPT ![t] = unlink(upload)]
          PROVE  \E thread : /\ threads' = [threads EXCEPT ![t] = thread]
                             /\ thread.pc # "assign" /\ thread.retrievals = 0
                             /\ thread.queries = 0 /\ thread.unread = {}
      <4>1. /\ unlink(upload).pc # "assign" /\ unlink(upload).retrievals = 0
            /\ unlink(upload).queries = 0 /\ unlink(upload).unread = {}
        BY DEF Idle
      <4> HIDE DEF unlink
      <4> QED  BY <3>2, <4>1
    <3> QED  BY <3>1, <3>2 DEF Begin
  <2> QED  BY <1>0, <2>1 DEF Begin
<1>2. UNCHANGED <<collection, handle, models>>
  BY DEF Begin
<1> QED  BY <1>1, <1>2 DEF Progress, LeavesOthers, State, NumberOK, CountsOK

(* What the count of steps rests on: the counters of a retrieval are zero    *)
(* outside it, and no handle is that of no collection.                       *)
RequestsInv == StoreInv /\ NumberOK /\ \A t \in Threads : CountsOK(t)

LEMMA StepProgress ==
    ASSUME RequestsInv, StoreInv', NEW t \in Threads, Begin(t) \/ Step(t) \/ Failure(t)
    PROVE  Progress(t)
<1> USE DEF RequestsInv
<1>1. threads[t] \in ThreadStates
  BY DEF StoreInv, TypeOK
<1>2. CASE Step(t)
  BY <1>2, GotoProgress, InterruptingProgress, ValueProgress, MakingProgress, EndProgress,
     ReturnProgress, FoundProgress, RetrieveProgress, ListProgress, ReadProgress,
     UnlinkProgress DEF Step
<1>3. CASE Failure(t)
  BY <1>3, EndProgress, FoundProgress, ReadProgress DEF Failure
<1> QED  BY <1>2, <1>3, BeginProgress

LEMMA RequestsNext == RequestsInv /\ [Next]_vars => RequestsInv' /\ StepTaken
<1> SUFFICES ASSUME RequestsInv, [Next]_vars PROVE RequestsInv' /\ StepTaken
  OBVIOUS
<1>0. StoreInv' /\ threads \in [Threads -> ThreadStates]
  BY NextInv DEF RequestsInv, StoreInv, TypeOK
<1>4. \A u \in Threads : StepsLeft(u) \in Int /\ StepsLeft(u)' \in Int
  <2>1. \A u \in Threads : SizesOK(u)
    BY Sizes DEF RequestsInv
  <2>2. \A u \in Threads : SizesOK(u)'
    BY <1>0, SizesNext
  <2>3. \A u \in Threads : StepsLeft(u) \in Int
    BY <2>1 DEF SizesOK, StepsLeft, Calls
  <2>4. \A u \in Threads : StepsLeft(u)' \in Int
    BY <2>2 DEF SizesOK, StepsLeft, Calls
  <2> QED  BY <2>3, <2>4
<1>1. ASSUME NEW t \in Threads, Begin(t) \/ Step(t) \/ Failure(t)
      PROVE  RequestsInv' /\ StepTaken
  <2>1. Progress(t)
    BY <1>0, <1>1, StepProgress
  <2>2. ASSUME NEW u \in Threads \ {t}
        PROVE  CountsOK(u)' /\ State(u)' = State(u) /\ StepsLeft(u)' <= StepsLeft(u)
    <3>1. State(u)' = State(u)
      BY <2>1 DEF Progress, LeavesOthers
    <3>2. StepsLeft(u)' <= StepsLeft(u)
      BY <1>0, <2>1, <3>1, OthersLeft DEF Progress, LeavesOthers, RequestsInv
    <3>3. threads[u] \in ThreadStates /\ threads'[u] \in ThreadStates /\ CountsOK(u)
      BY <1>0 DEF RequestsInv, StoreInv, TypeOK
    <3>4. CountsOK(u)'
      BY <3>1, <3>3 DEF CountsOK, State, ThreadStates
    <3> QED  BY <3>1, <3>2, <3>4
  <2>3. RequestsInv'
    BY <1>0, <2>1, <2>2 DEF RequestsInv, Progress
  <2> QED  BY <1>4, <2>1, <2>2, <2>3 DEF StepTaken, Progress
<1>2. CASE Restart
  <2>1. \A u \in Threads : threads'[u] = Idle
    BY <1>2 DEF Restart
  <2>2. collection' = collection
    BY <1>2 DEF Restart
  <2>3. RequestsInv'
    BY <1>0, <2>1, <2>2 DEF RequestsInv, CountsOK, NumberOK, Idle
  <2>4. ASSUME NEW u \in Threads, threads[u].pc # "idle"
        PROVE  StepsLeft(u)' <= StepsLeft(u) - 1
    BY <2>1, <2>4, IdleLeft DEF RequestsInv, Idle
  <2> QED  BY <1>4, <2>3, <2>4 DEF StepTaken
<1>3. CASE UNCHANGED vars
  <2>1. RequestsInv'
    BY <1>0, <1>3 DEF RequestsInv, CountsOK, NumberOK, vars
  <2>2. \A u \in Threads : State(u)' = State(u) /\ StepsLeft(u)' = StepsLeft(u)
    BY <1>3 DEF vars, State, StepsLeft, MakingLeft, Missing, ReadingLeft, Retrieving
  <2> QED  BY <1>4, <2>1, <2>2 DEF StepTaken
<1> QED  BY <1>1, <1>2, <1>3 DEF Next, Rest

(* Each step of a request of the API uses up one of those left to it, and no *)
(* step of another adds to them: upload, the lazily made values, retrieval   *)
(* with its queries and files, for any number of threads and requests.       *)
THEOREM RequestsRunOutOfSteps == Spec => [][StepTaken]_vars
<1>1. Init => RequestsInv
  <2>1. Init => NumberOK /\ \A t \in Threads : CountsOK(t)
    BY DEF Init, NumberOK, CountsOK, Idle
  <2> QED  BY <2>1, InitInv DEF RequestsInv
<1> QED  BY <1>1, RequestsNext, PTL DEF Spec
====
