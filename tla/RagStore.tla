---- MODULE RagStore ----
(***************************************************************************)
(* RagService of src/core/llm/rag_service.py: the process-wide service     *)
(* through which the worker threads of the API upload the document of a    *)
(* request and retrieve from it.  It keeps every document twice, on disk   *)
(* and in a Chroma collection, and makes its models and its collection     *)
(* when they are first needed.                                             *)
(*                                                                         *)
(* A document is its content (its id is a hash of it).  Embeddings are     *)
(* known by the model that made them: "loaded" or, when it could not be    *)
(* loaded, "failed"; the two have different dimensions.  Chroma and the    *)
(* file system are external: a collection is known by a number that is     *)
(* never used again, a handle to a deleted one raises, and any call may    *)
(* raise: a write that is cut short so, an upsert or a deletion may leave  *)
(* its work undone or done.                                                *)
(***************************************************************************)
EXTENDS Naturals, FiniteSets

CONSTANTS
    Threads,         \* worker threads of the API
    Documents,
    Names,           \* safe file names
    Uploads,         \* the documents that requests bring, and their names
    NoDocument,      \* the document of a request that has none
    Nobody,          \* holder of a free lock
    MAX_REQUESTS,    \* bound: requests begun
    MAX_RETRIEVALS,  \* bound: retrievals of a request
    MAX_QUERIES,     \* bound: queries of a retrieval plan
    MAX_RESTARTS     \* bound: restarts of the process

ASSUME FiniteAssumption == IsFiniteSet(Documents) /\ IsFiniteSet(Names)
ASSUME UploadsAssumption == Uploads \subseteq Documents \X Names
ASSUME NoDocumentAssumption == NoDocument \notin Documents
ASSUME NobodyAssumption == Nobody \notin Threads
ASSUME BoundsAssumption ==
    /\ MAX_REQUESTS \in Nat /\ MAX_RETRIEVALS \in Nat
    /\ MAX_QUERIES \in Nat /\ MAX_RESTARTS \in Nat

VARIABLES
    installed,   \* chromadb can be imported
    disk,        \* the directory of each document
    collection,  \* the latest collection of the configured name
    handle,      \* _collection: the number of a collection, 0 for None
    models,      \* _embedding_model and _rerank_model
    lock,        \* holder of _lock
    threads,     \* what each thread is doing
    requests,    \* history: requests begun
    restarts,    \* history: restarts
    uploaded,    \* history: documents whose upload returned
    failed,      \* history: documents with an upload that raised or was cut off
    cutoff,      \* history: those whose chunks.json was last cut short
    dropped,     \* history: those whose vectors were lost and not written again
    spoilt       \* history: a reset of this process failed or met another

kept_vars    == <<disk, collection>>
service_vars == <<handle, models, lock>>
bound_vars   == <<installed, requests, restarts>>
result_vars  == <<uploaded, failed, cutoff, dropped, spoilt>>

vars == <<kept_vars, service_vars, threads, bound_vars, result_vars>>

Kinds == {"loaded", "failed"}

(* Whether the rerank model could be loaded changes only the order of chunks. *)
KindsOf(model) == IF model = "embed" THEN Kinds ELSE {"loaded"}

(* pc is the call the thread makes next; while it wants a lazily made value  *)
(* (pc "collection", "embed" or "rerank"), mutex is where it is in the       *)
(* property that makes it.  A retrieval counts its queries and keeps the     *)
(* directories still to be read, and whether it found chunks.  Histories:    *)
(* the documents uploaded when it began, and those that were out of its      *)
(* reach since.                                                              *)
Idle == [pc |-> "idle", mutex |-> "out", task |-> "upload", document |-> NoDocument,
         name |-> "none", stale |-> {}, handle |-> 0, kind |-> "unset",
         retrievals |-> 0, queries |-> 0, unread |-> {}, found |-> FALSE,
         outcome |-> "none", known |-> {}, interrupted |-> {}]

(* The directory of a document, if it was made: the uploaded files, those of *)
(* them that are truncated and not yet written, and chunks.json.             *)
NoFiles == [made |-> FALSE, files |-> {}, blank |-> {}, chunks |-> "none"]

Init ==
    /\ installed \in BOOLEAN
    /\ disk = [d \in Documents |-> NoFiles]
    /\ collection = [number |-> 0, exists |-> FALSE, kind |-> "unset", documents |-> {}]
    /\ handle = 0
    /\ models = [embed |-> "unset", rerank |-> "unset"]
    /\ lock = Nobody
    /\ threads = [t \in Threads |-> Idle]
    /\ requests = 0 /\ restarts = 0
    /\ uploaded = {} /\ failed = {} /\ cutoff = {} /\ dropped = {} /\ spoilt = FALSE

----
At(t, pc) == threads[t].pc = pc /\ threads[t].mutex = "out"

Goto(t, pc) == threads' = [threads EXCEPT ![t].pc = pc]

Document(t) == threads[t].document

(* The step is the thread's own, or only the disk or the collection shows it. *)
ServiceKept == UNCHANGED <<service_vars, bound_vars, result_vars>>
ThreadOnly  == UNCHANGED kept_vars /\ ServiceKept
DiskOnly    == UNCHANGED collection /\ ServiceKept

Pcs == {"idle", "unlink", "write", "extract", "truncate_chunks", "write_chunks",
        "collection", "embed", "delete", "upsert", "delete_collection", "recreate",
        "assign", "reread", "upsert_again", "ready", "query", "local", "read", "rerank"}

(* Where a thread has deleted the vectors of its document, and where the     *)
(* service may hold a handle to the collection that it deleted.              *)
Vectorless == {"upsert", "delete_collection", "recreate", "assign", "reread",
               "upsert_again"}
Resetting  == {"recreate", "assign"}

Uploading(t) == threads[t].task = "upload" /\ threads[t].pc # "idle"

(* The documents of the uploads at pcs that are under way. *)
UploadsAt(pcs) ==
    {Document(t) : t \in {u \in Threads : Uploading(u) /\ threads[u].pc \in pcs}}

(* An exception leaves upload, and the request is answered with an error. *)
UploadRaises(t) ==
    /\ threads' = [threads EXCEPT ![t] = Idle]
    /\ lock' = IF threads[t].mutex = "in" THEN Nobody ELSE lock
    /\ failed' = failed \cup {Document(t)}
    /\ cutoff' = cutoff \cup (IF threads[t].pc = "write_chunks" THEN {Document(t)} ELSE {})
    /\ dropped' = dropped \cup (IF threads[t].pc \in Vectorless THEN {Document(t)} ELSE {})
    /\ spoilt' = (spoilt \/ threads[t].pc = "recreate")
    /\ UNCHANGED <<disk, handle, models, bound_vars, uploaded>>

(* The locals of upload are gone; the request may go on to retrieve. *)
UploadReturns(t) ==
    /\ threads' = [threads EXCEPT ![t] =
         [Idle EXCEPT !.pc = "ready", !.task = "retrieve", !.document = Document(t)]]
    /\ uploaded' = uploaded \cup {Document(t)}
    /\ UNCHANGED <<bound_vars, failed, cutoff, spoilt>>

----
(* What retrievals are kept from. *)

Retrieving(t) ==
    /\ threads[t].task = "retrieve"
    /\ threads[t].pc \in {"embed", "collection", "query", "local", "read"}

(* The documents that a retrieval may now miss although they were uploaded:  *)
(* their chunks or vectors are being replaced or were lost before, or the    *)
(* collection is being replaced.                                             *)
OutOfReach ==
    cutoff \cup dropped \cup UploadsAt({"write_chunks"} \cup Vectorless)
           \cup (IF UploadsAt(Resetting) = {} THEN {} ELSE Documents)

(* The thread goes to pc, and its step takes documents out of the reach of   *)
(* the retrievals under way.                                                 *)
GotoInterrupting(t, pc, documents) ==
    threads' = [u \in Threads |->
        IF u = t THEN [threads[u] EXCEPT !.pc = pc]
        ELSE IF Retrieving(u) THEN [threads[u] EXCEPT !.interrupted = @ \cup documents]
        ELSE threads[u]]

----
(* upload, the files. *)

(* A request whose file passed the checks of upload, which then lists what   *)
(* is in the directory of the document; or a request without a file, whose   *)
(* agent may retrieve from all documents.                                    *)
Begin(t) ==
    /\ At(t, "idle") /\ requests < MAX_REQUESTS
    /\ \/ \E upload \in Uploads :
            /\ threads' = [threads EXCEPT ![t] =
                 [Idle EXCEPT !.pc = "unlink", !.document = upload[1], !.name = upload[2],
                              !.stale = disk[upload[1]].files]]
            /\ disk' = [disk EXCEPT ![upload[1]].made = TRUE]
       \/ /\ threads' =
               [threads EXCEPT ![t] = [Idle EXCEPT !.pc = "ready", !.task = "retrieve"]]
          /\ UNCHANGED disk
    /\ requests' = requests + 1
    /\ UNCHANGED <<collection, service_vars, installed, restarts, result_vars>>

(* Mistake: chunks.json is stale, too. *)
UnlinkChunksToo(t) ==
    /\ At(t, "unlink")
    /\ \E name \in threads[t].stale :
         /\ disk' = [disk EXCEPT ![Document(t)].files = @ \ {name},
                                 ![Document(t)].blank = @ \ {name},
                                 ![Document(t)].chunks = "none"]
         /\ threads' = [threads EXCEPT ![t].stale = @ \ {name}]
    /\ DiskOnly

(* One that another thread has unlinked is not a file (is_file). *)
UnlinkStaleFile(t) ==
    /\ At(t, "unlink")
    /\ \E name \in threads[t].stale :
         /\ disk' = [disk EXCEPT ![Document(t)].files = @ \ {name},
                                 ![Document(t)].blank = @ \ {name}]
         /\ threads' = [threads EXCEPT ![t].stale = @ \ {name}]
    /\ DiskOnly

(* write_bytes truncates, then writes. *)
TruncateFile(t) ==
    /\ At(t, "unlink") /\ threads[t].stale = {}
    /\ disk' = [disk EXCEPT ![Document(t)].files = @ \cup {threads[t].name},
                            ![Document(t)].blank = @ \cup {threads[t].name}]
    /\ Goto(t, "write")
    /\ DiskOnly

WriteFile(t) ==
    /\ At(t, "write")
    /\ disk' = [disk EXCEPT ![Document(t)].blank = @ \ {threads[t].name}]
    /\ Goto(t, "extract")
    /\ DiskOnly

ExtractText(t) ==
    /\ At(t, "extract")
    /\ threads[t].name \in disk[Document(t)].files \ disk[Document(t)].blank
    /\ Goto(t, "truncate_chunks")
    /\ ThreadOnly

(* The file is gone or blank, or has no text that can be extracted. *)
ExtractRaises(t) == At(t, "extract") /\ UploadRaises(t) /\ UNCHANGED collection

(* write_text truncates, then writes. *)
TruncateChunks(t) ==
    /\ At(t, "truncate_chunks")
    /\ disk' = [disk EXCEPT ![Document(t)].chunks = "torn"]
    /\ GotoInterrupting(t, "write_chunks", {Document(t)})
    /\ DiskOnly

WriteChunks(t) ==
    /\ At(t, "write_chunks")
    /\ disk' = [disk EXCEPT ![Document(t)].chunks = "whole"]
    /\ cutoff' = cutoff \ {Document(t)}
    /\ Goto(t, "collection")
    /\ UNCHANGED <<collection, service_vars, bound_vars, uploaded, failed, dropped, spoilt>>

(* A call before the vectors, or the making of a collection, raises: a file  *)
(* that another thread unlinks or reads, a full disk, a text that cannot be  *)
(* encoded, a model that does not embed, a database that cannot be opened.   *)
(* What is truncated stays so.                                               *)
UploadFails(t) ==
    /\ threads[t].task = "upload"
    /\ \/ /\ threads[t].mutex = "out"
          /\ \/ threads[t].pc \in {"unlink", "write", "truncate_chunks", "write_chunks",
                                   "delete_collection", "recreate"}
             \/ threads[t].pc = "embed" /\ models.embed # "unset"
       \/ threads[t].mutex = "in" /\ threads[t].pc = "collection"
    /\ UploadRaises(t)
    /\ UNCHANGED collection

----
(* The lazily made values: look, take the lock, look again, make. *)

Missing(t) == IF threads[t].pc = "collection" THEN handle = 0
              ELSE models[threads[t].pc] = "unset"

WantLock(t) ==
    /\ threads[t].pc \in {"collection", "embed", "rerank"} /\ threads[t].mutex = "out"
    /\ Missing(t)
    /\ threads' = [threads EXCEPT ![t].mutex = "waiting"]
    /\ ThreadOnly

(* Mistake: acquiring does not block. *)
TakeLockAnyway(t) ==
    /\ threads[t].mutex = "waiting"
    /\ lock' = t
    /\ threads' = [threads EXCEPT ![t].mutex = "in"]
    /\ UNCHANGED <<kept_vars, handle, models, bound_vars, result_vars>>

TakeLock(t) ==
    /\ threads[t].mutex = "waiting" /\ lock = Nobody
    /\ lock' = t
    /\ threads' = [threads EXCEPT ![t].mutex = "in"]
    /\ UNCHANGED <<kept_vars, handle, models, bound_vars, result_vars>>

(* Leaving the with block; the value is then read where it was looked for. *)
Release(t) ==
    /\ threads[t].mutex = "in"
    /\ lock' = Nobody
    /\ threads' = [threads EXCEPT ![t].mutex = "out"]
    /\ UNCHANGED <<bound_vars, result_vars>>

MadeMeanwhile(t) == Release(t) /\ ~Missing(t) /\ UNCHANGED <<kept_vars, handle, models>>

(* Mistake: the value is not looked for again under the lock. *)
LoadModelAgain(t) ==
    /\ Release(t)
    /\ threads[t].pc \in {"embed", "rerank"}
    /\ \E kind \in KindsOf(threads[t].pc) : models' = [models EXCEPT ![threads[t].pc] = kind]
    /\ UNCHANGED <<kept_vars, handle>>

(* A model that cannot be loaded, whatever the reason, is given up for good. *)
LoadModel(t) ==
    /\ Release(t)
    /\ threads[t].pc \in {"embed", "rerank"} /\ Missing(t)
    /\ \E kind \in KindsOf(threads[t].pc) : models' = [models EXCEPT ![threads[t].pc] = kind]
    /\ UNCHANGED <<kept_vars, handle>>

(* get_or_create_collection *)
GetOrCreate ==
    collection' = IF collection.exists THEN collection
                  ELSE [number |-> collection.number + 1, exists |-> TRUE,
                        kind |-> "unset", documents |-> {}]

OpenCollection(t) ==
    /\ Release(t)
    /\ threads[t].pc = "collection" /\ Missing(t) /\ installed
    /\ GetOrCreate
    /\ handle' = collection'.number
    /\ UNCHANGED <<disk, models>>

(* Mistake: the exception leaves the lock taken. *)
NoChromaLocked(t) ==
    /\ threads[t].mutex = "in" /\ threads[t].pc = "collection" /\ ~installed
    /\ IF threads[t].task = "upload" THEN UploadReturns(t) /\ UNCHANGED dropped
       ELSE /\ threads' = [threads EXCEPT ![t].mutex = "out", ![t].pc = "local"]
            /\ UNCHANGED <<bound_vars, result_vars>>
    /\ UNCHANGED <<kept_vars, service_vars>>

(* chromadb is missing: upload is done without it and retrieval is local. *)
NoChroma(t) ==
    /\ threads[t].mutex = "in" /\ threads[t].pc = "collection" /\ ~installed
    /\ lock' = Nobody
    /\ IF threads[t].task = "upload" THEN UploadReturns(t) /\ UNCHANGED dropped
       ELSE /\ threads' = [threads EXCEPT ![t].mutex = "out", ![t].pc = "local"]
            /\ UNCHANGED <<bound_vars, result_vars>>
    /\ UNCHANGED <<kept_vars, handle, models>>

(* upload embeds once it has the collection, retrieval before. *)
HaveCollection(t) ==
    /\ At(t, "collection") /\ ~Missing(t)
    /\ threads' = [threads EXCEPT ![t].handle = handle,
         ![t].pc = IF threads[t].task = "upload" THEN "embed" ELSE "query"]
    /\ ThreadOnly

Embed(t) ==
    /\ At(t, "embed") /\ ~Missing(t)
    /\ threads' = [threads EXCEPT ![t].kind = models.embed,
         ![t].pc = IF threads[t].task = "upload" THEN "delete" ELSE "collection"]
    /\ ThreadOnly

----
(* upload, the vectors. *)

Usable(t) == collection.exists /\ threads[t].handle = collection.number

SameKind(t) == collection.kind \in {"unset", threads[t].kind}

(* collection.delete, whose exception is swallowed. *)
DeleteVectors(t) ==
    /\ At(t, "delete")
    /\ \/ Usable(t) /\ collection' = [collection EXCEPT !.documents = @ \ {Document(t)}]
       \/ UNCHANGED collection
    /\ GotoInterrupting(t, "upsert", {Document(t)})
    /\ UNCHANGED disk /\ ServiceKept

(* Mistake: the old vectors are deleted after the new ones were written. *)
UpsertThenDelete(t) ==
    /\ threads[t].pc \in {"upsert", "upsert_again"}
    /\ Usable(t) /\ SameKind(t)
    /\ collection' = [collection EXCEPT !.kind = threads[t].kind,
                                        !.documents = @ \ {Document(t)}]
    /\ dropped' = dropped \ {Document(t)}
    /\ UploadReturns(t)
    /\ UNCHANGED <<disk, service_vars>>

Upsert(t) ==
    /\ threads[t].pc \in {"upsert", "upsert_again"}
    /\ Usable(t) /\ SameKind(t)
    /\ collection' = [collection EXCEPT !.kind = threads[t].kind,
                                        !.documents = @ \cup {Document(t)}]
    /\ dropped' = dropped \ {Document(t)}
    /\ UploadReturns(t)
    /\ UNCHANGED <<disk, service_vars>>

(* The collection was deleted under the handle, which is not an error of     *)
(* dimension; or it is one, and the collection was recreated before.         *)
UpsertRaises(t) ==
    /\ \/ threads[t].pc \in {"upsert", "upsert_again"} /\ ~Usable(t)
       \/ threads[t].pc = "upsert_again" /\ ~SameKind(t)
    /\ UploadRaises(t)
    /\ UNCHANGED collection

(* Chroma raises something else, before it wrote or after. *)
UpsertFails(t) ==
    /\ threads[t].pc \in {"upsert", "upsert_again"}
    /\ \/ /\ Usable(t) /\ SameKind(t)
          /\ collection' = [collection EXCEPT !.kind = threads[t].kind,
                                              !.documents = @ \cup {Document(t)}]
       \/ UNCHANGED collection
    /\ UploadRaises(t)

(* An error of dimension: the collection was written by a process that had   *)
(* another embedding model.                                                  *)
UpsertMismatches(t) ==
    /\ At(t, "upsert")
    /\ Usable(t) /\ ~SameKind(t)
    /\ Goto(t, "delete_collection")
    /\ ThreadOnly

(* _reset_collection, which takes no lock.  The exception of a collection    *)
(* that cannot be deleted, or is not there, is swallowed.                    *)
DeleteCollection(t) ==
    /\ At(t, "delete_collection")
    /\ \/ /\ collection' = [collection EXCEPT !.exists = FALSE]
          /\ dropped' = Documents
          /\ spoilt' = (spoilt \/ UploadsAt(Resetting) # {})
       \/ UNCHANGED <<collection, dropped, spoilt>>
    /\ GotoInterrupting(t, "recreate", Documents)
    /\ UNCHANGED <<disk, service_vars, bound_vars, uploaded, failed, cutoff>>

RecreateCollection(t) ==
    /\ At(t, "recreate")
    /\ GetOrCreate
    /\ threads' = [threads EXCEPT ![t].handle = collection'.number, ![t].pc = "assign"]
    /\ UNCHANGED disk /\ ServiceKept

AssignCollection(t) ==
    /\ At(t, "assign")
    /\ handle' = threads[t].handle
    /\ Goto(t, "reread")
    /\ UNCHANGED <<kept_vars, models, lock, bound_vars, result_vars>>

(* return self._collection *)
RereadCollection(t) ==
    /\ At(t, "reread")
    /\ threads' = [threads EXCEPT ![t].handle = handle, ![t].pc = "upsert_again"]
    /\ ThreadOnly

----
(* retrieve_document_context: retrieve_with_mode, then rerank. *)

Retrieve(t) ==
    /\ At(t, "ready") /\ threads[t].retrievals < MAX_RETRIEVALS
    /\ threads' = [threads EXCEPT ![t].pc = "embed", ![t].retrievals = @ + 1,
         ![t].outcome = "none", ![t].known = uploaded, ![t].interrupted = OutOfReach]
    /\ ThreadOnly

Asked(t) == IF Document(t) = NoDocument THEN Documents ELSE {Document(t)}

(* The locals of the retrieval are gone. *)
Retrieved(t, outcome, pc) ==
    threads' = [threads EXCEPT ![t] =
        [@ EXCEPT !.pc = pc, !.mutex = "out", !.outcome = outcome, !.handle = 0,
                  !.kind = "unset", !.queries = 0, !.unread = {}, !.found = FALSE]]

(* Chunks were found or not; none are not reranked. *)
Find(t, found) ==
    /\ IF found THEN Retrieved(t, "found", "rerank") ELSE Retrieved(t, "missed", "ready")
    /\ ThreadOnly

QueryCollection(t) ==
    /\ At(t, "query") /\ Usable(t) /\ SameKind(t)
    /\ Find(t, collection.documents \cap Asked(t) # {})

(* Mistake: an error of dimension is an empty answer. *)
MismatchFindsNothing(t) ==
    /\ At(t, "query") /\ Usable(t) /\ ~SameKind(t)
    /\ Find(t, FALSE)

(* An error of dimension falls back on the disk. *)
QueryMismatches(t) ==
    /\ At(t, "query") /\ Usable(t) /\ ~SameKind(t)
    /\ Goto(t, "local")
    /\ ThreadOnly

(* Any other is the tool's, and the agent goes on without chunks. *)
RetrievalRaises(t) == Retrieved(t, "raised", "ready") /\ ThreadOnly

QueryRaises(t) == At(t, "query") /\ ~Usable(t) /\ RetrievalRaises(t)

(* A call raises that would have to be answered: a model does not embed or   *)
(* rank, or Chroma cannot be opened or read.                                 *)
RetrievalFails(t) ==
    /\ threads[t].task = "retrieve"
    /\ \/ threads[t].mutex = "out" /\ threads[t].pc \in {"query", "local"}
       \/ At(t, "embed") /\ models.embed # "unset"
       \/ At(t, "rerank") /\ models.rerank # "unset"
       \/ threads[t].mutex = "in" /\ threads[t].pc = "collection"
    /\ Retrieved(t, "unavailable", "ready")
    /\ lock' = IF threads[t].mutex = "in" THEN Nobody ELSE lock
    /\ UNCHANGED <<kept_vars, handle, models, bound_vars, result_vars>>

(* _retrieve_from_local_chunks, once for each query: glob lists the          *)
(* directories, and the files are read one after the other.                  *)
ListDirectories(t) ==
    /\ \/ At(t, "local")
       \/ At(t, "read") /\ threads[t].unread = {}
    /\ threads[t].queries < MAX_QUERIES
    /\ threads' = [threads EXCEPT ![t].pc = "read", ![t].queries = @ + 1,
                                  ![t].unread = {d \in Asked(t) : disk[d].made}]
    /\ ThreadOnly

(* A chunks.json that is missing, empty or cannot be parsed is skipped. *)
ReadChunks(t) ==
    /\ At(t, "read")
    /\ \E d \in threads[t].unread :
         threads' = [threads EXCEPT ![t].unread = @ \ {d},
                                    ![t].found = @ \/ disk[d].chunks = "whole"]
    /\ ThreadOnly

(* So is one that cannot be read. *)
ReadFails(t) ==
    /\ At(t, "read")
    /\ \E d \in threads[t].unread :
         threads' = [threads EXCEPT ![t].unread = @ \ {d}, ![t].interrupted = @ \cup {d}]
    /\ ThreadOnly

(* One that ends inside a character cannot be decoded, and is not. *)
DecodingRaises(t) ==
    /\ At(t, "read")
    /\ \E d \in threads[t].unread : disk[d].chunks = "torn"
    /\ RetrievalRaises(t)

(* The last query is through. *)
RetrieveLocally(t) ==
    /\ At(t, "read") /\ threads[t].unread = {}
    /\ Find(t, threads[t].found)

Rerank(t) == At(t, "rerank") /\ ~Missing(t) /\ Goto(t, "ready") /\ ThreadOnly

EndRequest(t) ==
    /\ At(t, "ready")
    /\ threads' = [threads EXCEPT ![t] = Idle]
    /\ ThreadOnly

----
(* The process ends and is started again: files and collection remain, half  *)
(* written or not.                                                           *)
Restart ==
    /\ restarts < MAX_RESTARTS
    /\ restarts' = restarts + 1
    /\ failed' = failed \cup UploadsAt(Pcs)
    /\ cutoff' = cutoff \cup UploadsAt({"write_chunks"})
    /\ dropped' = dropped \cup UploadsAt(Vectorless)
    /\ spoilt' = FALSE
    /\ handle' = 0
    /\ models' = [embed |-> "unset", rerank |-> "unset"]
    /\ lock' = Nobody
    /\ threads' = [t \in Threads |-> Idle]
    /\ UNCHANGED <<kept_vars, installed, requests, uploaded>>

Step(t) ==
    \/ UnlinkStaleFile(t)
    \/ TruncateFile(t) \/ WriteFile(t) \/ ExtractText(t) \/ ExtractRaises(t)
    \/ TruncateChunks(t) \/ WriteChunks(t)
    \/ WantLock(t) \/ TakeLock(t) \/ MadeMeanwhile(t) \/ LoadModel(t)
    \/ OpenCollection(t) \/ NoChroma(t) \/ HaveCollection(t) \/ Embed(t)
    \/ DeleteVectors(t) \/ Upsert(t) \/ UpsertRaises(t) \/ UpsertMismatches(t)
    \/ DeleteCollection(t) \/ RecreateCollection(t) \/ AssignCollection(t)
    \/ RereadCollection(t)
    \/ Retrieve(t) \/ QueryCollection(t) \/ QueryMismatches(t) \/ QueryRaises(t)
    \/ ListDirectories(t) \/ ReadChunks(t) \/ DecodingRaises(t) \/ RetrieveLocally(t)
    \/ Rerank(t) \/ EndRequest(t)

(* What need not happen. *)
Failure(t) == UploadFails(t) \/ UpsertFails(t) \/ RetrievalFails(t) \/ ReadFails(t)

(* All requests were answered, and no more come. *)
Rest == (\A t \in Threads : threads[t].pc = "idle") /\ UNCHANGED vars

Next ==
    \/ \E t \in Threads : Begin(t) \/ Step(t) \/ Failure(t)
    \/ Restart
    \/ Rest

Spec == Init /\ [][Next]_vars
====
