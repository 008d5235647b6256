--------------------------- MODULE KnowledgeFiles ---------------------------
(***************************************************************************)
(* The files of one knowledge base.  A file is an object in the bucket, a  *)
(* row of attachments, a row of knowledge_documents and the chunks of the  *)
(* document.  The upload request, the ingestion worker, the two DELETE     *)
(* requests and the retention job act on them at the same time, and no     *)
(* transaction spans the database and the bucket.                          *)
(*                                                                         *)
(* One action is one transaction or one call to the bucket or the queue.   *)
(* The transaction that writes the chunks is two actions, because other    *)
(* transactions commit between its first statement and its last.           *)
(***************************************************************************)
EXTENDS Naturals, FiniteSets

CONSTANTS Files,       \* uploads into the knowledge base, one document each
          Workers,     \* slots in which the worker process ingests
          Deleters,    \* DELETE requests of a document
          Deliveries,  \* how often the queue hands out one job
          MaxFaults    \* crashes and failed calls in a behaviour

ASSUME DeliveriesAssumption == Deliveries \in Nat \ {0}
ASSUME FaultsAssumption == MaxFaults \in Nat

VARIABLES kb,        \* the row of knowledge_bases exists
          object,    \* the object, and who removed it
          att,       \* attachments.status, "none" when there is no row
          doc,       \* knowledge_documents.ingest_status, likewise
          chunks,    \* the deliveries whose chunks the document has
          upload,    \* POST /api/files/upload
          job,       \* the file's ingestion job
          attempt,   \* what a worker slot is doing
          deleter,   \* DELETE .../documents/{documentId}
          kbDelete,  \* DELETE /api/knowledge/{knowledgeBaseId}
          cleanup,   \* the recurring job over orphan attachments
          faults     \* crashes and failed calls so far

vars == <<kb, object, att, doc, chunks, upload, job, attempt, deleter,
          kbDelete, cleanup, faults>>

rows == <<kb, att, doc, chunks>>

-----------------------------------------------------------------------------
IngestStatus == {"queued", "processing", "ready", "failed"}

AttachmentStatus == {"uploaded", "processing", "ready", "failed"}

Attempt == [pc : {"idle", "load", "start", "extract", "write", "writing", "fail"},
            file : Files \cup {"none"}, delivery : 0..Deliveries,
            old : SUBSET (0..Deliveries)]

Job == [state : {"none", "waiting", "active", "over"}, count : 0..Deliveries]

DeleteRequest == [pc : {"idle", "object", "rows"}, file : Files \cup {"none"}]

KbDeleteRequest == [pc : {"idle", "objects"}, listed : SUBSET Files, todo : SUBSET Files]

CleanupPass == [pc : {"idle", "reread", "purge"}, todo : SUBSET Files, purged : SUBSET Files]

TypeOK ==
  /\ kb \in BOOLEAN
  /\ object \in [Files -> {"none", "stored", "withdrawn", "deleted", "reaped"}]
  /\ att \in [Files -> AttachmentStatus \cup {"none"}]
  /\ doc \in [Files -> IngestStatus \cup {"none"}]
  /\ chunks \in [Files -> SUBSET (0..Deliveries)]
  /\ upload \in [Files -> {"idle", "insert", "enqueue", "undo", "giveUp", "withdraw",
                           "done", "abandoned"}]
  /\ job \in [Files -> Job]
  /\ attempt \in [Workers -> Attempt]
  /\ deleter \in [Deleters -> DeleteRequest]
  /\ kbDelete \in KbDeleteRequest
  /\ cleanup \in CleanupPass
  /\ faults \in 0..MaxFaults

Vacant == [pc |-> "idle", file |-> "none", delivery |-> 0, old |-> {}]

NoRequest == [pc |-> "idle", file |-> "none"]

NoKbDelete == [pc |-> "idle", listed |-> {}, todo |-> {}]

NoCleanup == [pc |-> "idle", todo |-> {}, purged |-> {}]

Init ==
  /\ kb = TRUE
  /\ object = [f \in Files |-> "none"]
  /\ att = [f \in Files |-> "none"]
  /\ doc = [f \in Files |-> "none"]
  /\ chunks = [f \in Files |-> {}]
  /\ upload = [f \in Files |-> "idle"]
  /\ job = [f \in Files |-> [state |-> "none", count |-> 0]]
  /\ attempt = [w \in Workers |-> Vacant]
  /\ deleter = [d \in Deleters |-> NoRequest]
  /\ kbDelete = NoKbDelete
  /\ cleanup = NoCleanup
  /\ faults = 0

-----------------------------------------------------------------------------
(* Statements and calls that several handlers share.                       *)

\* An update by id: a row that is gone is not updated, and nobody is told.
SetStatus(f, docStatus, attStatus) ==
  /\ doc' = [doc EXCEPT ![f] = IF @ = "none" THEN "none" ELSE docStatus]
  /\ att' = [att EXCEPT ![f] = IF @ = "none" THEN "none" ELSE attStatus]

\* The bucket deletes an object that is not there without an error.
Remove(f, how) == object' = [object EXCEPT ![f] = IF @ = "stored" THEN how ELSE @]

\* Mutant of Orphan: the document that points at the attachment is not looked for.
OrphanByStatus(f) == att[f] \notin {"none", "processing"}

\* The retention predicate for an attachment of a knowledge upload, its age aside.
Orphan(f) == att[f] \notin {"none", "processing"} /\ doc[f] = "none"

-----------------------------------------------------------------------------
(* POST /api/files/upload with a knowledge base.                           *)

UploadAt(f, pc) == upload' = [upload EXCEPT ![f] = pc]

\* The knowledge base is looked up, and the object written before any row.
PutObject(f) ==
  /\ upload[f] = "idle"
  /\ kb
  /\ object' = [object EXCEPT ![f] = "stored"]
  /\ UploadAt(f, "insert")
  /\ UNCHANGED <<rows, job, attempt, deleter, kbDelete, cleanup, faults>>

\* Mutant of RecordUpload: both rows start with the document's first status.
RecordBothQueued(f) ==
  /\ upload[f] = "insert"
  /\ kb
  /\ UploadAt(f, "enqueue")
  /\ att' = [att EXCEPT ![f] = "queued"]
  /\ doc' = [doc EXCEPT ![f] = "queued"]
  /\ UNCHANGED <<kb, object, chunks, job, attempt, deleter, kbDelete, cleanup, faults>>

\* The foreign key refuses the document of a knowledge base that has gone meanwhile.
RecordUpload(f) ==
  /\ upload[f] = "insert"
  /\ \/ kb /\ UploadAt(f, "enqueue")
           /\ att' = [att EXCEPT ![f] = "uploaded"]
           /\ doc' = [doc EXCEPT ![f] = "queued"]
     \/ ~kb /\ UploadAt(f, "undo") /\ UNCHANGED <<att, doc>>
  /\ UNCHANGED <<kb, object, chunks, job, attempt, deleter, kbDelete, cleanup, faults>>

UndoPut(f) ==
  /\ upload[f] = "undo"
  /\ Remove(f, "withdrawn")
  /\ UploadAt(f, "done")
  /\ UNCHANGED <<rows, job, attempt, deleter, kbDelete, cleanup, faults>>

Queued(f) == job' = [job EXCEPT ![f].state = "waiting"]

\* An enqueue that fails or times out may land its job all the same.
Enqueue(f) ==
  /\ upload[f] = "enqueue"
  /\ \/ Queued(f) /\ UploadAt(f, "done")
     \/ (Queued(f) \/ UNCHANGED job) /\ UploadAt(f, "giveUp")
  /\ UNCHANGED <<rows, object, attempt, deleter, kbDelete, cleanup, faults>>

\* Mutant of MarkUploadFailed: only the document is marked.
MarkDocumentOnly(f) ==
  /\ upload[f] = "giveUp"
  /\ doc' = [doc EXCEPT ![f] = IF @ = "none" THEN "none" ELSE "failed"]
  /\ UploadAt(f, "withdraw")
  /\ UNCHANGED <<kb, object, att, chunks, job, attempt, deleter, kbDelete, cleanup, faults>>

\* The rows are marked by id, whatever a worker has made of them by now.
MarkUploadFailed(f) ==
  /\ upload[f] = "giveUp"
  /\ SetStatus(f, "failed", "failed")
  /\ UploadAt(f, "withdraw")
  /\ UNCHANGED <<kb, object, chunks, job, attempt, deleter, kbDelete, cleanup, faults>>

WithdrawObject(f) ==
  /\ upload[f] = "withdraw"
  /\ Remove(f, "withdrawn")
  /\ UploadAt(f, "done")
  /\ UNCHANGED <<rows, job, attempt, deleter, kbDelete, cleanup, faults>>

\* The process dies or a call fails; only a failed insert has a handler of its own.
UploadFault(f) ==
  /\ faults < MaxFaults
  /\ faults' = faults + 1
  /\ \/ upload[f] \in {"insert", "undo", "enqueue", "giveUp", "withdraw"}
        /\ UploadAt(f, "abandoned")
     \/ upload[f] = "insert" /\ UploadAt(f, "undo")
  /\ UNCHANGED <<rows, object, job, attempt, deleter, kbDelete, cleanup>>

-----------------------------------------------------------------------------
(* The queue, as far as ingestFile sees it.                                *)

Deliver(w, f) ==
  /\ attempt[w].pc = "idle"
  /\ job[f].state = "waiting"
  /\ job[f].count < Deliveries
  /\ job' = [job EXCEPT ![f] = [state |-> "active", count |-> @.count + 1]]
  /\ attempt' = [attempt EXCEPT ![w] = [pc |-> "load", file |-> f,
                                        delivery |-> job[f].count + 1, old |-> {}]]
  /\ UNCHANGED <<rows, object, upload, deleter, kbDelete, cleanup, faults>>

\* A slot whose lock lapsed no longer speaks for its job.
Holds(w, f) ==
  /\ attempt[w].file = f
  /\ job[f] = [state |-> "active", count |-> attempt[w].delivery]

\* A lock lapses, of a dead worker or of a slow one, and the job is handed out again.
Stall(f) ==
  /\ job[f].state = "active"
  /\ job' = [job EXCEPT ![f].state =
                        IF job[f].count < Deliveries THEN "waiting" ELSE "over"]
  /\ UNCHANGED <<rows, object, upload, attempt, deleter, kbDelete, cleanup, faults>>

Settle(w, succeeded) ==
  LET f == attempt[w].file
  IN  /\ job' = IF Holds(w, f)
                THEN [job EXCEPT ![f].state =
                        IF succeeded \/ job[f].count = Deliveries THEN "over" ELSE "waiting"]
                ELSE job
      /\ attempt' = [attempt EXCEPT ![w] = Vacant]

-----------------------------------------------------------------------------
(* ingestFile, in a worker slot.                                           *)

AttemptAt(w, pc) == attempt' = [attempt EXCEPT ![w].pc = pc]

\* The document is read with its attachment; without it the attempt throws at once.
LoadDocument(w) ==
  /\ attempt[w].pc = "load"
  /\ \/ /\ doc[attempt[w].file] # "none"
        /\ att[attempt[w].file] # "none"
        /\ AttemptAt(w, "start")
        /\ UNCHANGED job
     \/ /\ doc[attempt[w].file] = "none" \/ att[attempt[w].file] = "none"
        /\ Settle(w, FALSE)
  /\ UNCHANGED <<rows, object, upload, deleter, kbDelete, cleanup, faults>>

StartProcessing(w) ==
  /\ attempt[w].pc = "start"
  /\ SetStatus(attempt[w].file, "processing", "processing")
  /\ AttemptAt(w, "extract")
  /\ UNCHANGED <<kb, chunks, object, upload, job, deleter, kbDelete, cleanup, faults>>

\* The download fails without the object, and any file may turn out to hold no text.
ExtractText(w) ==
  /\ attempt[w].pc = "extract"
  /\ \/ object[attempt[w].file] = "stored" /\ AttemptAt(w, "write")
     \/ AttemptAt(w, "fail")
  /\ UNCHANGED <<rows, object, upload, job, deleter, kbDelete, cleanup, faults>>

\* The transaction deletes the chunks it can see; nobody else sees that yet.
BeginWrite(w) ==
  /\ attempt[w].pc = "write"
  /\ attempt' = [attempt EXCEPT ![w] = [pc |-> "writing", file |-> @.file,
                                        delivery |-> @.delivery, old |-> chunks[@.file]]]
  /\ UNCHANGED <<rows, object, upload, job, deleter, kbDelete, cleanup, faults>>

\* Mutants of CommitWrite: without the unique key, and without the foreign key.
CommitWriteNoUnique(w) ==
  LET f == attempt[w].file
  IN  /\ attempt[w].pc = "writing"
      /\ \/ /\ doc[f] # "none"
            /\ chunks' = [chunks EXCEPT ![f] = (@ \ attempt[w].old) \cup {attempt[w].delivery}]
            /\ SetStatus(f, "ready", "ready")
            /\ Settle(w, TRUE)
         \/ /\ doc[f] = "none"
            /\ AttemptAt(w, "fail")
            /\ UNCHANGED <<att, doc, chunks, job>>
      /\ UNCHANGED <<kb, object, upload, deleter, kbDelete, cleanup, faults>>

CommitWriteNoForeign(w) ==
  LET f == attempt[w].file
  IN  /\ attempt[w].pc = "writing"
      /\ chunks' = [chunks EXCEPT ![f] = {attempt[w].delivery}]
      /\ SetStatus(f, "ready", "ready")
      /\ Settle(w, TRUE)
      /\ UNCHANGED <<kb, object, upload, deleter, kbDelete, cleanup, faults>>

(***************************************************************************)
(* The inserts, the two status updates and the commit.  The foreign key    *)
(* refuses chunks of a deleted document, and the unique (document_id,      *)
(* chunk_index) refuses them beside chunks that were committed since.      *)
(***************************************************************************)
CommitWrite(w) ==
  LET f == attempt[w].file
      accepted == doc[f] # "none" /\ chunks[f] \subseteq attempt[w].old
  IN  /\ attempt[w].pc = "writing"
      /\ \/ /\ accepted
            /\ chunks' = [chunks EXCEPT ![f] = {attempt[w].delivery}]
            /\ SetStatus(f, "ready", "ready")
            /\ Settle(w, TRUE)
         \/ /\ ~accepted
            /\ AttemptAt(w, "fail")
            /\ UNCHANGED <<att, doc, chunks, job>>
      /\ UNCHANGED <<kb, object, upload, deleter, kbDelete, cleanup, faults>>

\* Mutants of MarkIngestionFailed: the error is thrown on and the rows are left alone;
\* the attachment is marked only together with its document.
RethrowOnly(w) ==
  /\ attempt[w].pc = "fail"
  /\ Settle(w, FALSE)
  /\ UNCHANGED <<rows, object, upload, deleter, kbDelete, cleanup, faults>>

MarkWithDocument(w) ==
  /\ attempt[w].pc = "fail"
  /\ IF doc[attempt[w].file] # "none"
     THEN SetStatus(attempt[w].file, "failed", "failed")
     ELSE UNCHANGED <<doc, att>>
  /\ Settle(w, FALSE)
  /\ UNCHANGED <<kb, chunks, object, upload, deleter, kbDelete, cleanup, faults>>

\* Whatever failed, both rows are marked and the error goes on to the queue.
MarkIngestionFailed(w) ==
  /\ attempt[w].pc = "fail"
  /\ SetStatus(attempt[w].file, "failed", "failed")
  /\ Settle(w, FALSE)
  /\ UNCHANGED <<kb, chunks, object, upload, deleter, kbDelete, cleanup, faults>>

\* The worker dies; or a statement fails, inside ingestFile's try or outside it.
WorkerFault(w) ==
  /\ faults < MaxFaults
  /\ faults' = faults + 1
  /\ \/ attempt[w].pc # "idle"
        /\ attempt' = [attempt EXCEPT ![w] = Vacant] /\ UNCHANGED job
     \/ attempt[w].pc \in {"start", "write", "writing"}
        /\ AttemptAt(w, "fail") /\ UNCHANGED job
     \/ attempt[w].pc \in {"load", "fail"}
        /\ Settle(w, FALSE)
  /\ UNCHANGED <<rows, object, upload, deleter, kbDelete, cleanup>>

-----------------------------------------------------------------------------
(* DELETE /api/knowledge/{knowledgeBaseId}/documents/{documentId}          *)

\* Two transactions wait for each other when one deletes a document and the other,
\* having deleted its old chunks, inserts new ones; PostgreSQL may abort the first.
Deadlocked(f) ==
  \E w \in Workers : attempt[w].pc = "writing" /\ attempt[w].file = f /\ attempt[w].old # {}

DeleteRead(d, f) ==
  /\ deleter[d].pc = "idle"
  /\ doc[f] # "none"
  /\ deleter' = [deleter EXCEPT ![d] = [pc |-> IF att[f] = "none" THEN "rows" ELSE "object",
                                        file |-> f]]
  /\ UNCHANGED <<rows, object, upload, job, attempt, kbDelete, cleanup, faults>>

DeleteObject(d) ==
  /\ deleter[d].pc = "object"
  /\ Remove(deleter[d].file, "deleted")
  /\ deleter' = [deleter EXCEPT ![d].pc = "rows"]
  /\ UNCHANGED <<rows, upload, job, attempt, kbDelete, cleanup, faults>>

\* The chunks go with their document; the attachment is deleted by the id read before.
DeleteRows(d) ==
  LET f == deleter[d].file
  IN  /\ deleter[d].pc = "rows"
      /\ \/ /\ doc' = [doc EXCEPT ![f] = "none"]
            /\ chunks' = [chunks EXCEPT ![f] = {}]
            /\ att' = [att EXCEPT ![f] = "none"]
         \/ Deadlocked(f) /\ UNCHANGED <<doc, chunks, att>>
      /\ deleter' = [deleter EXCEPT ![d] = NoRequest]
      /\ UNCHANGED <<kb, object, upload, job, attempt, kbDelete, cleanup, faults>>

DeleteFault(d) ==
  /\ faults < MaxFaults
  /\ deleter[d].pc # "idle"
  /\ faults' = faults + 1
  /\ deleter' = [deleter EXCEPT ![d] = NoRequest]
  /\ UNCHANGED <<rows, object, upload, job, attempt, kbDelete, cleanup>>

-----------------------------------------------------------------------------
(* DELETE /api/knowledge/{knowledgeBaseId}                                 *)

KbDeleteRead ==
  /\ kbDelete.pc = "idle"
  /\ kb
  /\ LET listed == {f \in Files : doc[f] # "none" /\ att[f] # "none"}
     IN  kbDelete' = [pc |-> "objects", listed |-> listed, todo |-> listed]
  /\ UNCHANGED <<rows, object, upload, job, attempt, deleter, cleanup, faults>>

KbDeleteObject(f) ==
  /\ kbDelete.pc = "objects"
  /\ f \in kbDelete.todo
  /\ Remove(f, "deleted")
  /\ kbDelete' = [kbDelete EXCEPT !.todo = @ \ {f}]
  /\ UNCHANGED <<rows, upload, job, attempt, deleter, cleanup, faults>>

\* Documents uploaded since the list was read go with the knowledge base; their
\* attachments stay, and the retention job finds them.
KbDeleteRows ==
  /\ kbDelete.pc = "objects"
  /\ kbDelete.todo = {}
  /\ \/ /\ kb' = FALSE
        /\ doc' = [f \in Files |-> "none"]
        /\ chunks' = [f \in Files |-> {}]
        /\ att' = [f \in Files |-> IF f \in kbDelete.listed THEN "none" ELSE att[f]]
     \/ (\E f \in Files : Deadlocked(f)) /\ UNCHANGED rows
  /\ kbDelete' = NoKbDelete
  /\ UNCHANGED <<object, upload, job, attempt, deleter, cleanup, faults>>

KbDeleteFault ==
  /\ faults < MaxFaults
  /\ kbDelete.pc # "idle"
  /\ faults' = faults + 1
  /\ kbDelete' = NoKbDelete
  /\ UNCHANGED <<rows, object, upload, job, attempt, deleter, cleanup>>

-----------------------------------------------------------------------------
(* The cleanup job's pass over orphan attachments.                         *)

\* Only rows past the cutoff are listed, so any orphan may or may not be.
ListOrphans ==
  /\ cleanup.pc = "idle"
  /\ \E listed \in SUBSET {f \in Files : Orphan(f)} \ {{}} :
       cleanup' = [pc |-> "reread", todo |-> listed, purged |-> {}]
  /\ UNCHANGED <<rows, object, upload, job, attempt, deleter, kbDelete, faults>>

ReadCandidates ==
  /\ cleanup.pc = "reread"
  /\ cleanup' = [pc |-> "purge", todo |-> {f \in cleanup.todo : Orphan(f)}, purged |-> {}]
  /\ UNCHANGED <<rows, object, upload, job, attempt, deleter, kbDelete, faults>>

\* Mutant of PurgeObject: the row goes before its object.
DeleteRowFirst(f) ==
  /\ cleanup.pc = "purge"
  /\ f \in cleanup.todo
  /\ att' = [att EXCEPT ![f] = "none"]
  /\ cleanup' = [cleanup EXCEPT !.todo = @ \ {f}]
  /\ UNCHANGED <<kb, doc, chunks, object, upload, job, attempt, deleter, kbDelete, faults>>

\* An object the bucket fails to delete keeps its row until the next pass.
PurgeObject(f) ==
  /\ cleanup.pc = "purge"
  /\ f \in cleanup.todo
  /\ \/ /\ Remove(f, "reaped")
        /\ cleanup' = [pc |-> "purge", todo |-> cleanup.todo \ {f},
                       purged |-> cleanup.purged \cup {f}]
        /\ UNCHANGED faults
     \/ /\ faults < MaxFaults
        /\ faults' = faults + 1
        /\ cleanup' = [cleanup EXCEPT !.todo = @ \ {f}]
        /\ UNCHANGED object
  /\ UNCHANGED <<rows, upload, job, attempt, deleter, kbDelete>>

DeleteOrphans ==
  /\ cleanup.pc = "purge"
  /\ cleanup.todo = {}
  /\ att' = [f \in Files |-> IF f \in cleanup.purged /\ Orphan(f) THEN "none" ELSE att[f]]
  /\ cleanup' = NoCleanup
  /\ UNCHANGED <<kb, doc, chunks, object, upload, job, attempt, deleter, kbDelete, faults>>

CleanupFault ==
  /\ faults < MaxFaults
  /\ cleanup.pc # "idle"
  /\ faults' = faults + 1
  /\ cleanup' = NoCleanup
  /\ UNCHANGED <<rows, object, upload, job, attempt, deleter, kbDelete>>

-----------------------------------------------------------------------------
FinishUpload(f) ==
  RecordUpload(f) \/ UndoPut(f) \/ Enqueue(f) \/ MarkUploadFailed(f) \/ WithdrawObject(f)

Ingest(w) ==
  \/ LoadDocument(w) \/ StartProcessing(w) \/ ExtractText(w)
  \/ BeginWrite(w) \/ CommitWrite(w) \/ MarkIngestionFailed(w)

FinishDelete(d) == DeleteObject(d) \/ DeleteRows(d)

FinishKbDelete == (\E f \in Files : KbDeleteObject(f)) \/ KbDeleteRows

Cleanup ==
  \/ ListOrphans \/ ReadCandidates \/ DeleteOrphans
  \/ \E f \in Files : PurgeObject(f)

Next ==
  \/ \E f \in Files :
       \/ PutObject(f) \/ FinishUpload(f) \/ UploadFault(f) \/ Stall(f)
       \/ \E w \in Workers : Deliver(w, f)
       \/ \E d \in Deleters : DeleteRead(d, f)
  \/ \E w \in Workers : Ingest(w) \/ WorkerFault(w)
  \/ \E d \in Deleters : FinishDelete(d) \/ DeleteFault(d)
  \/ KbDeleteRead \/ FinishKbDelete \/ KbDeleteFault
  \/ Cleanup \/ CleanupFault

Spec == Init /\ [][Next]_vars

-----------------------------------------------------------------------------
(* Properties.                                                             *)

\* However often the queue hands a file out, a document never mixes the chunks of two
\* attempts, and one that is ready for retrieval has chunks (ingestFile,
\* index.ts:229-258).
ReadyIsWhole ==
  \A f \in Files : /\ Cardinality(chunks[f]) <= 1
                   /\ doc[f] = "ready" => chunks[f] # {}

\* An attempt that outlives the deletion of its document leaves no chunks behind it.
NoStrayChunks == \A f \in Files : chunks[f] # {} => doc[f] # "none"

\* The retention job tells an attachment in use from an orphan by its own status, so
\* the two rows of a file say the same at every moment (cleanup-deps.ts:21-23).
RowsAgree ==
  \A f \in Files : doc[f] # "none" =>
    att[f] = IF doc[f] = "queued" THEN "uploaded" ELSE doc[f]

\* An object never outlives the row that is the only record of it, unless the upload
\* died between writing the one and the other (cleanup-deps.ts:142-147).
ObjectsAreAttributed ==
  \A f \in Files : object[f] = "stored" =>
    att[f] # "none" \/ upload[f] \in {"insert", "undo", "abandoned"}

\* The retention job takes no object a document still has, though it deletes the object
\* before it can lock the row (cleanup-deps.ts:148-192).
RetentionSparesDocuments == \A f \in Files : object[f] = "reaped" => doc[f] = "none"

(***************************************************************************)
(* Fairness: a request and a job that live go on, the queue hands out what *)
(* waits and notices a dead worker, and the retention job recurs.  Nobody  *)
(* has to upload or delete, and a live worker's lock need not lapse.       *)
(***************************************************************************)
Dead(f) == ~\E w \in Workers : Holds(w, f)

Fairness ==
  /\ \A f \in Files : /\ WF_vars(FinishUpload(f))
                      /\ WF_vars(\E w \in Workers : Deliver(w, f))
                      /\ WF_vars(Stall(f) /\ Dead(f))
  /\ \A w \in Workers : WF_vars(Ingest(w))
  /\ \A d \in Deleters : WF_vars(FinishDelete(d))
  /\ WF_vars(FinishKbDelete)
  /\ WF_vars(Cleanup)

FairSpec == Spec /\ Fairness

Unsettled(f) == doc[f] \in {"queued", "processing"}

\* A document does not stay 'queued' or 'processing': it becomes ready or failed or goes,
\* unless its upload died or a fault hit the last delivery the queue grants its job.
DocumentsSettle ==
  \A f \in Files :
    Unsettled(f) ~> (\/ ~Unsettled(f)
                     \/ upload[f] = "abandoned"
                     \/ job[f].state = "over" /\ faults > 0)

\* An attachment whose document went with its knowledge base is collected in the end,
\* unless a fault left it marked as being processed.
OrphansCollected ==
  \A f \in Files :
    (att[f] # "none" /\ doc[f] = "none") ~> (att[f] = "none" \/ (att[f] = "processing" /\ faults > 0))

-----------------------------------------------------------------------------
(* What a comment of the repository says, and the code does not do.        *)

\* cleanup-deps.ts:205-207: "an object whose row is reaped this way is left in the
\* bucket".
ReapedObjectStays == [][\A f \in Files : object[f] = "stored" => object'[f] # "reaped"]_vars
=============================================================================
