--------------------------- MODULE ServicesProofs ---------------------------
(***************************************************************************)
(* The ingestion of files, and of the services beside it the limiter, the  *)
(* answers of providers (streams, listings and usage), the prompts and the *)
(* index: an inductive invariant of each, and the theorems that rest on    *)
(* it, for every value of the constants.                                   *)
(***************************************************************************)
EXTENDS KnowledgeFiles, Services, Ordering, FiniteSetTheorems, SequenceTheorems, NaturalsInduction, WellFoundedInduction, TLAPS

-----------------------------------------------------------------------------
(* Types.                                                                  *)

\* A slot that works, works on a file.
AttemptsHaveFiles == \A w \in Workers : attempt[w].pc # "idle" => attempt[w].file \in Files

TypeInv == TypeOK /\ AttemptsHaveFiles

AttemptPC == {"idle", "load", "start", "extract", "write", "writing", "fail"}

LEMMA VacantTyped == Vacant \in Attempt
BY DeliveriesAssumption DEF Vacant, Attempt

LEMMA PcTyped ==
  ASSUME attempt \in [Workers -> Attempt], NEW w \in Workers, NEW pc \in AttemptPC
  PROVE  [attempt EXCEPT ![w].pc = pc] \in [Workers -> Attempt]
BY DEF Attempt, AttemptPC

LEMMA OldTyped ==
  ASSUME attempt \in [Workers -> Attempt], NEW w \in Workers, NEW pc \in AttemptPC,
         NEW old \in SUBSET (0..Deliveries)
  PROVE  [attempt EXCEPT ![w] = [pc |-> pc, file |-> @.file, delivery |-> @.delivery,
                                 old |-> old]] \in [Workers -> Attempt]
BY DEF Attempt, AttemptPC

LEMMA StateTyped ==
  ASSUME job \in [Files -> Job], NEW f, NEW state \in {"waiting", "over"}
  PROVE  [job EXCEPT ![f].state = state] \in [Files -> Job]
BY DEF Job

LEMMA SettleTyped ==
  ASSUME job \in [Files -> Job], attempt \in [Workers -> Attempt],
         NEW w \in Workers, NEW succeeded, Settle(w, succeeded)
  PROVE  job' \in [Files -> Job] /\ attempt' \in [Workers -> Attempt]
<1> DEFINE f == attempt[w].file
           state == IF succeeded \/ job[f].count = Deliveries THEN "over" ELSE "waiting"
<1>1. job' = IF Holds(w, f) THEN [job EXCEPT ![f].state = state] ELSE job
  BY DEF Settle
<1>2. state \in {"waiting", "over"} OBVIOUS
<1>3. [job EXCEPT ![f].state = state] \in [Files -> Job]
  BY <1>2, StateTyped
<1>4. attempt' = [attempt EXCEPT ![w] = Vacant]
  BY DEF Settle
<1> QED BY <1>1, <1>3, <1>4, VacantTyped

LEMMA StatusTyped ==
  ASSUME doc \in [Files -> IngestStatus \cup {"none"}],
         att \in [Files -> AttachmentStatus \cup {"none"}],
         NEW f, NEW status \in {"processing", "ready", "failed"},
         SetStatus(f, status, status)
  PROVE  /\ doc' \in [Files -> IngestStatus \cup {"none"}]
         /\ att' \in [Files -> AttachmentStatus \cup {"none"}]
BY DEF SetStatus, IngestStatus, AttachmentStatus

LEMMA ObjectTyped ==
  ASSUME NEW S, object \in [Files -> S], NEW f, NEW how \in S, Remove(f, how)
  PROVE  object' \in [Files -> S]
BY DEF Remove

\* Every step keeps every variable in its type.
LEMMA TypeStep == TypeInv /\ [Next]_vars => TypeOK'
<1> SUFFICES ASSUME TypeOK, AttemptsHaveFiles, [Next]_vars PROVE TypeOK'
  BY DEF TypeInv
<1> USE DeliveriesAssumption, FaultsAssumption
<1>1. ASSUME NEW f \in Files, PutObject(f) PROVE TypeOK'
  BY <1>1 DEF PutObject, UploadAt, rows, TypeOK,
     IngestStatus, AttachmentStatus
<1>2. ASSUME NEW f \in Files, RecordUpload(f) PROVE TypeOK'
  BY <1>2 DEF RecordUpload, UploadAt, rows, TypeOK,
     IngestStatus, AttachmentStatus
<1>3. ASSUME NEW f \in Files, UndoPut(f) PROVE TypeOK'
  BY <1>3 DEF UndoPut, UploadAt, Remove, rows, TypeOK,
     IngestStatus, AttachmentStatus
<1>4. ASSUME NEW f \in Files, Enqueue(f) PROVE TypeOK'
  <2>1. [job EXCEPT ![f].state = "waiting"] \in [Files -> Job]
    BY StateTyped DEF TypeOK
  <2>2. job' \in [Files -> Job]
    BY <1>4, <2>1 DEF Enqueue, Queued, TypeOK
  <2> QED BY <1>4, <2>2 DEF Enqueue, UploadAt, rows, TypeOK
<1>5. ASSUME NEW f \in Files, MarkUploadFailed(f) PROVE TypeOK'
  BY <1>5 DEF MarkUploadFailed, UploadAt, SetStatus, rows, TypeOK,
     IngestStatus, AttachmentStatus
<1>6. ASSUME NEW f \in Files, WithdrawObject(f) PROVE TypeOK'
  BY <1>6 DEF WithdrawObject, UploadAt, Remove, rows, TypeOK,
     IngestStatus, AttachmentStatus
<1>7. ASSUME NEW f \in Files, UploadFault(f) PROVE TypeOK'
  BY <1>7 DEF UploadFault, UploadAt, rows, TypeOK,
     IngestStatus, AttachmentStatus
<1>8. ASSUME NEW f \in Files, Stall(f) PROVE TypeOK'
  BY <1>8 DEF Stall, rows, TypeOK,
     Job, IngestStatus, AttachmentStatus
<1>9. ASSUME NEW w \in Workers, NEW f \in Files, Deliver(w, f) PROVE TypeOK'
  <2>1. job' \in [Files -> Job]
    BY <1>9 DEF Deliver, TypeOK, Job
  <2>2. [pc |-> "load", file |-> f, delivery |-> job[f].count + 1, old |-> {}] \in Attempt
    BY <1>9 DEF Deliver, TypeOK, Job, Attempt
  <2>3. attempt' \in [Workers -> Attempt]
    BY <1>9, <2>2 DEF Deliver, TypeOK
  <2>4. UNCHANGED <<rows, object, upload, deleter, kbDelete, cleanup, faults>>
    BY <1>9 DEF Deliver
  <2> QED BY <2>1, <2>3, <2>4 DEF rows, TypeOK
<1>10. ASSUME NEW w \in Workers, LoadDocument(w) PROVE TypeOK'
  BY <1>10, PcTyped, SettleTyped DEF LoadDocument, AttemptAt, AttemptPC, rows, TypeOK
<1>11. ASSUME NEW w \in Workers, StartProcessing(w) PROVE TypeOK'
  BY <1>11, PcTyped, StatusTyped DEF StartProcessing, AttemptAt, AttemptPC, TypeOK
<1>12. ASSUME NEW w \in Workers, ExtractText(w) PROVE TypeOK'
  <2>1. AttemptAt(w, "write") \/ AttemptAt(w, "fail")
    BY <1>12 DEF ExtractText
  <2>2. attempt' \in [Workers -> Attempt]
    BY <2>1, PcTyped DEF AttemptAt, AttemptPC, TypeOK
  <2> QED BY <1>12, <2>2 DEF ExtractText, rows, TypeOK
<1>13. ASSUME NEW w \in Workers, BeginWrite(w) PROVE TypeOK'
  <2>1. attempt[w].file \in Files => chunks[attempt[w].file] \in SUBSET (0..Deliveries)
    BY DEF TypeOK
  <2>2. attempt[w].file \in Files
    BY <1>13 DEF BeginWrite, AttemptsHaveFiles
  <2>3. attempt' \in [Workers -> Attempt]
    BY <1>13, <2>1, <2>2, OldTyped DEF BeginWrite, AttemptPC, TypeOK
  <2> QED BY <1>13, <2>3 DEF BeginWrite, rows, TypeOK
<1>14. ASSUME NEW w \in Workers, CommitWrite(w) PROVE TypeOK'
  <2> DEFINE f == attempt[w].file
  <2>1. {attempt[w].delivery} \in SUBSET (0..Deliveries)
    BY DEF TypeOK, Attempt
  <2>2. CASE doc[f] # "none" /\ chunks[f] \subseteq attempt[w].old
    <3>1. /\ chunks' = [chunks EXCEPT ![f] = {attempt[w].delivery}]
          /\ SetStatus(f, "ready", "ready")
          /\ Settle(w, TRUE)
      BY <1>14, <2>2, Zenon DEF CommitWrite
    <3>4. UNCHANGED <<kb, object, upload, deleter, kbDelete, cleanup, faults>>
      BY <1>14 DEF CommitWrite
    <3>2. chunks' \in [Files -> SUBSET (0..Deliveries)]
      BY <2>1, <3>1 DEF TypeOK
    <3> QED BY <3>1, <3>2, <3>4, StatusTyped, SettleTyped DEF TypeOK
  <2>3. CASE ~(doc[f] # "none" /\ chunks[f] \subseteq attempt[w].old)
    BY <1>14, <2>3, PcTyped DEF CommitWrite, AttemptAt, AttemptPC, TypeOK
  <2> QED BY <2>2, <2>3
<1>15. ASSUME NEW w \in Workers, MarkIngestionFailed(w) PROVE TypeOK'
  BY <1>15, StatusTyped, SettleTyped DEF MarkIngestionFailed, TypeOK
<1>16. ASSUME NEW w \in Workers, WorkerFault(w) PROVE TypeOK'
  <2>1. /\ faults' \in 0..MaxFaults
        /\ UNCHANGED <<kb, att, doc, chunks, object, upload, deleter, kbDelete, cleanup>>
    BY <1>16 DEF WorkerFault, rows, TypeOK
  <2>2. CASE attempt' = [attempt EXCEPT ![w] = Vacant] /\ UNCHANGED job
    BY <2>1, <2>2, VacantTyped DEF TypeOK
  <2>3. CASE AttemptAt(w, "fail") /\ UNCHANGED job
    BY <2>1, <2>3, PcTyped DEF AttemptAt, AttemptPC, TypeOK
  <2>4. CASE Settle(w, FALSE)
    BY <2>1, <2>4, SettleTyped DEF TypeOK
  <2> QED BY <1>16, <2>2, <2>3, <2>4 DEF WorkerFault
<1>17. ASSUME NEW d \in Deleters, NEW f \in Files, DeleteRead(d, f) PROVE TypeOK'
  BY <1>17 DEF DeleteRead, rows, TypeOK,
     DeleteRequest, NoRequest, IngestStatus, AttachmentStatus
<1>18. ASSUME NEW d \in Deleters, DeleteObject(d) PROVE TypeOK'
  <2>1. deleter' \in [Deleters -> DeleteRequest]
    BY <1>18 DEF DeleteObject, TypeOK, DeleteRequest
  <2> QED BY <1>18, <2>1, ObjectTyped DEF DeleteObject, rows, TypeOK
<1>19. ASSUME NEW d \in Deleters, DeleteRows(d) PROVE TypeOK'
  BY <1>19 DEF DeleteRows, rows, TypeOK,
     DeleteRequest, NoRequest, IngestStatus, AttachmentStatus
<1>20. ASSUME NEW d \in Deleters, DeleteFault(d) PROVE TypeOK'
  BY <1>20 DEF DeleteFault, rows, TypeOK,
     DeleteRequest, NoRequest, IngestStatus, AttachmentStatus
<1>21. CASE KbDeleteRead
  BY <1>21 DEF KbDeleteRead, rows, TypeOK,
     KbDeleteRequest, NoKbDelete, IngestStatus, AttachmentStatus
<1>22. ASSUME NEW f \in Files, KbDeleteObject(f) PROVE TypeOK'
  BY <1>22 DEF KbDeleteObject, Remove, rows, TypeOK,
     KbDeleteRequest, NoKbDelete, IngestStatus, AttachmentStatus
<1>23. CASE KbDeleteRows
  <2>1. doc' \in [Files -> IngestStatus \cup {"none"}] /\ kb' \in BOOLEAN
    BY <1>23 DEF KbDeleteRows, rows, TypeOK
  <2>2. chunks' \in [Files -> SUBSET (0..Deliveries)]
    BY <1>23 DEF KbDeleteRows, rows, TypeOK
  <2>3. att' \in [Files -> AttachmentStatus \cup {"none"}]
    BY <1>23 DEF KbDeleteRows, rows, TypeOK
  <2>4. kbDelete' \in KbDeleteRequest
    BY <1>23 DEF KbDeleteRows, NoKbDelete, KbDeleteRequest
  <2> QED BY <1>23, <2>1, <2>2, <2>3, <2>4 DEF KbDeleteRows, TypeOK
<1>24. CASE KbDeleteFault
  BY <1>24 DEF KbDeleteFault, rows, TypeOK,
     KbDeleteRequest, NoKbDelete, IngestStatus, AttachmentStatus
<1>25. CASE ListOrphans
  BY <1>25 DEF ListOrphans, rows, TypeOK,
     CleanupPass, NoCleanup, IngestStatus, AttachmentStatus
<1>26. CASE ReadCandidates
  BY <1>26 DEF ReadCandidates, rows, TypeOK,
     CleanupPass, NoCleanup, IngestStatus, AttachmentStatus
<1>27. ASSUME NEW f \in Files, PurgeObject(f) PROVE TypeOK'
  <2>1. cleanup' \in CleanupPass
    BY <1>27 DEF PurgeObject, TypeOK, CleanupPass
  <2>2. object' \in [Files -> {"none", "stored", "withdrawn", "deleted", "reaped"}]
    BY <1>27, ObjectTyped DEF PurgeObject, TypeOK
  <2> QED BY <1>27, <2>1, <2>2 DEF PurgeObject, rows, TypeOK
<1>28. CASE DeleteOrphans
  BY <1>28 DEF DeleteOrphans, rows, TypeOK,
     CleanupPass, NoCleanup, IngestStatus, AttachmentStatus
<1>29. CASE CleanupFault
  BY <1>29 DEF CleanupFault, rows, TypeOK,
     CleanupPass, NoCleanup, IngestStatus, AttachmentStatus
<1>30. CASE UNCHANGED vars
  BY <1>30 DEF vars, TypeOK
<1> QED
  BY <1>1, <1>2, <1>3, <1>4, <1>5, <1>6, <1>7, <1>8, <1>9, <1>10, <1>11, <1>12, <1>13,
     <1>14, <1>15, <1>16, <1>17, <1>18, <1>19, <1>20, <1>21, <1>22, <1>23, <1>24, <1>25,
     <1>26, <1>27, <1>28, <1>29, <1>30 DEF Next, FinishUpload, Ingest, FinishDelete,
     FinishKbDelete, Cleanup

LEMMA FilesStep == TypeInv /\ [Next]_vars => AttemptsHaveFiles'
<1> SUFFICES ASSUME TypeOK, AttemptsHaveFiles, [Next]_vars PROVE AttemptsHaveFiles'
  BY DEF TypeInv
<1> USE DEF AttemptsHaveFiles
<1>1. ASSUME NEW f \in Files, PutObject(f) PROVE AttemptsHaveFiles'
  BY <1>1 DEF PutObject
<1>2. ASSUME NEW f \in Files, RecordUpload(f) PROVE AttemptsHaveFiles'
  BY <1>2 DEF RecordUpload
<1>3. ASSUME NEW f \in Files, UndoPut(f) PROVE AttemptsHaveFiles'
  BY <1>3 DEF UndoPut
<1>4. ASSUME NEW f \in Files, Enqueue(f) PROVE AttemptsHaveFiles'
  BY <1>4 DEF Enqueue
<1>5. ASSUME NEW f \in Files, MarkUploadFailed(f) PROVE AttemptsHaveFiles'
  BY <1>5 DEF MarkUploadFailed
<1>6. ASSUME NEW f \in Files, WithdrawObject(f) PROVE AttemptsHaveFiles'
  BY <1>6 DEF WithdrawObject
<1>7. ASSUME NEW f \in Files, UploadFault(f) PROVE AttemptsHaveFiles'
  BY <1>7 DEF UploadFault
<1>8. ASSUME NEW f \in Files, Stall(f) PROVE AttemptsHaveFiles'
  BY <1>8 DEF Stall
<1>9. ASSUME NEW w \in Workers, NEW f \in Files, Deliver(w, f) PROVE AttemptsHaveFiles'
  BY <1>9 DEF Deliver, rows, TypeOK, Attempt, Vacant
<1>10. ASSUME NEW w \in Workers, LoadDocument(w) PROVE AttemptsHaveFiles'
  BY <1>10 DEF LoadDocument, AttemptAt, Settle, rows, TypeOK, Attempt, Vacant
<1>11. ASSUME NEW w \in Workers, StartProcessing(w) PROVE AttemptsHaveFiles'
  BY <1>11 DEF StartProcessing, AttemptAt, SetStatus, rows, TypeOK, Attempt, Vacant
<1>12. ASSUME NEW w \in Workers, ExtractText(w) PROVE AttemptsHaveFiles'
  BY <1>12 DEF ExtractText, AttemptAt, rows, TypeOK, Attempt, Vacant
<1>13. ASSUME NEW w \in Workers, BeginWrite(w) PROVE AttemptsHaveFiles'
  BY <1>13 DEF BeginWrite, rows, TypeOK, Attempt, Vacant
<1>14. ASSUME NEW w \in Workers, CommitWrite(w) PROVE AttemptsHaveFiles'
  BY <1>14 DEF CommitWrite, AttemptAt, SetStatus, Settle, rows, TypeOK, Attempt, Vacant
<1>15. ASSUME NEW w \in Workers, MarkIngestionFailed(w) PROVE AttemptsHaveFiles'
  BY <1>15 DEF MarkIngestionFailed, SetStatus, Settle, rows, TypeOK, Attempt, Vacant
<1>16. ASSUME NEW w \in Workers, WorkerFault(w) PROVE AttemptsHaveFiles'
  BY <1>16 DEF WorkerFault, AttemptAt, Settle, rows, TypeOK, Attempt, Vacant
<1>17. ASSUME NEW d \in Deleters, NEW f \in Files, DeleteRead(d, f) PROVE AttemptsHaveFiles'
  BY <1>17 DEF DeleteRead
<1>18. ASSUME NEW d \in Deleters, DeleteObject(d) PROVE AttemptsHaveFiles'
  BY <1>18 DEF DeleteObject
<1>19. ASSUME NEW d \in Deleters, DeleteRows(d) PROVE AttemptsHaveFiles'
  BY <1>19 DEF DeleteRows
<1>20. ASSUME NEW d \in Deleters, DeleteFault(d) PROVE AttemptsHaveFiles'
  BY <1>20 DEF DeleteFault
<1>21. CASE KbDeleteRead
  BY <1>21 DEF KbDeleteRead
<1>22. ASSUME NEW f \in Files, KbDeleteObject(f) PROVE AttemptsHaveFiles'
  BY <1>22 DEF KbDeleteObject
<1>23. CASE KbDeleteRows
  BY <1>23 DEF KbDeleteRows
<1>24. CASE KbDeleteFault
  BY <1>24 DEF KbDeleteFault
<1>25. CASE ListOrphans
  BY <1>25 DEF ListOrphans
<1>26. CASE ReadCandidates
  BY <1>26 DEF ReadCandidates
<1>27. ASSUME NEW f \in Files, PurgeObject(f) PROVE AttemptsHaveFiles'
  BY <1>27 DEF PurgeObject
<1>28. CASE DeleteOrphans
  BY <1>28 DEF DeleteOrphans
<1>29. CASE CleanupFault
  BY <1>29 DEF CleanupFault
<1>30. CASE UNCHANGED vars
  BY <1>30 DEF vars
<1> QED
  BY <1>1, <1>2, <1>3, <1>4, <1>5, <1>6, <1>7, <1>8, <1>9, <1>10, <1>11, <1>12, <1>13,
     <1>14, <1>15, <1>16, <1>17, <1>18, <1>19, <1>20, <1>21, <1>22, <1>23, <1>24, <1>25,
     <1>26, <1>27, <1>28, <1>29, <1>30 DEF Next, FinishUpload, Ingest, FinishDelete,
     FinishKbDelete, Cleanup

LEMMA TypeInit == Init => TypeInv
BY DeliveriesAssumption, FaultsAssumption, VacantTyped DEF Init, TypeInv, TypeOK,
   AttemptsHaveFiles, Job, DeleteRequest, KbDeleteRequest, CleanupPass, Vacant, NoRequest,
   NoKbDelete, NoCleanup

\* Every variable keeps its type.
THEOREM TypeCorrect == Spec => []TypeOK
<1>1. Init => TypeInv
  BY TypeInit
<1>2. TypeInv /\ [Next]_vars => TypeInv'
  BY TypeStep, FilesStep DEF TypeInv
<1>3. TypeInv => TypeOK
  BY DEF TypeInv
<1> QED BY <1>1, <1>2, <1>3, PTL DEF Spec

-----------------------------------------------------------------------------
(* The rows of a file.                                                     *)

\* The chunks of a document come from one delivery at the most.
OneSource ==
  \A f \in Files : /\ \E n \in Nat : chunks[f] \subseteq {n}
                   /\ doc[f] = "ready" => chunks[f] # {}

RowsInv == RowsAgree /\ NoStrayChunks /\ OneSource

LEMMA RowsStep == TypeInv /\ RowsInv /\ [Next]_vars => RowsInv'
<1> SUFFICES ASSUME TypeOK, AttemptsHaveFiles, RowsInv, [Next]_vars PROVE RowsInv'
  BY DEF TypeInv
<1> USE DEF RowsInv, RowsAgree, NoStrayChunks, OneSource
<1>1. ASSUME NEW f \in Files, PutObject(f) PROVE RowsInv'
  BY <1>1 DEF PutObject, rows
<1>2. ASSUME NEW f \in Files, RecordUpload(f) PROVE RowsInv'
  BY <1>2 DEF RecordUpload, SetStatus, rows, TypeOK
<1>3. ASSUME NEW f \in Files, UndoPut(f) PROVE RowsInv'
  BY <1>3 DEF UndoPut, rows
<1>4. ASSUME NEW f \in Files, Enqueue(f) PROVE RowsInv'
  BY <1>4 DEF Enqueue, rows
<1>5. ASSUME NEW f \in Files, MarkUploadFailed(f) PROVE RowsInv'
  BY <1>5 DEF MarkUploadFailed, SetStatus, rows, TypeOK
<1>6. ASSUME NEW f \in Files, WithdrawObject(f) PROVE RowsInv'
  BY <1>6 DEF WithdrawObject, rows
<1>7. ASSUME NEW f \in Files, UploadFault(f) PROVE RowsInv'
  BY <1>7 DEF UploadFault, rows
<1>8. ASSUME NEW f \in Files, Stall(f) PROVE RowsInv'
  BY <1>8 DEF Stall, rows
<1>9. ASSUME NEW w \in Workers, NEW f \in Files, Deliver(w, f) PROVE RowsInv'
  BY <1>9 DEF Deliver, rows
<1>10. ASSUME NEW w \in Workers, LoadDocument(w) PROVE RowsInv'
  BY <1>10 DEF LoadDocument, rows
<1>11. ASSUME NEW w \in Workers, StartProcessing(w) PROVE RowsInv'
  BY <1>11 DEF StartProcessing, SetStatus, rows, TypeOK
<1>12. ASSUME NEW w \in Workers, ExtractText(w) PROVE RowsInv'
  BY <1>12 DEF ExtractText, rows
<1>13. ASSUME NEW w \in Workers, BeginWrite(w) PROVE RowsInv'
  BY <1>13 DEF BeginWrite, rows
<1>14. ASSUME NEW w \in Workers, CommitWrite(w) PROVE RowsInv'
  <2> DEFINE f == attempt[w].file
  <2>1. f \in Files
    BY <1>14 DEF CommitWrite, AttemptsHaveFiles
  <2>2. CASE UNCHANGED <<att, doc, chunks>>
    BY <2>2
  <2>3. CASE /\ doc[f] # "none"
             /\ chunks' = [chunks EXCEPT ![f] = {attempt[w].delivery}]
             /\ SetStatus(f, "ready", "ready")
    <3>1. attempt[w].delivery \in Nat
      BY DeliveriesAssumption DEF TypeOK, Attempt
    <3> QED BY <2>1, <2>3, <3>1 DEF SetStatus, TypeOK
  <2> QED BY <1>14, <2>2, <2>3, Zenon DEF CommitWrite
<1>15. ASSUME NEW w \in Workers, MarkIngestionFailed(w) PROVE RowsInv'
  BY <1>15 DEF MarkIngestionFailed, SetStatus, rows, TypeOK
<1>16. ASSUME NEW w \in Workers, WorkerFault(w) PROVE RowsInv'
  BY <1>16 DEF WorkerFault, rows
<1>17. ASSUME NEW d \in Deleters, NEW f \in Files, DeleteRead(d, f) PROVE RowsInv'
  BY <1>17 DEF DeleteRead, rows
<1>18. ASSUME NEW d \in Deleters, DeleteObject(d) PROVE RowsInv'
  BY <1>18 DEF DeleteObject, rows
<1>19. ASSUME NEW d \in Deleters, DeleteRows(d) PROVE RowsInv'
  BY <1>19 DEF DeleteRows, SetStatus, rows, TypeOK
<1>20. ASSUME NEW d \in Deleters, DeleteFault(d) PROVE RowsInv'
  BY <1>20 DEF DeleteFault, rows
<1>21. CASE KbDeleteRead
  BY <1>21 DEF KbDeleteRead, rows
<1>22. ASSUME NEW f \in Files, KbDeleteObject(f) PROVE RowsInv'
  BY <1>22 DEF KbDeleteObject, rows
<1>23. CASE KbDeleteRows
  BY <1>23 DEF KbDeleteRows, SetStatus, rows, TypeOK
<1>24. CASE KbDeleteFault
  BY <1>24 DEF KbDeleteFault, rows
<1>25. CASE ListOrphans
  BY <1>25 DEF ListOrphans, rows
<1>26. CASE ReadCandidates
  BY <1>26 DEF ReadCandidates, rows
<1>27. ASSUME NEW f \in Files, PurgeObject(f) PROVE RowsInv'
  BY <1>27 DEF PurgeObject, rows
<1>28. CASE DeleteOrphans
  BY <1>28 DEF DeleteOrphans, Orphan, TypeOK
<1>29. CASE CleanupFault
  BY <1>29 DEF CleanupFault, rows
<1>30. CASE UNCHANGED vars
  BY <1>30 DEF vars
<1> QED
  BY <1>1, <1>2, <1>3, <1>4, <1>5, <1>6, <1>7, <1>8, <1>9, <1>10, <1>11, <1>12, <1>13,
     <1>14, <1>15, <1>16, <1>17, <1>18, <1>19, <1>20, <1>21, <1>22, <1>23, <1>24, <1>25,
     <1>26, <1>27, <1>28, <1>29, <1>30 DEF Next, FinishUpload, Ingest, FinishDelete,
     FinishKbDelete, Cleanup

LEMMA RowsInductive == Spec => [](TypeInv /\ RowsInv)
<1>1. Init => TypeInv /\ RowsInv
  BY TypeInit DEF Init, RowsInv, RowsAgree, NoStrayChunks, OneSource
<1>2. (TypeInv /\ RowsInv) /\ [Next]_vars => (TypeInv /\ RowsInv)'
  BY TypeStep, FilesStep, RowsStep DEF TypeInv
<1> QED BY <1>1, <1>2, PTL DEF Spec

\* However many attempts write a document, and however late, it has the chunks of one.
THEOREM ReadyDocumentsAreWhole == Spec => []ReadyIsWhole
<1>1. RowsInv => ReadyIsWhole
  <2> SUFFICES ASSUME RowsInv, NEW f \in Files
               PROVE  Cardinality(chunks[f]) <= 1 /\ (doc[f] = "ready" => chunks[f] # {})
    BY DEF ReadyIsWhole
  <2>1. PICK n \in Nat : chunks[f] \subseteq {n}
    BY DEF RowsInv, OneSource
  <2>2. chunks[f] = {} \/ chunks[f] = {n}
    BY <2>1
  <2>3. Cardinality({}) = 0 /\ Cardinality({n}) = 1
    BY FS_EmptySet, FS_Singleton
  <2> QED BY <2>2, <2>3 DEF RowsInv, OneSource
<1> QED BY <1>1, RowsInductive, PTL

\* Deleting a document leaves no chunks, whatever attempt is still writing them.
THEOREM ChunksHaveDocument == Spec => []NoStrayChunks
<1>1. RowsInv => NoStrayChunks
  BY DEF RowsInv
<1> QED BY <1>1, RowsInductive, PTL

\* The document and its attachment are never seen with different statuses.
THEOREM RowsStayTogether == Spec => []RowsAgree
<1>1. RowsInv => RowsAgree
  BY DEF RowsInv
<1> QED BY <1>1, RowsInductive, PTL

-----------------------------------------------------------------------------
(* The object of a file.                                                   *)

\* The upload is past the insert of the rows, which happens once.
Recorded(f) == upload[f] \notin {"idle", "insert"}

RowsAreRecorded ==
  \A f \in Files : att[f] # "none" \/ doc[f] # "none" => Recorded(f)

\* Whoever is about to delete an attachment's row has its object out of the bucket.
DeletersRemoveFirst ==
  \A d \in Deleters : deleter[d].pc # "idle" =>
    /\ deleter[d].file \in Files
    /\ Recorded(deleter[d].file)
    /\ deleter[d].pc = "rows" => object[deleter[d].file] # "stored"

KbDeleteRemovesFirst ==
  kbDelete.pc = "objects" =>
    \A f \in kbDelete.listed : Recorded(f) /\ (f \notin kbDelete.todo => object[f] #
       "stored")

\* What the retention job took for an orphan can get no document any more.
CleanupTakesOrphans ==
  /\ \A f \in cleanup.todo \cup cleanup.purged : Recorded(f) /\ doc[f] = "none"
  /\ \A f \in cleanup.purged : object[f] # "stored"

ReapedIsGone == \A f \in Files : object[f] = "reaped" => Recorded(f) /\ doc[f] = "none"

ObjectInv == /\ RowsAreRecorded
             /\ DeletersRemoveFirst
             /\ KbDeleteRemovesFirst
             /\ CleanupTakesOrphans
             /\ ReapedIsGone
             /\ ObjectsAreAttributed

\* A status update creates no row and removes none.
LEMMA StatusKeepsObjects ==
  ASSUME TypeOK, ObjectInv, NEW f, NEW status \in {"processing", "ready", "failed"},
         SetStatus(f, status, status),
         UNCHANGED <<object, upload, deleter, kbDelete, cleanup>>
  PROVE  ObjectInv'
<1>1. \A g \in Files : /\ doc'[g] = "none" <=> doc[g] = "none"
                       /\ att'[g] = "none" <=> att[g] = "none"
  BY DEF SetStatus, TypeOK
<1>2. cleanup.todo \cup cleanup.purged \subseteq Files
  BY DEF TypeOK, CleanupPass
<1> QED BY <1>1, <1>2 DEF ObjectInv, RowsAreRecorded, DeletersRemoveFirst,
     KbDeleteRemovesFirst, CleanupTakesOrphans, ReapedIsGone, ObjectsAreAttributed, Recorded

LEMMA ObjectsStep == TypeInv /\ RowsAgree /\ ObjectInv /\ [Next]_vars => ObjectInv'
<1> SUFFICES ASSUME TypeOK, RowsAgree, ObjectInv, [Next]_vars PROVE ObjectInv'
  BY DEF TypeInv
<1> USE DEF ObjectInv, RowsAreRecorded, DeletersRemoveFirst, KbDeleteRemovesFirst,
        CleanupTakesOrphans, ReapedIsGone, ObjectsAreAttributed, Recorded
<1>1. ASSUME NEW f \in Files, PutObject(f) PROVE ObjectInv'
  BY <1>1 DEF PutObject, UploadAt, rows, TypeOK, DeleteRequest, KbDeleteRequest, CleanupPass
<1>2. ASSUME NEW f \in Files, RecordUpload(f) PROVE ObjectInv'
  BY <1>2 DEF RecordUpload, UploadAt, rows, TypeOK, DeleteRequest, KbDeleteRequest,
     CleanupPass
<1>3. ASSUME NEW f \in Files, UndoPut(f) PROVE ObjectInv'
  BY <1>3 DEF UndoPut, UploadAt, Remove, rows, TypeOK, DeleteRequest, KbDeleteRequest,
     CleanupPass
<1>4. ASSUME NEW f \in Files, Enqueue(f) PROVE ObjectInv'
  BY <1>4 DEF Enqueue, UploadAt, Queued, rows, TypeOK, DeleteRequest, KbDeleteRequest,
     CleanupPass
<1>5. ASSUME NEW f \in Files, MarkUploadFailed(f) PROVE ObjectInv'
  BY <1>5 DEF MarkUploadFailed, UploadAt, SetStatus, rows, TypeOK, DeleteRequest,
     KbDeleteRequest, CleanupPass, SetStatus
<1>6. ASSUME NEW f \in Files, WithdrawObject(f) PROVE ObjectInv'
  BY <1>6 DEF WithdrawObject, UploadAt, Remove, rows, TypeOK, DeleteRequest,
     KbDeleteRequest, CleanupPass
<1>7. ASSUME NEW f \in Files, UploadFault(f) PROVE ObjectInv'
  BY <1>7 DEF UploadFault, UploadAt, rows, TypeOK, DeleteRequest, KbDeleteRequest,
     CleanupPass
<1>8. ASSUME NEW f \in Files, Stall(f) PROVE ObjectInv'
  BY <1>8 DEF Stall, rows
<1>9. ASSUME NEW w \in Workers, NEW f \in Files, Deliver(w, f) PROVE ObjectInv'
  BY <1>9 DEF Deliver, rows
<1>10. ASSUME NEW w \in Workers, LoadDocument(w) PROVE ObjectInv'
  BY <1>10 DEF LoadDocument, AttemptAt, Settle, rows
<1>11. ASSUME NEW w \in Workers, StartProcessing(w) PROVE ObjectInv'
  BY <1>11, StatusKeepsObjects DEF StartProcessing
<1>12. ASSUME NEW w \in Workers, ExtractText(w) PROVE ObjectInv'
  BY <1>12 DEF ExtractText, AttemptAt, rows
<1>13. ASSUME NEW w \in Workers, BeginWrite(w) PROVE ObjectInv'
  BY <1>13 DEF BeginWrite, rows
<1>14. ASSUME NEW w \in Workers, CommitWrite(w) PROVE ObjectInv'
  <2>1. UNCHANGED <<object, upload, deleter, kbDelete, cleanup>>
    BY <1>14 DEF CommitWrite
  <2>2. CASE SetStatus(attempt[w].file, "ready", "ready")
    BY <2>1, <2>2, StatusKeepsObjects
  <2>3. CASE UNCHANGED <<att, doc>>
    BY <2>1, <2>3
  <2> QED BY <1>14, <2>2, <2>3, Zenon DEF CommitWrite
<1>15. ASSUME NEW w \in Workers, MarkIngestionFailed(w) PROVE ObjectInv'
  BY <1>15, StatusKeepsObjects DEF MarkIngestionFailed
<1>16. ASSUME NEW w \in Workers, WorkerFault(w) PROVE ObjectInv'
  BY <1>16 DEF WorkerFault, AttemptAt, Settle, rows
<1>17. ASSUME NEW d \in Deleters, NEW f \in Files, DeleteRead(d, f) PROVE ObjectInv'
  BY <1>17 DEF DeleteRead, rows, TypeOK, DeleteRequest, KbDeleteRequest, CleanupPass,
     NoRequest, RowsAgree
<1>18. ASSUME NEW d \in Deleters, DeleteObject(d) PROVE ObjectInv'
  BY <1>18 DEF DeleteObject, Remove, rows, TypeOK, DeleteRequest, KbDeleteRequest,
     CleanupPass, NoRequest
<1>19. ASSUME NEW d \in Deleters, DeleteRows(d) PROVE ObjectInv'
  BY <1>19 DEF DeleteRows, rows, TypeOK, DeleteRequest, KbDeleteRequest, CleanupPass,
     NoRequest
<1>20. ASSUME NEW d \in Deleters, DeleteFault(d) PROVE ObjectInv'
  BY <1>20 DEF DeleteFault, rows, TypeOK, DeleteRequest, KbDeleteRequest, CleanupPass,
     NoRequest
<1>21. CASE KbDeleteRead
  BY <1>21 DEF KbDeleteRead, rows, TypeOK, DeleteRequest, KbDeleteRequest, CleanupPass,
     NoKbDelete
<1>22. ASSUME NEW f \in Files, KbDeleteObject(f) PROVE ObjectInv'
  BY <1>22 DEF KbDeleteObject, Remove, rows, TypeOK, DeleteRequest, KbDeleteRequest,
     CleanupPass, NoKbDelete
<1>23. CASE KbDeleteRows
  BY <1>23 DEF KbDeleteRows, rows, TypeOK, DeleteRequest, KbDeleteRequest, CleanupPass,
     NoKbDelete
<1>24. CASE KbDeleteFault
  BY <1>24 DEF KbDeleteFault, rows, TypeOK, DeleteRequest, KbDeleteRequest, CleanupPass,
     NoKbDelete
<1>25. CASE ListOrphans
  BY <1>25 DEF ListOrphans, rows, TypeOK, DeleteRequest, KbDeleteRequest, CleanupPass,
     Orphan, NoCleanup
<1>26. CASE ReadCandidates
  BY <1>26 DEF ReadCandidates, rows, TypeOK, DeleteRequest, KbDeleteRequest,
     CleanupPass, Orphan, NoCleanup
<1>27. ASSUME NEW f \in Files, PurgeObject(f) PROVE ObjectInv'
  BY <1>27 DEF PurgeObject, Remove, rows, TypeOK, DeleteRequest, KbDeleteRequest,
     CleanupPass, Orphan, NoCleanup
<1>28. CASE DeleteOrphans
  BY <1>28 DEF DeleteOrphans, rows, TypeOK, DeleteRequest, KbDeleteRequest, CleanupPass,
     Orphan, NoCleanup
<1>29. CASE CleanupFault
  BY <1>29 DEF CleanupFault, rows, TypeOK, DeleteRequest, KbDeleteRequest, CleanupPass,
     Orphan, NoCleanup
<1>30. CASE UNCHANGED vars
  BY <1>30 DEF vars
<1> QED
  BY <1>1, <1>2, <1>3, <1>4, <1>5, <1>6, <1>7, <1>8, <1>9, <1>10, <1>11, <1>12, <1>13,
     <1>14, <1>15, <1>16, <1>17, <1>18, <1>19, <1>20, <1>21, <1>22, <1>23, <1>24, <1>25,
     <1>26, <1>27, <1>28, <1>29, <1>30 DEF Next, FinishUpload, Ingest, FinishDelete,
     FinishKbDelete, Cleanup

LEMMA ObjectsInductive == Spec => []ObjectInv
<1>1. Init => ObjectInv
  BY DEF Init, ObjectInv, RowsAreRecorded, DeletersRemoveFirst, KbDeleteRemovesFirst,
     CleanupTakesOrphans, ReapedIsGone, ObjectsAreAttributed, NoRequest, NoKbDelete,
        NoCleanup
<1>2. (TypeInv /\ RowsInv) /\ ObjectInv /\ [Next]_vars => ObjectInv'
  BY ObjectsStep DEF RowsInv
<1> QED BY <1>1, <1>2, RowsInductive, PTL DEF Spec

\* No interleaving of requests, attempts, faults and passes strands an object.
THEOREM NoObjectIsStranded == Spec => []ObjectsAreAttributed
<1>1. ObjectInv => ObjectsAreAttributed
  BY DEF ObjectInv
<1> QED BY <1>1, ObjectsInductive, PTL

\* The retention job never takes the object of a document.
THEOREM RetentionIsSafe == Spec => []RetentionSparesDocuments
<1>1. ObjectInv => RetentionSparesDocuments
  BY DEF ObjectInv, ReapedIsGone, RetentionSparesDocuments
<1> QED BY <1>1, ObjectsInductive, PTL

-----------------------------------------------------------------------------
(* The limiter.                                                            *)

\* Division by a positive number.
LEMMA Division ==
  ASSUME NEW a \in Nat, NEW b \in Nat \ {0}
  PROVE  /\ a \div b \in Nat
         /\ b * (a \div b) <= a /\ a < b * (a \div b) + b
         /\ \A c \in Nat : c <= a => c \div b <= a \div b
OBVIOUS

\* A module that is instantiated has its own name for the operators of FiniteSets.
LEMMA SameCardinality == \A S : Limiter!Cardinality(S) = Cardinality(S)
BY DEF Limiter!Cardinality, Cardinality

\* When calls were sent and their scripts run.
TimesFit ==
  \A c \in Limiter!Calls :
    /\ calls[c].pc # "unused" =>
         calls[c].sent <= now /\ calls[c].sent <= calls[c].stamp /\ calls[c].stamp <= calls[c].sent + Skew
    /\ calls[c].pc = "sent" => now <= calls[c].sent + Timeout
    /\ calls[c].pc = "admitted" => calls[c].sent + calls[c].lag <= now

\* The entries of the sorted set are of calls, and are there until they are as old as a window
\* but for the skew.
EntriesFit ==
  /\ \A e \in entries : calls[e[1]].pc # "unused" /\ e[2] = calls[e[1]].stamp /\ e[2] + Window <= expiry + Skew
  /\ expiry <= now + Window
  /\ algorithm = "sliding-window" =>
       \A c \in Limiter!Admitted :
         <<c, calls[c].stamp>> \in entries \/ calls[c].stamp + Window <= now + Skew

Start(id) == Window * id

\* The calls whose scripts have run, or will not.
Settled == {c \in Limiter!Calls : calls[c].pc \notin {"unused", "sent", "buffered"}}

\* A counter outlives its window by the grace but for the skew, and has counted all that were
\* admitted until then.
WindowsFit ==
  \A id \in Limiter!Ids :
    /\ windows[id].count <= Cardinality(Settled)
    /\ windows[id].count > 0 => Start(id) + Window + Grace <= windows[id].expiry + Skew
    /\ algorithm = "fixed-window" =>
         \/ Start(id) + Window + Grace <= now + Skew
         \/ Cardinality(Limiter!InGrace(id)) <= windows[id].count

LimiterInv ==
  /\ Limiter!TypeOK /\ TimesFit /\ EntriesFit /\ WindowsFit
  /\ Limiter!SlidingLimit /\ Limiter!FixedLimit

LEMMA LimiterSets ==
  /\ IsFiniteSet(Limiter!Calls) /\ Cardinality(Limiter!Calls) \in Nat
  /\ \A S \in SUBSET Limiter!Calls : IsFiniteSet(S) /\ Cardinality(S) \in Nat
  /\ Limiter!Ids \subseteq Nat
<1>1. IsFiniteSet(Limiter!Calls)
  <2>1. MaxCalls \in Int /\ 1 \in Int
    BY LimiterAssumption
  <2>2. IsFiniteSet(1..MaxCalls)
    BY <2>1, FS_Interval
  <2> QED BY <2>2 DEF Limiter!Calls
<1>2. ASSUME NEW S \in SUBSET Limiter!Calls PROVE IsFiniteSet(S) /\ Cardinality(S) \in Nat
  BY <1>1, FS_Subset, FS_CardinalityType
<1>3. Limiter!Ids \subseteq Nat
  BY LimiterAssumption, Division DEF Limiter!Ids
<1> QED BY <1>1, <1>2, <1>3, FS_CardinalityType

LEMMA LimiterBegins == Limiter!Init => LimiterInv
<1> SUFFICES ASSUME Limiter!Init PROVE LimiterInv
  OBVIOUS
<1> USE LimiterAssumption, SameCardinality
<1>1. IsFiniteSet(Limiter!Calls) /\ Cardinality(Limiter!Calls) \in Nat
  BY LimiterSets
<1>2. Limiter!TypeOK
  <2>1. Limiter!NoCall \in Limiter!Call
    BY DEF Limiter!NoCall, Limiter!Call
  <2>2. Limiter!NoWindow \in [count : 0..Cardinality(Limiter!Calls), expiry : 0..(MaxNow + Window + Grace)]
    BY <1>1 DEF Limiter!NoWindow
  <2> HIDE DEF Limiter!Call
  <2> QED BY <2>1, <2>2 DEF Limiter!Init, Limiter!TypeOK
<1>3. Limiter!Admitted = {} /\ Settled = {}
  BY DEF Limiter!Init, Limiter!Admitted, Limiter!NoCall, Settled
<1>4. Cardinality({}) = 0
  BY FS_EmptySet
<1>5. TimesFit /\ EntriesFit
  BY <1>3 DEF Limiter!Init, TimesFit, EntriesFit, Limiter!NoCall
<1>6. \A id \in Limiter!Ids : Limiter!InGrace(id) = {}
  BY <1>3 DEF Limiter!InGrace
<1>7. \A t : Limiter!InInterval(t) = {}
  BY <1>3 DEF Limiter!InInterval
<1>8. WindowsFit
  <2>1. \A id \in Limiter!Ids : windows[id] = Limiter!NoWindow /\ Limiter!NoWindow.count = 0
    BY DEF Limiter!Init, Limiter!NoWindow
  <2>2. \A id \in Limiter!Ids : windows[id].count = 0
    BY <2>1
  <2> QED BY <1>3, <1>4, <1>6, <2>2 DEF WindowsFit
<1>9. Limiter!SlidingLimit /\ Limiter!FixedLimit
  BY <1>4, <1>6, <1>7 DEF Limiter!SlidingLimit, Limiter!FixedLimit
<1> QED BY <1>2, <1>5, <1>8, <1>9 DEF LimiterInv

\* The steps of calls that admit none.
QuietCalls ==
  \A c \in Limiter!Calls :
    /\ calls'[c].pc = "admitted" => calls[c].pc = "admitted" /\ calls'[c] = calls[c]
    /\ calls[c].pc = "admitted" => calls'[c].pc = "admitted"

LEMMA QuietKeeps ==
  ASSUME QuietCalls
  PROVE  /\ Limiter!Admitted' = Limiter!Admitted
         /\ \A t : Limiter!InInterval(t)' = Limiter!InInterval(t)
         /\ \A id : Limiter!InGrace(id)' = Limiter!InGrace(id)
<1>1. Limiter!Admitted' = Limiter!Admitted
  BY DEF QuietCalls, Limiter!Admitted
<1>2. \A c \in Limiter!Admitted : calls'[c] = calls[c]
  BY DEF QuietCalls, Limiter!Admitted
<1> QED BY <1>1, <1>2 DEF Limiter!InInterval, Limiter!InGrace

LEMMA LimiterTicks == LimiterInv /\ Limiter!Prompt /\ Limiter!Tick => LimiterInv'
<1> SUFFICES ASSUME LimiterInv, Limiter!Prompt, Limiter!Tick PROVE LimiterInv'
  OBVIOUS
<1> USE LimiterAssumption, SameCardinality, LimiterSets
<1>1. Limiter!TypeOK /\ TimesFit /\ EntriesFit /\ WindowsFit
  BY DEF LimiterInv
<1>2. /\ now \in 0..MaxNow /\ now' = now + 1 /\ now' \in 0..MaxNow
      /\ UNCHANGED <<algorithm, expiry, calls>>
      /\ entries' \subseteq entries /\ (entries' # entries => now' >= expiry /\ entries' = {})
      /\ windows' = [id \in Limiter!Ids |-> IF now' >= windows[id].expiry THEN Limiter!NoWindow ELSE windows[id]]
  BY <1>1 DEF Limiter!Tick, Limiter!TypeOK
<1>3. QuietCalls
  BY <1>2 DEF QuietCalls
<1>4. /\ Limiter!Admitted' = Limiter!Admitted
      /\ \A t : Limiter!InInterval(t)' = Limiter!InInterval(t)
      /\ \A id : Limiter!InGrace(id)' = Limiter!InGrace(id)
  BY <1>3, QuietKeeps
<1>5. Limiter!TypeOK'
  <2> DEFINE Counter == [count : 0..Limiter!Cardinality(Limiter!Calls), expiry : 0..(MaxNow + Window + Grace)]
  <2>1. Limiter!NoWindow \in Counter
    BY DEF Limiter!NoWindow
  <2>2. windows \in [Limiter!Ids -> Counter]
    BY <1>1 DEF Limiter!TypeOK
  <2> HIDE DEF Counter
  <2>3. windows' \in [Limiter!Ids -> Counter]
    BY <1>2, <2>1, <2>2
  <2>4. /\ algorithm' \in {"sliding-window", "fixed-window"} /\ entries' \subseteq Limiter!Calls \X (0..(MaxNow + Skew))
        /\ expiry' \in 0..(MaxNow + Window) /\ calls' \in [Limiter!Calls -> Limiter!Call]
    BY <1>1, <1>2 DEF Limiter!TypeOK
  <2> QED BY <1>2, <2>3, <2>4 DEF Limiter!TypeOK, Counter
<1>6. TimesFit'
  <2> SUFFICES ASSUME NEW c \in Limiter!Calls
               PROVE  /\ calls[c].pc # "unused" => calls[c].sent <= now' /\ calls[c].sent <= calls[c].stamp
                                                   /\ calls[c].stamp <= calls[c].sent + Skew
                      /\ calls[c].pc = "sent" => now' <= calls[c].sent + Timeout
                      /\ calls[c].pc = "admitted" => calls[c].sent + calls[c].lag <= now'
    BY <1>2 DEF TimesFit
  <2>1. calls[c].sent \in Nat /\ calls[c].stamp \in Nat /\ calls[c].lag \in Nat
    BY <1>1 DEF Limiter!TypeOK, Limiter!Call
  <2>2. calls[c].pc = "sent" => now - calls[c].sent < Timeout
    BY DEF Limiter!Prompt, Limiter!Lag
  <2> QED BY <1>1, <1>2, <2>1, <2>2 DEF TimesFit
<1>7. EntriesFit'
  <2>1. ASSUME NEW e \in entries'
        PROVE  calls[e[1]].pc # "unused" /\ e[2] = calls[e[1]].stamp /\ e[2] + Window <= expiry + Skew
    BY <1>1, <1>2 DEF EntriesFit
  <2>2. expiry <= now' + Window
    BY <1>1, <1>2 DEF EntriesFit, Limiter!TypeOK
  <2>3. ASSUME algorithm = "sliding-window", NEW c \in Limiter!Admitted
        PROVE  <<c, calls[c].stamp>> \in entries' \/ calls[c].stamp + Window <= now' + Skew
    <3>1. calls[c].stamp \in Nat /\ expiry \in Nat
      BY <1>1 DEF Limiter!TypeOK, Limiter!Call, Limiter!Admitted
    <3>2. CASE <<c, calls[c].stamp>> \in entries /\ entries' # entries
      <4> DEFINE e == <<c, calls[c].stamp>>
      <4>1. e \in entries /\ e[2] = calls[c].stamp
        BY <3>2
      <4>2. e[2] + Window <= expiry + Skew
        BY <1>1, <4>1 DEF EntriesFit
      <4> QED BY <1>2, <3>1, <3>2, <4>1, <4>2
    <3>3. CASE <<c, calls[c].stamp>> \notin entries
      <4>1. calls[c].stamp + Window <= now + Skew
        BY <1>1, <2>3, <3>3 DEF EntriesFit
      <4> QED BY <1>2, <3>1, <4>1
    <3> QED BY <3>2, <3>3
  <2> QED BY <1>2, <1>4, <2>1, <2>2, <2>3 DEF EntriesFit
<1>8. WindowsFit'
  <2>0. Settled' = Settled
    BY <1>2 DEF Settled
  <2> SUFFICES ASSUME NEW id \in Limiter!Ids
               PROVE  /\ windows'[id].count <= Cardinality(Settled)
                      /\ windows'[id].count > 0 => Start(id) + Window + Grace <= windows'[id].expiry + Skew
                      /\ algorithm = "fixed-window" =>
                           \/ Start(id) + Window + Grace <= now' + Skew
                           \/ Cardinality(Limiter!InGrace(id)) <= windows'[id].count
    BY <1>2, <1>4, <2>0 DEF WindowsFit
  <2>1. Start(id) \in Nat
    BY DEF Start
  <2>2. windows[id].count \in Nat /\ windows[id].expiry \in Nat
    BY <1>1 DEF Limiter!TypeOK
  <2>3. Settled \subseteq Limiter!Calls
    BY DEF Settled
  <2>4. Limiter!InGrace(id) \subseteq Limiter!Calls
    BY DEF Limiter!InGrace, Limiter!Admitted
  <2>5. Cardinality(Settled) \in Nat /\ Cardinality(Limiter!InGrace(id)) \in Nat
    BY <2>3, <2>4
  <2>6. /\ windows[id].count <= Cardinality(Settled)
        /\ windows[id].count > 0 => Start(id) + Window + Grace <= windows[id].expiry + Skew
        /\ algorithm = "fixed-window" =>
             \/ Start(id) + Window + Grace <= now + Skew
             \/ Cardinality(Limiter!InGrace(id)) <= windows[id].count
    BY <1>1 DEF WindowsFit
  <2>7. CASE now' >= windows[id].expiry
    <3>1. windows'[id] = Limiter!NoWindow /\ Limiter!NoWindow.count = 0
      BY <1>2, <2>7 DEF Limiter!NoWindow
    <3>2. windows'[id].count = 0
      BY <3>1
    <3> QED BY <1>2, <2>1, <2>2, <2>5, <2>6, <2>7, <3>2
  <2>8. CASE ~(now' >= windows[id].expiry)
    <3>1. windows'[id] = windows[id]
      BY <1>2, <2>8
    <3> QED BY <1>2, <2>1, <2>2, <2>5, <2>6, <3>1
  <2> QED BY <2>7, <2>8
<1>9. Limiter!SlidingLimit' /\ Limiter!FixedLimit'
  BY <1>2, <1>4 DEF LimiterInv, Limiter!SlidingLimit, Limiter!FixedLimit
<1> QED BY <1>5, <1>6, <1>7, <1>8, <1>9 DEF LimiterInv

\* Calls that are sent or given up.
Unanswered(c) == (\E offset \in 0..Skew : Limiter!CheckRateLimit(c, offset)) \/ Limiter!FailOpen(c)

LEMMA LimiterWaits == ASSUME LimiterInv, NEW c \in Limiter!Calls, Unanswered(c) PROVE LimiterInv'
<1> USE LimiterAssumption, SameCardinality, LimiterSets
<1>1. Limiter!TypeOK /\ TimesFit /\ EntriesFit /\ WindowsFit
  BY DEF LimiterInv
<1>2. UNCHANGED <<algorithm, now, entries, expiry, windows>>
  BY DEF Unanswered, Limiter!CheckRateLimit, Limiter!FailOpen
<1>3. PICK call : /\ calls' = [calls EXCEPT ![c] = call] /\ call \in Limiter!Call
                  /\ calls[c].pc \in {"unused", "sent"} /\ call.pc \in {"sent", "opened", "buffered"}
                  /\ call.pc = "sent" => call.sent = now
                  /\ call.sent <= now /\ call.sent <= call.stamp /\ call.stamp <= call.sent + Skew
                  /\ calls[c].pc # "unused" => call.stamp = calls[c].stamp
  <2>1. CASE \E offset \in 0..Skew : Limiter!CheckRateLimit(c, offset)
    <3>1. PICK offset \in 0..Skew : Limiter!CheckRateLimit(c, offset)
      BY <2>1
    <3> DEFINE call == [pc |-> "sent", sent |-> now, stamp |-> now + offset, lag |-> 0]
    <3>2. now \in 0..MaxNow
      BY <1>1 DEF Limiter!TypeOK
    <3>3. /\ call.pc = "sent" /\ call.sent = now /\ call.stamp = now + offset
          /\ call \in Limiter!Call
      BY <3>2 DEF Limiter!Call
    <3>4. calls' = [calls EXCEPT ![c] = call] /\ calls[c].pc = "unused"
      BY <3>1 DEF Limiter!CheckRateLimit
    <3> HIDE DEF call
    <3>5. call.sent <= now /\ call.sent <= call.stamp /\ call.stamp <= call.sent + Skew
      BY <3>2, <3>3
    <3> QED BY <3>3, <3>4, <3>5
  <2>2. CASE Limiter!FailOpen(c)
    <3>1. PICK pc \in {"opened", "buffered"} : calls' = [calls EXCEPT ![c].pc = pc] /\ calls[c].pc = "sent"
      BY <2>2 DEF Limiter!FailOpen
    <3> DEFINE call == [calls[c] EXCEPT !.pc = pc]
    <3>2. calls[c] \in Limiter!Call
      BY <1>1 DEF Limiter!TypeOK
    <3>3. call \in Limiter!Call /\ call.pc = pc /\ call.sent = calls[c].sent /\ call.stamp = calls[c].stamp
      BY <3>2 DEF Limiter!Call
    <3>4. calls' = [calls EXCEPT ![c] = call]
      BY <3>1
    <3>5. calls[c].sent <= now /\ calls[c].sent <= calls[c].stamp /\ calls[c].stamp <= calls[c].sent + Skew
      BY <1>1, <3>1 DEF TimesFit
    <3> HIDE DEF call
    <3> QED BY <3>1, <3>3, <3>4, <3>5
  <2> QED BY <2>1, <2>2 DEF Unanswered
<1>4. calls \in [Limiter!Calls -> Limiter!Call]
  BY <1>1 DEF Limiter!TypeOK
<1>5. calls'[c] = call /\ \A d \in Limiter!Calls : d # c => calls'[d] = calls[d]
  BY <1>3, <1>4
<1>6. QuietCalls
  BY <1>3, <1>5 DEF QuietCalls
<1>7. /\ Limiter!Admitted' = Limiter!Admitted
      /\ \A t : Limiter!InInterval(t)' = Limiter!InInterval(t)
      /\ \A id : Limiter!InGrace(id)' = Limiter!InGrace(id)
  BY <1>6, QuietKeeps
<1>8. Limiter!TypeOK'
  BY <1>1, <1>2, <1>3, <1>4 DEF Limiter!TypeOK
<1>9. TimesFit'
  <2> SUFFICES ASSUME NEW d \in Limiter!Calls
               PROVE  /\ calls'[d].pc # "unused" => calls'[d].sent <= now /\ calls'[d].sent <= calls'[d].stamp
                                                    /\ calls'[d].stamp <= calls'[d].sent + Skew
                      /\ calls'[d].pc = "sent" => now <= calls'[d].sent + Timeout
                      /\ calls'[d].pc = "admitted" => calls'[d].sent + calls'[d].lag <= now
    BY <1>2 DEF TimesFit
  <2>1. CASE d = c
    BY <1>1, <1>3, <1>5, <2>1 DEF Limiter!TypeOK
  <2>2. CASE d # c
    BY <1>1, <1>5, <2>2 DEF TimesFit
  <2> QED BY <2>1, <2>2
<1>10. EntriesFit'
  <2>1. ASSUME NEW e \in entries
        PROVE  calls'[e[1]].pc # "unused" /\ e[2] = calls'[e[1]].stamp /\ e[2] + Window <= expiry + Skew
    <3>1. e[1] \in Limiter!Calls
      BY <1>1 DEF Limiter!TypeOK
    <3>2. calls[e[1]].pc # "unused" /\ e[2] = calls[e[1]].stamp /\ e[2] + Window <= expiry + Skew
      BY <1>1 DEF EntriesFit
    <3> QED BY <1>3, <1>5, <3>1, <3>2
  <2>2. \A d \in Limiter!Admitted : calls'[d] = calls[d]
    BY <1>6 DEF QuietCalls, Limiter!Admitted
  <2> QED BY <1>1, <1>2, <1>7, <2>1, <2>2 DEF EntriesFit
<1>11. WindowsFit'
  <2>1. Settled \subseteq Settled' /\ Settled' \in SUBSET Limiter!Calls
    BY <1>3, <1>5 DEF Settled
  <2>2. Cardinality(Settled) <= Cardinality(Settled') /\ Cardinality(Settled) \in Nat /\ Cardinality(Settled') \in Nat
    BY <2>1, FS_Subset
  <2>3. \A id \in Limiter!Ids : windows[id].count \in Nat
    BY <1>1 DEF Limiter!TypeOK
  <2> QED BY <1>1, <1>2, <1>7, <2>2, <2>3 DEF WindowsFit
<1>12. Limiter!SlidingLimit' /\ Limiter!FixedLimit'
  BY <1>2, <1>7 DEF LimiterInv, Limiter!SlidingLimit, Limiter!FixedLimit
<1> QED BY <1>8, <1>9, <1>10, <1>11, <1>12 DEF LimiterInv

\* The script of a call runs: it was sent, and not long ago unless it has been given up.
LEMMA VerdictOfCall ==
  ASSUME LimiterInv, NEW c \in Limiter!Calls, calls[c].pc \in {"sent", "buffered"}, now' = now,
         NEW allowed \in BOOLEAN, Limiter!Verdict(c, allowed)
  PROVE  /\ calls' \in [Limiter!Calls -> Limiter!Call]
         /\ \A d \in Limiter!Calls : d # c => calls'[d] = calls[d]
         /\ calls'[c].sent = calls[c].sent /\ calls'[c].stamp = calls[c].stamp /\ calls'[c].lag = now - calls[c].sent
         /\ calls'[c].pc \in {"admitted", "refused", "opened"}
         /\ calls'[c].pc = "admitted" <=> calls[c].pc = "sent" /\ allowed
         /\ TimesFit'
         /\ Settled' = Settled \cup {c} /\ c \notin Settled
         /\ Cardinality(Settled') = Cardinality(Settled) + 1
         /\ Limiter!Admitted' = IF calls'[c].pc = "admitted" THEN Limiter!Admitted \cup {c} ELSE Limiter!Admitted
<1> USE LimiterAssumption
<1>1. Limiter!TypeOK /\ TimesFit
  BY DEF LimiterInv
<1>2. calls[c] \in Limiter!Call /\ now \in 0..MaxNow /\ calls \in [Limiter!Calls -> Limiter!Call]
  BY <1>1 DEF Limiter!TypeOK
<1>3. calls[c].sent <= now /\ calls[c].sent <= calls[c].stamp /\ calls[c].stamp <= calls[c].sent + Skew
  BY <1>1 DEF TimesFit
<1> DEFINE pc == IF calls[c].pc = "buffered" THEN "opened" ELSE IF allowed THEN "admitted" ELSE "refused"
           call == [calls[c] EXCEPT !.lag = now - calls[c].sent, !.pc = pc]
<1>4. calls' = [calls EXCEPT ![c] = call]
  BY DEF Limiter!Verdict, Limiter!Lag
<1>5. calls[c].sent \in 0..MaxNow
  BY <1>2 DEF Limiter!Call
<1>6. now - calls[c].sent \in 0..MaxNow
  BY <1>2, <1>3, <1>5
<1>7. /\ call \in Limiter!Call /\ call.pc = pc /\ call.lag = now - calls[c].sent
      /\ call.sent = calls[c].sent /\ call.stamp = calls[c].stamp
  BY <1>2, <1>6 DEF Limiter!Call
<1>8. pc \in {"admitted", "refused", "opened"} /\ (pc = "admitted" <=> calls[c].pc = "sent" /\ allowed)
  OBVIOUS
<1> HIDE DEF call, pc
<1>9. calls'[c] = call /\ \A d \in Limiter!Calls : d # c => calls'[d] = calls[d]
  BY <1>2, <1>4
<1>10. TimesFit'
  <2> SUFFICES ASSUME NEW d \in Limiter!Calls
               PROVE  /\ calls'[d].pc # "unused" => calls'[d].sent <= now /\ calls'[d].sent <= calls'[d].stamp
                                                    /\ calls'[d].stamp <= calls'[d].sent + Skew
                      /\ calls'[d].pc = "sent" => now <= calls'[d].sent + Timeout
                      /\ calls'[d].pc = "admitted" => calls'[d].sent + calls'[d].lag <= now
    BY DEF TimesFit
  <2>1. CASE d = c
    BY <1>2, <1>3, <1>5, <1>7, <1>8, <1>9, <2>1
  <2>2. CASE d # c
    BY <1>1, <1>9, <2>2 DEF TimesFit
  <2> QED BY <2>1, <2>2
<1>11. Settled' = Settled \cup {c} /\ c \notin Settled
  BY <1>7, <1>8, <1>9 DEF Settled
<1>12. Cardinality(Settled') = Cardinality(Settled) + 1
  <2>1. Settled \in SUBSET Limiter!Calls
    BY DEF Settled
  <2> QED BY <1>11, <2>1, LimiterSets, FS_AddElement
<1>13. Limiter!Admitted' = IF pc = "admitted" THEN Limiter!Admitted \cup {c} ELSE Limiter!Admitted
  <2>1. c \notin Limiter!Admitted
    BY DEF Limiter!Admitted
  <2> QED BY <1>7, <1>9, <2>1 DEF Limiter!Admitted
<1> QED BY <1>2, <1>4, <1>7, <1>8, <1>9, <1>10, <1>11, <1>12, <1>13

\* Who is admitted by the sorted set fits, with those before, in every interval.
LEMMA LimiterSlides == ASSUME LimiterInv, NEW c \in Limiter!Calls, Limiter!SlidingWindow(c) PROVE LimiterInv'
<1>0. /\ MaxNow \in Nat /\ Skew \in Nat /\ Timeout \in Nat /\ Window \in Nat /\ Limit \in Nat /\ Window > 0
  BY LimiterAssumption
<1> USE <1>0, SameCardinality, LimiterSets
<1> DEFINE kept == Limiter!Trimmed(calls[c].stamp)
           admits == calls'[c].pc = "admitted"
<1>1. Limiter!TypeOK /\ TimesFit /\ EntriesFit /\ WindowsFit /\ Limiter!SlidingLimit
  BY DEF LimiterInv
<1>2. /\ calls[c].pc \in {"sent", "buffered"} /\ algorithm = "sliding-window"
      /\ entries' = IF Limiter!Room(kept) THEN kept \cup {<<c, calls[c].stamp>>} ELSE kept
      /\ expiry' = now + Window
      /\ Limiter!Verdict(c, Limiter!Room(kept))
      /\ UNCHANGED <<algorithm, now, windows>>
  BY DEF Limiter!SlidingWindow
<1>3. Limiter!Room(kept) \in BOOLEAN
  BY DEF Limiter!Room
<1>4. /\ calls' \in [Limiter!Calls -> Limiter!Call]
      /\ \A d \in Limiter!Calls : d # c => calls'[d] = calls[d]
      /\ calls'[c].sent = calls[c].sent /\ calls'[c].stamp = calls[c].stamp /\ calls'[c].lag = now - calls[c].sent
      /\ calls'[c].pc \in {"admitted", "refused", "opened"}
      /\ calls'[c].pc = "admitted" <=> calls[c].pc = "sent" /\ Limiter!Room(kept)
      /\ TimesFit'
      /\ Settled' = Settled \cup {c} /\ c \notin Settled
      /\ Cardinality(Settled') = Cardinality(Settled) + 1
      /\ Limiter!Admitted' = IF calls'[c].pc = "admitted" THEN Limiter!Admitted \cup {c} ELSE Limiter!Admitted
  BY <1>2, <1>3, VerdictOfCall
<1>5. /\ now \in 0..MaxNow /\ calls[c] \in Limiter!Call /\ expiry \in Nat
      /\ entries \subseteq Limiter!Calls \X (0..(MaxNow + Skew))
      /\ calls[c].stamp \in 0..(MaxNow + Skew) /\ calls[c].sent \in 0..MaxNow
  BY <1>1 DEF Limiter!TypeOK, Limiter!Call
<1>6. calls[c].sent <= calls[c].stamp /\ calls[c].stamp <= now + Skew /\ calls[c].sent <= now
  BY <1>1, <1>2, <1>5 DEF TimesFit
<1>7. kept \subseteq entries /\ \A e \in entries : e \in kept <=> e[2] + Window > calls[c].stamp
  BY DEF Limiter!Trimmed
<1> HIDE DEF kept
<1>8. Limiter!TypeOK'
  <2>1. entries' \subseteq Limiter!Calls \X (0..(MaxNow + Skew))
    BY <1>2, <1>5, <1>7
  <2>2. expiry' \in 0..(MaxNow + Window)
    BY <1>2, <1>5
  <2> QED BY <1>1, <1>2, <1>4, <2>1, <2>2 DEF Limiter!TypeOK
<1>9. \A d \in Limiter!Admitted : d \in Limiter!Calls /\ d # c /\ calls'[d] = calls[d] /\ calls[d].stamp \in Nat
  BY <1>1, <1>2, <1>4 DEF Limiter!Admitted, Limiter!TypeOK, Limiter!Call
\* What is trimmed is as old as a window.
<1>10. \A d \in Limiter!Admitted : <<d, calls[d].stamp>> \in kept \/ calls[d].stamp + Window <= now + Skew
  <2> SUFFICES ASSUME NEW d \in Limiter!Admitted, <<d, calls[d].stamp>> \notin kept
               PROVE  calls[d].stamp + Window <= now + Skew
    OBVIOUS
  <2> DEFINE e == <<d, calls[d].stamp>>
  <2>1. e[2] = calls[d].stamp
    OBVIOUS
  <2>2. CASE e \in entries
    BY <1>5, <1>6, <1>7, <1>9, <2>1, <2>2
  <2>3. CASE e \notin entries
    BY <1>1, <1>2, <2>3 DEF EntriesFit
  <2> QED BY <2>2, <2>3
<1>11. EntriesFit'
  <2>1. ASSUME NEW e \in entries'
        PROVE  calls'[e[1]].pc # "unused" /\ e[2] = calls'[e[1]].stamp /\ e[2] + Window <= expiry' + Skew
    <3>1. CASE e \in entries
      <4>1. calls[e[1]].pc # "unused" /\ e[2] = calls[e[1]].stamp /\ e[2] + Window <= expiry + Skew /\ expiry <= now + Window
        BY <1>1, <3>1 DEF EntriesFit
      <4>2. e[1] \in Limiter!Calls /\ e[2] \in Nat
        BY <1>5, <3>1
      <4>3. calls'[e[1]].pc # "unused" /\ calls'[e[1]].stamp = calls[e[1]].stamp
        BY <1>4, <4>1, <4>2
      <4> QED BY <1>2, <1>5, <4>1, <4>2, <4>3
    <3>2. CASE e = <<c, calls[c].stamp>>
      <4>1. e[1] = c /\ e[2] = calls[c].stamp
        BY <3>2
      <4> QED BY <1>2, <1>4, <1>5, <1>6, <4>1
    <3> QED BY <1>2, <1>7, <3>1, <3>2
  <2>2. ASSUME NEW d \in Limiter!Admitted'
        PROVE  <<d, calls'[d].stamp>> \in entries' \/ calls'[d].stamp + Window <= now' + Skew
    <3>1. CASE d \in Limiter!Admitted
      BY <1>2, <1>9, <1>10, <3>1
    <3>2. CASE d \notin Limiter!Admitted
      BY <1>2, <1>4, <3>2
    <3> QED BY <3>1, <3>2
  <2>3. expiry' <= now' + Window
    BY <1>2, <1>5
  <2> QED BY <2>1, <2>2, <2>3 DEF EntriesFit
<1>12. WindowsFit'
  <2>1. Cardinality(Settled) \in Nat
    BY DEF Settled
  <2>2. \A id \in Limiter!Ids : windows[id].count \in Nat
    BY <1>1 DEF Limiter!TypeOK
  <2> QED BY <1>1, <1>2, <1>4, <2>1, <2>2 DEF WindowsFit
<1>13. Limiter!SlidingLimit'
  <2> SUFFICES ASSUME NEW t \in 0..(MaxNow + Skew) PROVE Cardinality(Limiter!InInterval(t)') <= Limit
    BY DEF Limiter!SlidingLimit
  <2>1. Cardinality(Limiter!InInterval(t)) <= Limit
    BY <1>1, <1>2 DEF Limiter!SlidingLimit
  <2> DEFINE S == Limiter!InInterval(t)
  <2>2. S \subseteq Limiter!Admitted /\ S \in SUBSET Limiter!Calls
    BY DEF Limiter!InInterval, Limiter!Admitted
  <2>3. CASE c \in Limiter!InInterval(t)' /\ calls'[c].pc = "admitted"
    <3>1. Limiter!InInterval(t)' = S \cup {c}
      BY <1>4, <1>9, <2>3 DEF Limiter!InInterval
    <3>2. calls[c].stamp \in t..(t + (Window - Skew - Timeout) - 1) /\ now <= calls[c].sent + Timeout
      BY <1>1, <1>4, <2>3 DEF Limiter!InInterval, TimesFit
    <3>3. \A d \in S : <<d, calls[d].stamp>> \in kept
      <4> SUFFICES ASSUME NEW d \in S PROVE ~(calls[d].stamp + Window <= now + Skew)
        BY <1>10, <2>2
      <4>1. calls[d].stamp >= t /\ calls[d].stamp \in Nat
        BY <1>9, <2>2 DEF Limiter!InInterval
      <4> QED BY <1>5, <1>6, <3>2, <4>1
    <3>4. IsFiniteSet(kept) /\ Cardinality(kept) \in Nat
      <4>1. IsFiniteSet(Limiter!Calls \X (0..(MaxNow + Skew)))
        <5>1. 0 \in Int /\ MaxNow + Skew \in Int
          OBVIOUS
        <5>2. IsFiniteSet(0..(MaxNow + Skew))
          BY <5>1, FS_Interval
        <5>3. IsFiniteSet(Limiter!Calls)
          OBVIOUS
        <5> QED BY <5>2, <5>3, FS_Product
      <4> QED BY <1>5, <1>7, <4>1, FS_Subset, FS_CardinalityType
    <3>5. IsFiniteSet(S) /\ Cardinality(S) \in Nat
      BY <2>2
    <3>6. Cardinality(S) <= Cardinality(kept)
      <4> SUFFICES ASSUME Cardinality(kept) < Cardinality(S) PROVE FALSE
        BY <3>4, <3>5
      <4> DEFINE f == [d \in S |-> <<d, calls[d].stamp>>]
      <4>1. f \in [S -> kept]
        BY <3>3
      <4>2. PICK x, y \in S : x # y /\ f[x] = f[y]
        BY <3>4, <3>5, <4>1, FS_PigeonHole
      <4> QED BY <4>2
    <3>7. Cardinality(kept) < Limit
      BY <1>4, <2>3 DEF Limiter!Room
    <3>8. Cardinality(S \cup {c}) <= Cardinality(S) + 1
      BY <3>5, FS_AddElement
    <3>9. Cardinality(S \cup {c}) \in Nat
      BY <3>5, FS_AddElement, FS_CardinalityType
    <3> QED BY <3>1, <3>4, <3>5, <3>6, <3>7, <3>8, <3>9
  <2>4. CASE ~(c \in Limiter!InInterval(t)' /\ calls'[c].pc = "admitted")
    <3>1. Limiter!InInterval(t)' = S
      BY <1>4, <1>9, <2>4 DEF Limiter!InInterval
    <3> QED BY <2>1, <3>1
  <2> QED BY <2>3, <2>4
<1>14. Limiter!FixedLimit'
  BY <1>2 DEF Limiter!FixedLimit
<1> QED BY <1>4, <1>8, <1>11, <1>12, <1>13, <1>14 DEF LimiterInv

\* Who is admitted by a counter fits in its window, unless the script ran after the grace.
LEMMA LimiterCounts == ASSUME LimiterInv, NEW c \in Limiter!Calls, Limiter!FixedWindow(c) PROVE LimiterInv'
<1>0. MaxNow \in Nat /\ Skew \in Nat /\ Timeout \in Nat /\ Grace \in Nat /\ Limit \in Nat /\ Window \in Nat \ {0}
  BY LimiterAssumption
<1> USE <1>0, SameCardinality, LimiterSets
<1> DEFINE own == calls[c].stamp \div Window
           count == windows[own].count + 1
           admits == count <= Limit
<1>1. Limiter!TypeOK /\ TimesFit /\ EntriesFit /\ WindowsFit /\ Limiter!FixedLimit
  BY DEF LimiterInv
<1>2. /\ calls[c].pc \in {"sent", "buffered"} /\ algorithm = "fixed-window"
      /\ windows' = [windows EXCEPT ![own].count = count,
                                    ![own].expiry = IF count = 1 THEN now + Window + Grace ELSE @]
      /\ Limiter!Verdict(c, admits)
      /\ UNCHANGED <<algorithm, now, entries, expiry>>
  BY DEF Limiter!FixedWindow
<1>3. admits \in BOOLEAN
  OBVIOUS
<1>4. /\ calls' \in [Limiter!Calls -> Limiter!Call]
      /\ \A d \in Limiter!Calls : d # c => calls'[d] = calls[d]
      /\ calls'[c].sent = calls[c].sent /\ calls'[c].stamp = calls[c].stamp /\ calls'[c].lag = now - calls[c].sent
      /\ calls'[c].pc \in {"admitted", "refused", "opened"}
      /\ calls'[c].pc = "admitted" <=> calls[c].pc = "sent" /\ admits
      /\ TimesFit'
      /\ Settled' = Settled \cup {c} /\ c \notin Settled
      /\ Cardinality(Settled') = Cardinality(Settled) + 1
      /\ Limiter!Admitted' = IF calls'[c].pc = "admitted" THEN Limiter!Admitted \cup {c} ELSE Limiter!Admitted
  <2> HIDE DEF admits
  <2> QED BY <1>2, <1>3, VerdictOfCall
<1>5. /\ now \in 0..MaxNow /\ calls[c] \in Limiter!Call
      /\ calls[c].stamp \in 0..(MaxNow + Skew) /\ calls[c].sent \in 0..MaxNow
  BY <1>1 DEF Limiter!TypeOK, Limiter!Call
<1>6. calls[c].sent <= calls[c].stamp /\ calls[c].stamp <= calls[c].sent + Skew /\ calls[c].sent <= now
  BY <1>1, <1>2 DEF TimesFit
<1>7. own \in Limiter!Ids /\ Start(own) <= calls[c].stamp /\ calls[c].stamp < Start(own) + Window
  <2>1. calls[c].stamp \in Nat /\ MaxNow + Skew \in Nat /\ calls[c].stamp <= MaxNow + Skew
    BY <1>5
  <2>2. own \in Nat /\ own <= (MaxNow + Skew) \div Window /\ (MaxNow + Skew) \div Window \in Nat
    BY <2>1, Division
  <2>3. Window * own <= calls[c].stamp /\ calls[c].stamp < Window * own + Window
    BY <2>1, Division
  <2> QED BY <2>2, <2>3 DEF Start, Limiter!Ids
<1>8. \A id \in Limiter!Ids : Start(id) \in Nat
  BY DEF Start
<1>9. \A id \in Limiter!Ids : windows[id].count \in Nat /\ windows[id].expiry \in Nat
  BY <1>1 DEF Limiter!TypeOK
<1>10. /\ DOMAIN windows = Limiter!Ids
       /\ \A id \in Limiter!Ids : windows[id] \in [count : 0..Cardinality(Limiter!Calls), expiry : 0..(MaxNow + Window + Grace)]
  BY <1>1 DEF Limiter!TypeOK
<1>11. /\ windows'[own].count = count
       /\ windows'[own].expiry = IF count = 1 THEN now + Window + Grace ELSE windows[own].expiry
       /\ \A id \in Limiter!Ids : id # own => windows'[id] = windows[id]
  <2> HIDE DEF own, count
  <2> QED BY <1>2, <1>7, <1>10
<1>12. Cardinality(Settled) \in Nat /\ Settled' \in SUBSET Limiter!Calls
  BY DEF Settled
<1>13. Cardinality(Settled') <= Cardinality(Limiter!Calls)
  BY <1>12, FS_Subset
<1>14. windows[own].count <= Cardinality(Settled)
  BY <1>1, <1>7 DEF WindowsFit
<1> HIDE DEF own, count
<1>15. count = windows[own].count + 1 /\ own = calls[c].stamp \div Window
  BY DEF count, own
<1>16. Limiter!TypeOK'
  <2>1. count \in 0..Cardinality(Limiter!Calls)
    BY <1>4, <1>7, <1>9, <1>12, <1>13, <1>14, <1>15
  <2>2. (IF count = 1 THEN now + Window + Grace ELSE windows[own].expiry) \in 0..(MaxNow + Window + Grace)
    BY <1>5, <1>7, <1>10
  <2> DEFINE Counter == [count : 0..Cardinality(Limiter!Calls), expiry : 0..(MaxNow + Window + Grace)]
             counter == [windows[own] EXCEPT !.count = count,
                                             !.expiry = IF count = 1 THEN now + Window + Grace ELSE windows[own].expiry]
  <2>3. counter \in Counter
    BY <1>7, <1>10, <2>1, <2>2
  <2>4. windows' = [windows EXCEPT ![own] = counter]
    BY <1>2
  <2>5. windows \in [Limiter!Ids -> Counter]
    BY <1>1 DEF Limiter!TypeOK
  <2> HIDE DEF Counter, counter
  <2>6. windows' \in [Limiter!Ids -> Counter]
    BY <2>3, <2>4, <2>5
  <2> QED BY <1>1, <1>2, <1>4, <2>6 DEF Limiter!TypeOK, Counter
<1>17. \A d \in Limiter!Admitted : d \in Limiter!Calls /\ d # c /\ calls'[d] = calls[d]
  BY <1>2, <1>4 DEF Limiter!Admitted
<1>18. EntriesFit'
  <2>1. ASSUME NEW e \in entries
        PROVE  calls'[e[1]].pc # "unused" /\ e[2] = calls'[e[1]].stamp /\ e[2] + Window <= expiry + Skew
    <3>1. calls[e[1]].pc # "unused" /\ e[2] = calls[e[1]].stamp /\ e[2] + Window <= expiry + Skew
      BY <1>1 DEF EntriesFit
    <3>2. e[1] \in Limiter!Calls
      BY <1>1 DEF Limiter!TypeOK
    <3>3. calls'[e[1]].pc # "unused" /\ calls'[e[1]].stamp = calls[e[1]].stamp
      BY <1>4, <3>1, <3>2
    <3> QED BY <3>1, <3>3
  <2>2. expiry <= now + Window
    BY <1>1 DEF EntriesFit
  <2> QED BY <1>2, <2>1, <2>2 DEF EntriesFit
\* After the grace nobody is counted.
<1>19. \A id \in Limiter!Ids : id = own /\ c \in Limiter!InGrace(id)' => now + Skew < Start(own) + Window + Grace
  <2> SUFFICES ASSUME now - calls[c].sent + Skew <= Grace PROVE now + Skew < Start(own) + Window + Grace
    BY <1>4 DEF Limiter!InGrace
  <2> QED BY <1>5, <1>6, <1>7, <1>8
<1>20. \A id \in Limiter!Ids :
         Limiter!InGrace(id)' = IF c \in Limiter!InGrace(id)' THEN Limiter!InGrace(id) \cup {c} ELSE Limiter!InGrace(id)
  BY <1>4, <1>17 DEF Limiter!InGrace
<1>21. \A id \in Limiter!Ids : c \in Limiter!InGrace(id)' => id = own /\ admits
  <2> SUFFICES ASSUME NEW id \in Limiter!Ids, c \in Limiter!InGrace(id)' PROVE id = own /\ admits
    OBVIOUS
  <2>1. calls'[c].stamp \div Window = id /\ calls'[c].pc = "admitted"
    BY DEF Limiter!InGrace, Limiter!Admitted
  <2> QED BY <1>4, <1>15, <2>1
<1>22. \A id : IsFiniteSet(Limiter!InGrace(id)) /\ Cardinality(Limiter!InGrace(id)) \in Nat
  <2>1. \A id : Limiter!InGrace(id) \in SUBSET Limiter!Calls
    BY DEF Limiter!InGrace, Limiter!Admitted
  <2> QED BY <2>1
<1>23. ASSUME NEW id \in Limiter!Ids, c \in Limiter!InGrace(id)'
       PROVE  Cardinality(Limiter!InGrace(id)') <= Cardinality(Limiter!InGrace(id)) + 1
  <2>1. Limiter!InGrace(id)' = Limiter!InGrace(id) \cup {c}
    BY <1>20, <1>23
  <2> QED BY <1>22, <2>1, FS_AddElement
<1>24. WindowsFit'
  <2> SUFFICES ASSUME NEW id \in Limiter!Ids
               PROVE  /\ windows'[id].count <= Cardinality(Settled')
                      /\ windows'[id].count > 0 => Start(id) + Window + Grace <= windows'[id].expiry + Skew
                      /\ \/ Start(id) + Window + Grace <= now + Skew
                         \/ Cardinality(Limiter!InGrace(id)') <= windows'[id].count
    BY <1>2 DEF WindowsFit
  <2>1. /\ windows[id].count <= Cardinality(Settled)
        /\ windows[id].count > 0 => Start(id) + Window + Grace <= windows[id].expiry + Skew
        /\ \/ Start(id) + Window + Grace <= now + Skew
           \/ Cardinality(Limiter!InGrace(id)) <= windows[id].count
    BY <1>1, <1>2 DEF WindowsFit
  <2>2. CASE id # own
    <3>1. windows'[id] = windows[id] /\ Limiter!InGrace(id)' = Limiter!InGrace(id)
      BY <1>11, <1>20, <1>21, <2>2
    <3> QED BY <1>4, <1>9, <1>12, <2>1, <3>1
  <2>3. CASE id = own
    <3>1. windows'[id].count <= Cardinality(Settled')
      BY <1>4, <1>9, <1>11, <1>12, <1>15, <2>1, <2>3
    <3>2. Start(id) + Window + Grace <= windows'[id].expiry + Skew
      <4>1. CASE count = 1
        <5>1. windows'[id].expiry = now + Window + Grace
          BY <1>11, <2>3, <4>1
        <5> QED BY <1>5, <1>6, <1>7, <1>8, <2>3, <5>1
      <4>2. CASE count # 1
        <5>1. windows'[id].expiry = windows[id].expiry /\ windows[id].count > 0
          BY <1>9, <1>11, <1>15, <2>3, <4>2
        <5> QED BY <2>1, <5>1
      <4> QED BY <4>1, <4>2
    <3>3. \/ Start(id) + Window + Grace <= now + Skew
          \/ Cardinality(Limiter!InGrace(id)') <= windows'[id].count
      <4>1. CASE c \in Limiter!InGrace(id)'
        <5>1. Cardinality(Limiter!InGrace(id)') <= Cardinality(Limiter!InGrace(id)) + 1
          BY <1>23, <4>1
        <5>2. Cardinality(Limiter!InGrace(id)') \in Nat
          BY <1>20, <1>22, <4>1, FS_AddElement, FS_CardinalityType
        <5> QED BY <1>5, <1>8, <1>9, <1>11, <1>15, <1>19, <1>22, <2>1, <2>3, <4>1, <5>1, <5>2
      <4>2. CASE c \notin Limiter!InGrace(id)'
        <5>1. Limiter!InGrace(id)' = Limiter!InGrace(id)
          BY <1>20, <4>2
        <5> QED BY <1>9, <1>11, <1>15, <1>22, <2>1, <2>3, <5>1
      <4> QED BY <4>1, <4>2
    <3> QED BY <3>1, <3>2, <3>3
  <2> QED BY <2>2, <2>3
<1>25. Limiter!FixedLimit'
  <2> SUFFICES ASSUME NEW id \in Limiter!Ids PROVE Cardinality(Limiter!InGrace(id)') <= Limit
    BY DEF Limiter!FixedLimit
  <2>1. Cardinality(Limiter!InGrace(id)) <= Limit
    BY <1>1, <1>2 DEF Limiter!FixedLimit
  <2>2. CASE c \in Limiter!InGrace(id)'
    <3>1. id = own /\ count <= Limit
      BY <1>21, <2>2
    <3>2. Cardinality(Limiter!InGrace(id)') <= Cardinality(Limiter!InGrace(id)) + 1
      BY <1>23, <2>2
    <3>3. Cardinality(Limiter!InGrace(id)') \in Nat
      BY <1>20, <1>22, <2>2, FS_AddElement, FS_CardinalityType
    <3>4. Cardinality(Limiter!InGrace(id)) <= windows[own].count
      <4>1. \/ Start(own) + Window + Grace <= now + Skew
            \/ Cardinality(Limiter!InGrace(own)) <= windows[own].count
        BY <1>1, <1>2, <1>7 DEF WindowsFit
      <4>2. now + Skew < Start(own) + Window + Grace
        BY <1>19, <2>2, <3>1
      <4>3. now + Skew \in Int /\ Start(own) + Window + Grace \in Int
        BY <1>5, <1>7, <1>8
      <4>4. ~(Start(own) + Window + Grace <= now + Skew)
        BY <4>2, <4>3
      <4> QED BY <3>1, <4>1, <4>4
    <3> QED BY <1>9, <1>15, <1>22, <3>1, <3>2, <3>3, <3>4
  <2>3. CASE c \notin Limiter!InGrace(id)'
    BY <1>20, <2>1, <2>3
  <2> QED BY <2>2, <2>3
<1>26. Limiter!SlidingLimit'
  BY <1>2 DEF Limiter!SlidingLimit
<1> QED BY <1>4, <1>16, <1>18, <1>24, <1>25, <1>26 DEF LimiterInv

LEMMA LimiterSteps == LimiterInv /\ [Limiter!Next]_limitVars => LimiterInv'
<1> SUFFICES ASSUME LimiterInv, [Limiter!Next]_limitVars PROVE LimiterInv'
  OBVIOUS
<1>1. CASE Limiter!Prompt /\ Limiter!Tick
  BY <1>1, LimiterTicks
<1>2. CASE \E c \in Limiter!Calls : Unanswered(c)
  BY <1>2, LimiterWaits
<1>3. CASE \E c \in Limiter!Calls : Limiter!SlidingWindow(c)
  BY <1>3, LimiterSlides
<1>4. CASE \E c \in Limiter!Calls : Limiter!FixedWindow(c)
  BY <1>4, LimiterCounts
<1>5. CASE UNCHANGED limitVars
  BY <1>5 DEF limitVars, LimiterInv, Limiter!TypeOK, TimesFit, EntriesFit, WindowsFit, Settled, Limiter!Admitted,
              Limiter!SlidingLimit, Limiter!FixedLimit, Limiter!InInterval, Limiter!InGrace
<1> QED BY <1>1, <1>2, <1>3, <1>4, <1>5 DEF Limiter!Next, Unanswered

-----------------------------------------------------------------------------
(* Prompts and their versions.                                             *)

Bodies == Exact \cup Near

LEMMA PromptsCardinality == \A S : Prompts!Cardinality(S) = Cardinality(S)
BY DEF Prompts!Cardinality, Cardinality

\* Every edit gives the whole prompt.
WholeEdits == \A e \in Editors : editors[e].step # "new" => editors[e].whole /\ editors[e].body # Absent

Done == {e \in Editors : editors[e].step = "done"}

NumberedFrom1(versions) == {v.number : v \in versions} = 1..Cardinality(versions)

\* The versions are numbered one by one; the last of them is the prompt, unless an edit gave a
\* part of it; no edit has added more than one; and who is going to write has seen a text.
PromptsInv ==
  /\ Prompts!TypeOK
  /\ IsFiniteSet(prompt.versions) /\ Cardinality(prompt.versions) <= Cardinality(Done) + 1
  /\ NumberedFrom1(prompt.versions)
  /\ \A e \in Editors : editors[e].step \in {"read", "locked"} => editors[e].seen \in Bodies
  /\ prompt.there => prompt.versions # {}
  /\ prompt.there /\ WholeEdits =>
       \A v \in prompt.versions : v.number = Cardinality(prompt.versions) => v.body = prompt.body

LEMMA EditorsFinite ==
  /\ Cardinality(Editors) \in Nat
  /\ \A S \in SUBSET Editors : IsFiniteSet(S) /\ Cardinality(S) \in Nat /\ Cardinality(S) <= Cardinality(Editors)
BY PromptsAssumption, FS_Subset, FS_CardinalityType

LEMMA PromptsBegin == Prompts!Init => PromptsInv
<1> SUFFICES ASSUME Prompts!Init PROVE PromptsInv
  OBVIOUS
<1> USE PromptsCardinality
<1>1. PICK b \in Bodies : prompt = [there |-> TRUE, body |-> b, versions |-> {[number |-> 1, body |-> b]}]
  BY DEF Prompts!Init, Bodies
<1> DEFINE v == [number |-> 1, body |-> b]
<1>2. prompt.there = TRUE /\ prompt.body = b /\ prompt.versions = {v} /\ v.number = 1 /\ v.body = b
  BY <1>1
<1>3. IsFiniteSet({v}) /\ Cardinality({v}) = 1
  BY FS_Singleton
<1>4. Done = {} /\ Cardinality({}) = 0
  BY FS_EmptySet DEF Prompts!Init, Prompts!Idle, Done
<1>5. Prompts!TypeOK
  <2>1. Prompts!Idle \in Prompts!Editor
    BY DEF Prompts!Idle, Prompts!Editor
  <2>2. v \in Prompts!Version
    BY EditorsFinite DEF Prompts!Version, Prompts!MaxNumber, Bodies
  <2>3. prompt \in [there : BOOLEAN, body : Bodies, versions : SUBSET Prompts!Version]
    BY <1>1, <2>2
  <2> HIDE DEF v
  <2> QED BY <2>1, <2>3 DEF Prompts!Init, Prompts!TypeOK, Bodies
<1> HIDE DEF v
<1>6. NumberedFrom1(prompt.versions)
  <2>1. {w.number : w \in prompt.versions} = {1} /\ 1..1 = {1}
    BY <1>2
  <2> QED BY <1>2, <1>3, <2>1 DEF NumberedFrom1
<1>7. \A e \in Editors : editors[e].step = "new"
  BY DEF Prompts!Init, Prompts!Idle
<1> QED BY <1>2, <1>3, <1>4, <1>5, <1>6, <1>7 DEF PromptsInv

\* The steps of edits that leave the prompt alone.
LEMMA PromptsWait ==
  ASSUME PromptsInv, prompt' = prompt, writing' \in Editors \cup {Absent},
         NEW e \in Editors, NEW edit \in Prompts!Editor, editors' = [editors EXCEPT ![e] = edit],
         editors[e].step # "done", edit.step # "new",
         editors[e].step # "new" => edit.whole = editors[e].whole /\ edit.body = editors[e].body,
         edit.step \in {"read", "locked"} => edit.seen \in Bodies
  PROVE  PromptsInv'
<1> USE PromptsCardinality
<1>1. editors \in [Editors -> Prompts!Editor]
  BY DEF PromptsInv, Prompts!TypeOK
<1>2. editors'[e] = edit /\ \A d \in Editors : d # e => editors'[d] = editors[d]
  BY <1>1
<1>3. Prompts!TypeOK'
  BY <1>1 DEF PromptsInv, Prompts!TypeOK
<1>4. Done \subseteq Done' /\ Done' \in SUBSET Editors
  BY <1>2 DEF Done
<1>5. Cardinality(Done) <= Cardinality(Done') /\ Cardinality(Done) \in Nat /\ Cardinality(Done') \in Nat
  BY <1>4, EditorsFinite, FS_Subset
<1>6. WholeEdits' => WholeEdits
  BY <1>2 DEF WholeEdits
<1>7. Cardinality(prompt.versions) \in Nat
  BY FS_CardinalityType DEF PromptsInv
<1>8. \A d \in Editors : editors'[d].step \in {"read", "locked"} => editors'[d].seen \in Bodies
  BY <1>2 DEF PromptsInv
<1> QED BY <1>3, <1>5, <1>6, <1>7, <1>8 DEF PromptsInv

LEMMA PromptsCommit == ASSUME PromptsInv, NEW e \in Editors, Prompts!CommitEdit(e) PROVE PromptsInv'
<1> USE PromptsCardinality
<1> DEFINE edit == editors[e]
           body == Prompts!NextBody(edit)
           n == Cardinality(prompt.versions) + 1
           new == [number |-> n, body |-> body]
           adds == Prompts!AddsVersion(edit)
<1>1. /\ edit.step = "locked"
      /\ prompt' = [prompt EXCEPT !.body = body, !.versions = IF adds THEN @ \cup {new} ELSE @]
      /\ writing' = Absent /\ editors' = [editors EXCEPT ![e].step = "done"]
  BY DEF Prompts!CommitEdit, Prompts!NumberAfter
<1>2. /\ editors \in [Editors -> Prompts!Editor] /\ prompt \in [there : BOOLEAN, body : Bodies, versions : SUBSET Prompts!Version]
  BY DEF PromptsInv, Prompts!TypeOK, Bodies
<1>3. /\ prompt'.there = prompt.there /\ prompt'.body = body
      /\ prompt'.versions = IF adds THEN prompt.versions \cup {new} ELSE prompt.versions
  BY <1>1, <1>2
<1>4. edit.body \in Bodies \cup {Absent} /\ edit.seen \in Bodies
  BY <1>1, <1>2 DEF Prompts!Editor, Bodies, PromptsInv
<1>5. body \in Bodies
  BY <1>4 DEF Prompts!NextBody
<1>6. editors'[e] = [editors[e] EXCEPT !.step = "done"] /\ \A d \in Editors : d # e => editors'[d] = editors[d]
  BY <1>1, <1>2
<1>7. /\ editors' \in [Editors -> Prompts!Editor]
      /\ editors'[e].step = "done" /\ editors'[e].whole = edit.whole /\ editors'[e].body = edit.body
  BY <1>1, <1>2, <1>6 DEF Prompts!Editor
<1>8. Done' = Done \cup {e} /\ e \notin Done /\ Done \in SUBSET Editors /\ Done' \in SUBSET Editors
  BY <1>1, <1>6, <1>7 DEF Done
<1>9. Cardinality(Done') = Cardinality(Done) + 1 /\ Cardinality(Done) \in Nat /\ Cardinality(Done') <= Cardinality(Editors)
  BY <1>8, EditorsFinite, FS_AddElement
<1>10. /\ IsFiniteSet(prompt.versions) /\ Cardinality(prompt.versions) \in Nat
       /\ Cardinality(prompt.versions) <= Cardinality(Done) + 1
       /\ NumberedFrom1(prompt.versions) /\ {v.number : v \in prompt.versions} = 1..(n - 1)
  <2>1. IsFiniteSet(prompt.versions) /\ Cardinality(prompt.versions) \in Nat
    BY FS_CardinalityType DEF PromptsInv
  <2>2. n - 1 = Cardinality(prompt.versions)
    BY <2>1
  <2> QED BY <2>1, <2>2 DEF PromptsInv, NumberedFrom1
<1>11. new.number = n /\ new.body = body /\ n \in Nat \ {0}
  BY <1>10
<1>12. new \in Prompts!Version
  <2>1. n \in 1..Prompts!MaxNumber
    BY <1>9, <1>10, EditorsFinite DEF Prompts!MaxNumber
  <2> HIDE DEF body, n
  <2> QED BY <1>5, <2>1 DEF Prompts!Version, Bodies
<1> HIDE DEF new, body, adds, edit
<1>13. Prompts!TypeOK'
  <2>1. prompt' \in [there : BOOLEAN, body : Bodies, versions : SUBSET Prompts!Version]
    BY <1>1, <1>2, <1>5, <1>12
  <2> QED BY <1>1, <1>7, <2>1 DEF Prompts!TypeOK, Bodies
<1>14. \A d \in Editors : editors'[d].step \in {"read", "locked"} => editors'[d].seen \in Bodies
  BY <1>6, <1>7 DEF PromptsInv
<1>15. WholeEdits' => WholeEdits /\ adds /\ body = edit.body
  <2>1. WholeEdits' => edit.whole /\ edit.body # Absent
    BY <1>7 DEF WholeEdits
  <2>2. WholeEdits' => WholeEdits
    BY <1>6, <1>7 DEF WholeEdits, edit
  <2> QED BY <2>1, <2>2 DEF adds, body, Prompts!AddsVersion, Prompts!NextBody
<1>16. CASE adds
  <2>1. \A v \in prompt.versions : v.number \in 1..(n - 1)
    BY <1>10
  <2>2. new \notin prompt.versions
    BY <1>10, <1>11, <2>1
  <2>3. Cardinality(prompt'.versions) = n /\ IsFiniteSet(prompt'.versions)
    BY <1>3, <1>10, <1>16, <2>2, FS_AddElement
  <2>4. NumberedFrom1(prompt'.versions)
    <3>1. {v.number : v \in prompt'.versions} = {v.number : v \in prompt.versions} \cup {n}
      BY <1>3, <1>11, <1>16
    <3>2. (1..(n - 1)) \cup {n} = 1..n
      <4> HIDE DEF n
      <4> QED BY <1>11
    <3>3. {v.number : v \in prompt'.versions} = (1..(n - 1)) \cup {n}
      BY ONLY <1>10, <3>1
    <3> QED BY ONLY <2>3, <3>2, <3>3 DEF NumberedFrom1
  <2>5. \A v \in prompt'.versions : v.number = n => v.body = body
    BY <1>3, <1>10, <1>11, <1>16, <2>1
  <2>6. Cardinality(prompt'.versions) <= Cardinality(Done') + 1
    BY <1>9, <1>10, <2>3
  <2>7. prompt'.versions # {}
    BY <1>3, <1>16
  <2>8. \A v \in prompt'.versions : v.number = Cardinality(prompt'.versions) => v.body = prompt'.body
    BY <1>3, <2>3, <2>5
  <2> QED BY <1>13, <1>14, <2>3, <2>4, <2>6, <2>7, <2>8 DEF PromptsInv
<1>17. CASE ~adds
  <2>1. prompt'.versions = prompt.versions
    BY <1>3, <1>17
  <2>2. Cardinality(prompt'.versions) <= Cardinality(Done') + 1
    BY <1>9, <1>10, <2>1
  <2>3. prompt'.there => prompt'.versions # {}
    BY <1>3, <2>1 DEF PromptsInv
  <2> QED BY <1>10, <1>13, <1>14, <1>15, <1>17, <2>1, <2>2, <2>3 DEF PromptsInv
<1> QED BY <1>16, <1>17

LEMMA PromptsSteps == PromptsInv /\ [Prompts!Next]_promptVars => PromptsInv'
<1> SUFFICES ASSUME PromptsInv, [Prompts!Next]_promptVars PROVE PromptsInv'
  OBVIOUS
<1> USE PromptsCardinality
<1>1. /\ editors \in [Editors -> Prompts!Editor] /\ prompt \in [there : BOOLEAN, body : Bodies, versions : SUBSET Prompts!Version]
      /\ writing \in Editors \cup {Absent}
  BY DEF PromptsInv, Prompts!TypeOK, Bodies
<1>2. ASSUME NEW e \in Editors, NEW body \in Bodies \cup {Absent}, NEW whole \in BOOLEAN, Prompts!ReadPrompt(e, body, whole)
      PROVE  PromptsInv'
  <2> DEFINE edit == IF prompt.there THEN [step |-> "read", body |-> body, whole |-> whole, seen |-> prompt.body]
                     ELSE [Prompts!Idle EXCEPT !.step = "missing"]
  <2>1. /\ editors' = [editors EXCEPT ![e] = edit] /\ editors[e].step = "new" /\ UNCHANGED <<prompt, writing>>
    BY <1>2 DEF Prompts!ReadPrompt
  <2>2. edit \in Prompts!Editor /\ edit.step \in {"read", "missing"} /\ (edit.step = "read" => edit.seen \in Bodies)
    BY <1>1 DEF Prompts!Editor, Prompts!Idle, Bodies
  <2> HIDE DEF edit
  <2> QED BY <1>1, <2>1, <2>2, PromptsWait
<1>3. ASSUME NEW e \in Editors, NEW step \in {"locked", "failed", "empty"}, editors' = [editors EXCEPT ![e].step = step],
             editors[e].step \in {"read", "locked"}, prompt' = prompt, writing' \in Editors \cup {Absent}
      PROVE  PromptsInv'
  <2> DEFINE edit == [editors[e] EXCEPT !.step = step]
  <2>1. editors[e] \in Prompts!Editor /\ editors[e].seen \in Bodies
    BY <1>1, <1>3 DEF PromptsInv
  <2>2. /\ edit \in Prompts!Editor /\ edit.step = step /\ edit.seen = editors[e].seen
        /\ edit.whole = editors[e].whole /\ edit.body = editors[e].body
    BY <2>1 DEF Prompts!Editor
  <2>3. editors' = [editors EXCEPT ![e] = edit]
    BY <1>3
  <2> HIDE DEF edit
  <2> QED BY <1>3, <2>1, <2>2, <2>3, PromptsWait
<1>4. ASSUME NEW e \in Editors, Prompts!LockPrompt(e) PROVE PromptsInv'
  <2> DEFINE step == IF prompt.there THEN "locked" ELSE IF Prompts!AddsVersion(editors[e]) THEN "failed" ELSE "empty"
  <2>1. /\ editors' = [editors EXCEPT ![e].step = step] /\ editors[e].step = "read"
        /\ prompt' = prompt /\ writing' \in Editors \cup {Absent}
    BY <1>1, <1>4 DEF Prompts!LockPrompt
  <2>2. step \in {"locked", "failed", "empty"}
    OBVIOUS
  <2> HIDE DEF step
  <2> QED BY <1>3, <2>1, <2>2
<1>5. ASSUME NEW e \in Editors, Prompts!Abort(e) PROVE PromptsInv'
  BY <1>1, <1>3, <1>5 DEF Prompts!Abort
<1>6. CASE Prompts!DeletePrompt
  <2>1. prompt'.there = FALSE /\ prompt'.versions = {} /\ prompt'.body = prompt.body /\ UNCHANGED <<writing, editors>>
    BY <1>1, <1>6 DEF Prompts!DeletePrompt
  <2>2. prompt' \in [there : BOOLEAN, body : Bodies, versions : SUBSET Prompts!Version]
    BY <1>1, <1>6 DEF Prompts!DeletePrompt
  <2>3. IsFiniteSet({}) /\ Cardinality({}) = 0
    BY FS_EmptySet
  <2>4. Done' = Done /\ Cardinality(Done) \in Nat
    BY <2>1, EditorsFinite DEF Done
  <2>5. Prompts!TypeOK'
    BY <1>1, <2>1, <2>2 DEF Prompts!TypeOK, Bodies
  <2>6. NumberedFrom1(prompt'.versions)
    <3>1. {v.number : v \in {}} = {} /\ 1..0 = {}
      OBVIOUS
    <3> QED BY <2>1, <2>3, <3>1 DEF NumberedFrom1
  <2>7. \A e \in Editors : editors'[e].step \in {"read", "locked"} => editors'[e].seen \in Bodies
    BY <2>1 DEF PromptsInv
  <2> QED BY <2>1, <2>3, <2>4, <2>5, <2>6, <2>7 DEF PromptsInv
<1>7. CASE UNCHANGED promptVars
  BY <1>7 DEF promptVars, PromptsInv, Prompts!TypeOK, Done, WholeEdits
<1> QED BY <1>2, <1>4, <1>5, <1>6, <1>7, PromptsCommit DEF Prompts!Next, Bodies

LEMMA LastIsThePrompt == PromptsInv => Prompts!LastVersionIsThePrompt
<1> SUFFICES ASSUME PromptsInv, prompt.there
             PROVE  /\ NumberedFrom1(prompt.versions)
                    /\ WholeEdits => Prompts!LastVersion.body = prompt.body
  BY PromptsCardinality DEF Prompts!LastVersionIsThePrompt, WholeEdits, NumberedFrom1
<1>1. NumberedFrom1(prompt.versions)
  BY DEF PromptsInv
<1> DEFINE n == Cardinality(prompt.versions)
<1>2. n \in Nat /\ n # 0
  BY FS_CardinalityType, FS_EmptySet DEF PromptsInv
<1>3. {v.number : v \in prompt.versions} = 1..n
  BY <1>1 DEF NumberedFrom1
<1> HIDE DEF n
<1>4. n \in 1..n /\ \A v \in prompt.versions : v.number \in 1..n
  BY <1>2, <1>3
<1>5. PICK last \in prompt.versions : last.number = n
  BY <1>3, <1>4
<1>6. \A w \in prompt.versions : w.number <= last.number
  BY <1>2, <1>4, <1>5
<1>7. /\ Prompts!LastVersion \in prompt.versions
      /\ \A w \in prompt.versions : w.number <= Prompts!LastVersion.number
  BY <1>6 DEF Prompts!LastVersion
<1>8. Prompts!LastVersion.number = n
  BY <1>2, <1>4, <1>5, <1>7
<1> QED BY <1>1, <1>7, <1>8 DEF PromptsInv, n

-----------------------------------------------------------------------------
(* Sets in order, and what is picked of a sequence.                        *)

Unrepeated(s) == \A i, j \in DOMAIN s : s[i] = s[j] => i = j

\* A module that is instantiated has its own name for the operators it extends.
LEMMA IndexNames ==
  /\ \A S : Index!Cardinality(S) = Cardinality(S)
  /\ \A s : Index!IsInjective(s) <=> Unrepeated(s)
  /\ \A s : Index!ToSet(s) = {s[i] : i \in DOMAIN s}
<1>1. \A S : Index!Cardinality(S) = Cardinality(S)
  BY DEF Index!Cardinality, Cardinality
<1>2. \A s : Index!IsInjective(s) <=> Unrepeated(s)
  BY DEF Index!IsInjective, Unrepeated
<1>3. \A s : Index!ToSet(s) = {s[i] : i \in DOMAIN s}
  BY DEF Index!ToSet
<1> QED BY <1>1, <1>2, <1>3

\* A set of numbers has a least one.
LEMMA LeastOf ==
  ASSUME NEW T \in SUBSET Nat, T # {}
  PROVE  \E n \in T : \A m \in T : n <= m
<1> DEFINE R == {p \in Nat \X Nat : p[1] < p[2]}
<1>1. \E n \in T : \A m \in T : <<m, n>> \notin R
  <2>1. IsWellFoundedOn(R, Nat)
    BY NatLessThanWellFounded DEF OpToRel
  <2> HIDE DEF R
  <2> QED BY <2>1, WFMin
<1>2. PICK n \in T : \A m \in T : <<m, n>> \notin R
  BY <1>1
<1>3. ASSUME NEW m \in T PROVE n <= m
  <2>1. m \in Nat /\ n \in Nat
    OBVIOUS
  <2>2. <<m, n>> \in Nat \X Nat /\ <<m, n>>[1] = m /\ <<m, n>>[2] = n
    BY <2>1
  <2>3. ~(m < n)
    BY <1>2, <2>2
  <2> QED BY <2>1, <2>3
<1> QED BY <1>3

Ordered(s, S, key) ==
  /\ s \in [1..Cardinality(S) -> S] /\ Unrepeated(s)
  /\ \A i, j \in DOMAIN s : i < j => key[s[i]] <= key[s[j]]

\* An element of the least key comes before the others, in their order.
LEMMA OrderGrows ==
  ASSUME NEW S, NEW key, NEW x, x \notin S, NEW n \in Nat, Cardinality(S) = n, Cardinality(S \cup {x}) = n + 1,
         \A y \in S : key[y] \in Nat /\ key[x] <= key[y], key[x] \in Nat,
         NEW s, Ordered(s, S, key)
  PROVE  \E t : Ordered(t, S \cup {x}, key)
<1> DEFINE t == [i \in 1..(n + 1) |-> IF i = 1 THEN x ELSE s[i - 1]]
<1>1. s \in [1..n -> S] /\ Unrepeated(s) /\ \A i, j \in 1..n : i < j => key[s[i]] <= key[s[j]]
  BY DEF Ordered
<1>2. DOMAIN t = 1..(n + 1) /\ t[1] = x /\ \A i \in 2..(n + 1) : i - 1 \in 1..n /\ t[i] = s[i - 1] /\ t[i] \in S
  BY <1>1
<1>3. \A i \in 1..(n + 1) : i = 1 \/ i \in 2..(n + 1)
  OBVIOUS
<1>4. t \in [1..(n + 1) -> S \cup {x}]
  BY <1>1
<1> HIDE DEF t
<1>5. \A i, j \in 2..(n + 1) : t[i] = t[j] => i = j
  BY <1>1, <1>2, SMTT(20) DEF Unrepeated
<1>6. Unrepeated(t)
  BY <1>2, <1>3, <1>5 DEF Unrepeated
<1>7. ASSUME NEW i \in 1..(n + 1), NEW j \in 1..(n + 1), i < j PROVE key[t[i]] <= key[t[j]]
  <2>1. j \in 2..(n + 1) /\ t[j] = s[j - 1] /\ t[j] \in S /\ j - 1 \in 1..n
    BY <1>2, <1>7
  <2>2. CASE i = 1
    BY <1>2, <2>1, <2>2
  <2>3. CASE i # 1
    <3>1. i - 1 \in 1..n /\ i - 1 < j - 1 /\ t[i] = s[i - 1]
      BY <1>2, <1>3, <1>7, <2>3
    <3> QED BY <1>1, <2>1, <3>1
  <2> QED BY <2>2, <2>3
<1> QED BY <1>2, <1>4, <1>6, <1>7 DEF Ordered

LEMMA OrderExists ==
  ASSUME NEW T, NEW key, \A x \in T : key[x] \in Nat
  PROVE  \A S \in SUBSET T : IsFiniteSet(S) => \E s : Ordered(s, S, key)
<1> DEFINE Bad == {n \in Nat : \E S \in SUBSET T : IsFiniteSet(S) /\ Cardinality(S) = n /\ ~\E s : Ordered(s, S, key)}
<1>1. ASSUME Bad # {} PROVE FALSE
  <2>1. PICK n \in Bad : \A m \in Bad : n <= m
    <3>1. Bad \in SUBSET Nat
      OBVIOUS
    <3> HIDE DEF Bad
    <3> QED BY <1>1, <3>1, LeastOf
  <2>2. PICK S \in SUBSET T : IsFiniteSet(S) /\ Cardinality(S) = n /\ ~\E s : Ordered(s, S, key)
    BY <2>1
  <2>3. CASE S = {}
    <3> DEFINE empty == [i \in {} |-> 0]
    <3>1. Cardinality(S) = 0 /\ 1..0 = {}
      BY <2>3, FS_EmptySet
    <3>2. empty \in [1..Cardinality(S) -> S] /\ DOMAIN empty = {}
      BY <3>1
    <3> HIDE DEF empty
    <3> QED BY <2>2, <3>2 DEF Ordered, Unrepeated
  <2>4. CASE S # {}
    <3> DEFINE keys == {key[y] : y \in S}
    <3>1. keys \in SUBSET Nat /\ keys # {}
      BY <2>4
    <3>2. PICK k \in keys : \A m \in keys : k <= m
      <4> HIDE DEF keys
      <4> QED BY <3>1, LeastOf
    <3>3. PICK x \in S : key[x] = k
      BY <3>2
    <3>4. \A y \in S : key[y] \in Nat /\ key[x] <= key[y]
      BY <3>2, <3>3
    <3> HIDE DEF keys
    <3> DEFINE R == S \ {x}
    <3>5. IsFiniteSet(R) /\ Cardinality(R) = n - 1 /\ n \in Nat
      BY <2>1, <2>2, FS_RemoveElement
    <3>6. R \cup {x} = S /\ x \notin R /\ R \in SUBSET T /\ \A y \in R : key[y] \in Nat /\ key[x] <= key[y]
      BY <3>4
    <3>7. Cardinality(R) \in Nat
      BY <3>5, FS_CardinalityType
    <3> HIDE DEF R
    <3>8. n - 1 \in Nat /\ n - 1 \notin Bad
      <4>1. n - 1 \in Nat
        BY <3>5, <3>7
      <4> HIDE DEF Bad
      <4> QED BY <2>1, <3>5, <4>1
    <3>9. PICK s : Ordered(s, R, key)
      BY <3>5, <3>6, <3>8
    <3>10. \E t : Ordered(t, R \cup {x}, key)
      <4> HIDE DEF Bad
      <4>0. Cardinality(R \cup {x}) = n /\ n \in Nat
        BY <2>2, <3>5, <3>6
      <4>1. Cardinality(R \cup {x}) = (n - 1) + 1
        BY <4>0
      <4> QED BY <3>4, <3>5, <3>6, <3>8, <3>9, <4>1, OrderGrows
    <3> QED BY <2>2, <3>6, <3>10
  <2> QED BY <2>3, <2>4
<1> QED
  <2>1. ASSUME NEW S \in SUBSET T, IsFiniteSet(S) PROVE \E s : Ordered(s, S, key)
    <3>1. Cardinality(S) \in Nat
      BY <2>1, FS_CardinalityType
    <3> QED BY <1>1, <2>1, <3>1
  <2> QED BY <2>1

LEMMA InOrderIs ==
  ASSUME NEW S, IsFiniteSet(S), NEW key, \A x \in S : key[x] \in Nat
  PROVE  Ordered(InOrder(S, key), S, key)
<1>1. PICK s : Ordered(s, S, key)
  BY OrderExists
<1>2. \E t \in [1..Cardinality(S) -> S] :
        /\ \A i, j \in DOMAIN t : t[i] = t[j] => i = j
        /\ \A i, j \in DOMAIN t : i < j => key[t[i]] <= key[t[j]]
  BY <1>1 DEF Ordered, Unrepeated
<1>3. /\ InOrder(S, key) \in [1..Cardinality(S) -> S]
      /\ Unrepeated(InOrder(S, key))
      /\ \A i, j \in DOMAIN InOrder(S, key) :
           i < j => key[InOrder(S, key)[i]] <= key[InOrder(S, key)[j]]
  BY <1>2 DEF InOrder, Unrepeated
<1> QED BY <1>3 DEF Ordered

LEMMA OrderingNames ==
  /\ \A S, key : Index!InOrder(S, key) = InOrder(S, key)
  /\ \A s, places : Index!Picked(s, places) = Picked(s, places)
  /\ \A s, places : Catalog!Picked(s, places) = Picked(s, places)
<1>1. \A S : Index!Cardinality(S) = Cardinality(S) /\ Catalog!Cardinality(S) = Cardinality(S)
  BY DEF Index!Cardinality, Catalog!Cardinality, Cardinality
<1>2. \A S, key : Index!InOrder(S, key) = InOrder(S, key) /\ Catalog!InOrder(S, key) = InOrder(S, key)
  BY <1>1 DEF Index!InOrder, Catalog!InOrder, InOrder
<1> QED BY <1>2 DEF Index!Picked, Catalog!Picked, Picked

\* The elements at some places, as many as there are of these, and none twice that was not there twice.
LEMMA PickedIs ==
  ASSUME NEW S, NEW s \in Seq(S), NEW places \in SUBSET (DOMAIN s)
  PROVE  /\ Picked(s, places) \in Seq(S)
         /\ IsFiniteSet(places) /\ Cardinality(places) \in Nat /\ Len(Picked(s, places)) = Cardinality(places)
         /\ \A k \in DOMAIN Picked(s, places) : \E i \in places : Picked(s, places)[k] = s[i]
         /\ Unrepeated(s) => Unrepeated(Picked(s, places))
<1> DEFINE key == [i \in places |-> i]
           at == InOrder(places, key)
           n == Cardinality(places)
           picked == [k \in DOMAIN at |-> s[at[k]]]
<1>1. Len(s) \in Nat /\ DOMAIN s = 1..Len(s) /\ \A i \in DOMAIN s : s[i] \in S
  BY ElementOfSeq
<1>2. IsFiniteSet(places) /\ n \in Nat
  <2>1. IsFiniteSet(1..Len(s)) /\ places \in SUBSET (1..Len(s))
    BY <1>1, FS_Interval
  <2> QED BY <2>1, FS_Subset, FS_CardinalityType
<1>3. \A i \in places : key[i] \in Nat
  BY <1>1
<1>4. at \in [1..n -> places] /\ Unrepeated(at)
  <2> HIDE DEF key, n
  <2> QED BY <1>2, <1>3, InOrderIs DEF Ordered, n
<1>5. Picked(s, places) = picked
  BY DEF Picked
<1> HIDE DEF at, n
<1>6. DOMAIN picked = 1..n /\ \A k \in 1..n : at[k] \in places /\ picked[k] = s[at[k]]
  BY <1>4
<1>7. picked \in Seq(S) /\ Len(picked) = n
  <2>1. \A k \in 1..n : s[at[k]] \in S
    BY <1>1, <1>6
  <2>2. picked = [k \in 1..n |-> s[at[k]]]
    BY <1>4
  <2> HIDE DEF picked
  <2> QED BY <1>2, <2>1, <2>2
<1> HIDE DEF picked
<1>8. Unrepeated(s) => Unrepeated(picked)
  BY <1>4, <1>6 DEF Unrepeated
<1> QED BY <1>2, <1>5, <1>6, <1>7, <1>8 DEF n

LEMMA ImageIsFinite ==
  ASSUME NEW S, IsFiniteSet(S), NEW f
  PROVE  IsFiniteSet({f[x] : x \in S}) /\ Cardinality({f[x] : x \in S}) <= Cardinality(S)
<1> DEFINE T == {f[x] : x \in S}
           g == [x \in S |-> f[x]]
<1>1. g \in Surjection(S, T)
  BY DEF Surjection
<1> HIDE DEF T, g
<1>2. IsFiniteSet(T) /\ Cardinality(T) <= Cardinality(S)
  BY <1>1, FS_Surjection
<1> QED BY <1>2 DEF T

\* There are no more elements than places.
LEMMA SizeOfSome ==
  ASSUME NEW S, NEW s \in Seq(S), NEW T \in SUBSET {s[i] : i \in DOMAIN s}
  PROVE  Cardinality(T) \in Nat /\ Cardinality(T) <= Len(s)
<1> DEFINE n == Len(s)
           D == 1..n
           R == {s[i] : i \in D}
<1>1. n \in Nat /\ DOMAIN s = 1..n /\ Len(s) = n
  OBVIOUS
<1>2. T \in SUBSET R
  BY <1>1
<1> HIDE DEF n
<1>3. IsFiniteSet(D) /\ Cardinality(D) = n
  BY <1>1, FS_Interval
<1> HIDE DEF D
<1>4. IsFiniteSet(R) /\ Cardinality(R) <= n
  <2>1. IsFiniteSet({s[i] : i \in D}) /\ Cardinality({s[i] : i \in D}) <= Cardinality(D)
    BY <1>3, ImageIsFinite
  <2> QED BY <1>3, <2>1
<1> HIDE DEF R
<1>5. IsFiniteSet(T) /\ Cardinality(T) <= Cardinality(R)
  BY <1>2, <1>4, FS_Subset
<1>6. Cardinality(T) \in Nat /\ Cardinality(R) \in Nat
  BY <1>4, <1>5, FS_CardinalityType
<1> QED BY <1>1, <1>4, <1>5, <1>6

\* Two sequences that have nothing in common, one after the other.
LEMMA Joined ==
  ASSUME NEW S, NEW s \in Seq(S), NEW t \in Seq(S), Unrepeated(s), Unrepeated(t),
         \A i \in DOMAIN s, j \in DOMAIN t : s[i] # t[j]
  PROVE  /\ s \o t \in Seq(S) /\ Unrepeated(s \o t)
         /\ \A k \in DOMAIN (s \o t) : (\E i \in DOMAIN s : (s \o t)[k] = s[i]) \/ (\E j \in DOMAIN t : (s \o t)[k] = t[j])
<1> DEFINE u == s \o t
<1>1. /\ Len(s) \in Nat /\ Len(t) \in Nat /\ DOMAIN s = 1..Len(s) /\ DOMAIN t = 1..Len(t)
      /\ u \in Seq(S) /\ Len(u) = Len(s) + Len(t)
      /\ \A i \in 1..(Len(s) + Len(t)) : u[i] = IF i <= Len(s) THEN s[i] ELSE t[i - Len(s)]
  BY ConcatProperties
<1>2. DOMAIN u = 1..(Len(s) + Len(t))
  BY <1>1
<1> HIDE DEF u
<1>3. \A i \in DOMAIN u : (i \in DOMAIN s /\ u[i] = s[i]) \/ (i - Len(s) \in DOMAIN t /\ u[i] = t[i - Len(s)])
  BY <1>1, <1>2
<1>4. Unrepeated(u)
  <2>1. SUFFICES ASSUME NEW i \in DOMAIN u, NEW j \in DOMAIN u, u[i] = u[j] PROVE i = j
    BY DEF Unrepeated
  <2>2. i \in Nat /\ j \in Nat
    BY <1>1, <1>2
  <2>3. CASE i \in DOMAIN s /\ u[i] = s[i]
    BY <1>3, <2>1, <2>2, <2>3 DEF Unrepeated
  <2>4. CASE i - Len(s) \in DOMAIN t /\ u[i] = t[i - Len(s)]
    <3>1. ~(j \in DOMAIN s /\ u[j] = s[j])
      BY <2>1, <2>4
    <3>2. j - Len(s) \in DOMAIN t /\ u[j] = t[j - Len(s)]
      BY <1>3, <3>1
    <3>3. i - Len(s) = j - Len(s)
      BY <2>1, <2>4, <3>2 DEF Unrepeated
    <3> QED BY <1>1, <2>2, <3>3
  <2> QED BY <1>3, <2>3, <2>4
<1> QED BY <1>1, <1>3, <1>4 DEF u

LEMMA PutFirst ==
  ASSUME NEW S, NEW s \in Seq(S), Unrepeated(s), NEW x \in S, \A i \in DOMAIN s : s[i] # x
  PROVE  /\ <<x>> \o s \in Seq(S) /\ Unrepeated(<<x>> \o s)
         /\ \A k \in DOMAIN (<<x>> \o s) : (<<x>> \o s)[k] = x \/ (\E j \in DOMAIN s : (<<x>> \o s)[k] = s[j])
<1> DEFINE t == <<x>>
<1>1. t \in Seq(S) /\ DOMAIN t = {1} /\ t[1] = x
  OBVIOUS
<1> HIDE DEF t
<1>2. Unrepeated(t) /\ \A i \in DOMAIN t, j \in DOMAIN s : t[i] # s[j]
  BY <1>1 DEF Unrepeated
<1>3. /\ t \o s \in Seq(S) /\ Unrepeated(t \o s)
      /\ \A k \in DOMAIN (t \o s) : (\E i \in DOMAIN t : (t \o s)[k] = t[i]) \/ (\E j \in DOMAIN s : (t \o s)[k] = s[j])
  BY <1>1, <1>2, Joined
<1>4. \A k \in DOMAIN (t \o s) : (t \o s)[k] = x \/ (\E j \in DOMAIN s : (t \o s)[k] = s[j])
  BY <1>1, <1>3
<1> QED BY <1>3, <1>4 DEF t

LEMMA WithoutIs ==
  ASSUME NEW S, NEW s \in Seq(S), Unrepeated(s), NEW x
  PROVE  /\ Index!Without(s, x) \in Seq(S) /\ Unrepeated(Index!Without(s, x))
         /\ \A k \in DOMAIN Index!Without(s, x) :
              Index!Without(s, x)[k] # x /\ \E i \in DOMAIN s : Index!Without(s, x)[k] = s[i]
<1> DEFINE places == {i \in DOMAIN s : s[i] # x}
<1>1. places \in SUBSET (DOMAIN s) /\ \A i \in places : i \in DOMAIN s /\ s[i] # x
  OBVIOUS
<1>2. Index!Without(s, x) = Picked(s, places)
  BY OrderingNames DEF Index!Without
<1> HIDE DEF places
<1>3. /\ Picked(s, places) \in Seq(S) /\ Unrepeated(Picked(s, places))
      /\ \A k \in DOMAIN Picked(s, places) : \E i \in places : Picked(s, places)[k] = s[i]
  BY <1>1, PickedIs
<1> QED BY <1>1, <1>2, <1>3

-----------------------------------------------------------------------------
(* The pages of a search.                                                  *)

IndexNumbers ==
  /\ MaxDocs \in Nat /\ MaxChunks \in Nat \ {0} /\ MaxIngests \in Nat /\ MaxRequests \in Nat
  /\ MaxOffset \in Nat /\ MaxCandidates \in Nat
  /\ DefaultLimit \in Nat \ {0} /\ MaxLimit \in Nat \ {0} /\ RefreshLimit \in Nat \ {0}

LEMMA IndexNumbersAre == IndexNumbers
BY IndexAssumption DEF IndexNumbers

LEMMA ClampIs ==
  ASSUME NEW limit \in Nat, NEW offset \in Nat
  PROVE  /\ Index!Clamp(limit, DefaultLimit, 1, MaxLimit) \in 1..MaxLimit
         /\ Index!Clamp(offset, 0, 0, MaxOffset) \in 0..MaxOffset
         /\ Index!Smaller(RefreshLimit, MaxLimit) \in 1..MaxLimit
         /\ Index!CandidateLimit(limit, offset) = MaxCandidates
BY IndexNumbersAre DEF IndexNumbers, Index!Clamp, Index!Smaller, Index!Larger, Index!CandidateLimit

LEMMA RankedIs ==
  ASSUME NEW S, NEW s \in Seq(S), NEW query, Unrepeated(s)
  PROVE  /\ Index!Ranked(query, s) \in Seq(S) /\ Unrepeated(Index!Ranked(query, s))
         /\ Len(Index!Ranked(query, s)) = Cardinality({i \in DOMAIN s : Index!Found(query, s[i])})
<1> DEFINE places == {i \in DOMAIN s : Index!Found(query, s[i])}
<1>1. places \in SUBSET (DOMAIN s)
  OBVIOUS
<1>2. Index!Ranked(query, s) = Picked(s, places)
  BY OrderingNames DEF Index!Ranked
<1> HIDE DEF places
<1>3. /\ Picked(s, places) \in Seq(S) /\ Unrepeated(Picked(s, places))
      /\ Len(Picked(s, places)) = Cardinality(places)
  BY <1>1, PickedIs
<1> QED BY <1>2, <1>3 DEF places

\* A page of a sequence.
IsPage(shown, S, s, offset, limit) ==
  /\ shown \in Seq(S)
  /\ Len(shown) = IF offset + limit <= Len(s) THEN limit ELSE IF offset < Len(s) THEN Len(s) - offset ELSE 0
  /\ \A i \in DOMAIN shown : i \in 1..limit /\ offset + i \in DOMAIN s /\ shown[i] = s[offset + i]

LEMMA PageIs ==
  ASSUME NEW S, NEW s \in Seq(S), NEW offset \in Nat, NEW limit \in Nat \ {0}
  PROVE  IsPage(Index!Page(s, offset, limit), S, s, offset, limit)
<1> DEFINE n == Len(s)
           last == Index!Smaller(offset + limit, n)
           shown == SubSeq(s, offset + 1, last)
<1>1. n \in Nat /\ DOMAIN s = 1..n /\ \A i \in 1..n : s[i] \in S
  BY ElementOfSeq
<1>2. Index!Page(s, offset, limit) = shown /\ n = Len(s)
  BY DEF Index!Page
<1> HIDE DEF n
<1>3. n \in Nat /\ offset \in Nat /\ limit \in Nat /\ limit >= 1
  BY <1>1
<1>4. last = IF offset + limit < n THEN offset + limit ELSE n
  BY DEF Index!Smaller
<1> HIDE DEF last
<1>5. last \in Nat /\ last <= n /\ last <= offset + limit
  BY ONLY <1>3, <1>4
<1>6. \A i \in (offset + 1)..last : s[i] \in S
  <2>1. \A i \in (offset + 1)..last : i \in 1..n
    BY ONLY <1>3, <1>5
  <2> QED BY <1>1, <2>1
<1>7. /\ shown \in Seq(S)
      /\ Len(shown) = IF offset + 1 <= last THEN last - (offset + 1) + 1 ELSE 0
      /\ \A i \in 1..(last - (offset + 1) + 1) : shown[i] = s[(offset + 1) + i - 1]
  <2> DEFINE first == offset + 1
  <2>1. first \in Int /\ last \in Int /\ \A i \in first..last : s[i] \in S
    BY <1>3, <1>5, <1>6
  <2>2. shown = SubSeq(s, first, last)
    OBVIOUS
  <2> HIDE DEF first, shown
  <2>3. /\ shown \in Seq(S)
        /\ Len(shown) = IF first <= last THEN last - first + 1 ELSE 0
        /\ \A i \in 1..(last - first + 1) : shown[i] = s[first + i - 1]
    BY ONLY <2>1, <2>2, SubSeqProperties
  <2> QED BY <2>3 DEF first
<1>8. (IF offset + 1 <= last THEN last - (offset + 1) + 1 ELSE 0)
        = (IF offset + limit <= n THEN limit ELSE IF offset < n THEN n - offset ELSE 0)
  BY ONLY <1>3, <1>4
<1>9. DOMAIN shown = 1..Len(shown)
  BY <1>7
<1> HIDE DEF shown
<1>10. ASSUME NEW i \in DOMAIN shown PROVE i \in 1..limit /\ offset + i \in DOMAIN s /\ shown[i] = s[offset + i]
  <2>1. i \in 1..(last - (offset + 1) + 1) /\ i \in Nat
    BY <1>3, <1>5, <1>7, <1>9
  <2>2. shown[i] = s[(offset + 1) + i - 1]
    BY <1>7, <2>1
  <2>3. (offset + 1) + i - 1 = offset + i /\ i \in 1..limit /\ offset + i \in 1..n
    BY ONLY <1>3, <1>5, <2>1
  <2> QED BY <1>1, <2>2, <2>3
<1> QED BY <1>2, <1>7, <1>8, <1>10 DEF IsPage

-----------------------------------------------------------------------------
(* The index and its requests.                                             *)

\* What one row held, one text it held; the rows of later ingestions are others.
RowsHaveTexts ==
  /\ \A c, d \in indexed : Index!SameRow(c, d) => c.text = d.text
  /\ \A c \in indexed : c.ingest <= ingests /\ c.embedding.of = c.text

ReadyHaveChunks == \A i \in DOMAIN ready : \E c \in indexed : c.doc = ready[i]

\* A row that a refresh has read, and that is still there, has the text that was read.
ScanHolds(r) ==
  r.step = "read" =>
    \A u \in Index!ToSet(r.scanned) :
      u.ingest <= ingests /\ \A c \in indexed : Index!SameRow(u, c) => c.text = u.text

\* An answered search has its page of the chunks that it ranked.
PageIsCut(r) ==
  r.op = "search" /\ r.step = "over" =>
    LET ranked == Index!Ranked(r.query, SubSeq(r.read, 1, Index!Smaller(MaxCandidates, Len(r.read)))) IN
    /\ Unrepeated(r.read)
    /\ r.truncated <=> Len(r.read) > MaxCandidates
    /\ r.results = Index!Page(ranked, r.offset, r.limit)
    /\ r.total = Len(ranked)
    /\ r.more <=> r.offset + r.limit < Len(ranked)

RequestFits(r) ==
  /\ r \in Index!Request
  /\ r.limit \in 1..MaxLimit /\ r.offset \in 0..MaxOffset
  /\ r.updated + r.skipped <= Len(r.scanned) /\ (r.step # "over" => r.updated = 0 /\ r.skipped = 0)

IndexInv ==
  /\ active \in BOOLEAN
  /\ ready \in Seq(Index!Docs) /\ Unrepeated(ready) /\ ReadyHaveChunks
  /\ indexed \subseteq Index!Chunk /\ IsFiniteSet(indexed) /\ RowsHaveTexts
  /\ ingests \in 0..MaxIngests
  /\ requests \in Seq(Index!Request) /\ Len(requests) <= MaxRequests
  /\ \A k \in DOMAIN requests : RequestFits(requests[k]) /\ ScanHolds(requests[k]) /\ PageIsCut(requests[k])

LEMMA IndexTyped == IndexInv => Index!RetrievalTypeOK /\ Index!EmbeddingIsOfText
BY IndexNames DEF IndexInv, RequestFits, RowsHaveTexts, Index!RetrievalTypeOK, Index!EmbeddingIsOfText

\* Pages of the same ranked chunks fit together.
LEMMA PagesOfOne ==
  ASSUME NEW a \in Index!Request, NEW b \in Index!Request, RequestFits(a), RequestFits(b), PageIsCut(a), PageIsCut(b),
         a.op = "search", b.op = "search", a.step = "over", b.step = "over",
         a.query = b.query, a.read = b.read, b.offset = a.offset + a.limit
  PROVE  /\ a.more <=> b.results # <<>>
         /\ Index!ToSet(a.results) \cap Index!ToSet(b.results) = {}
         /\ a.offset + Len(a.results) < b.offset => b.results = <<>>
<1> DEFINE cut == SubSeq(a.read, 1, Index!Smaller(MaxCandidates, Len(a.read)))
           ranked == Index!Ranked(a.query, cut)
           S == Index!Chunk
<1>1. a.read \in Seq(S) /\ Unrepeated(a.read) /\ Len(a.read) \in Nat
  BY DEF Index!Request, PageIsCut
<1>2. cut \in Seq(S) /\ Unrepeated(cut)
  <2> DEFINE last == Index!Smaller(MaxCandidates, Len(a.read))
  <2>1. last \in Nat /\ last <= Len(a.read)
    BY <1>1, IndexNumbersAre DEF IndexNumbers, Index!Smaller
  <2> HIDE DEF last, S
  <2>2. DOMAIN a.read = 1..Len(a.read) /\ \A i \in 1..last : a.read[i] \in S
    BY <1>1, <2>1, ElementOfSeq
  <2>3. /\ SubSeq(a.read, 1, last) \in Seq(S)
        /\ Len(SubSeq(a.read, 1, last)) = IF 1 <= last THEN last - 1 + 1 ELSE 0
        /\ \A i \in 1..(last - 1 + 1) : SubSeq(a.read, 1, last)[i] = a.read[1 + i - 1]
    BY <2>1, <2>2, SubSeqProperties
  <2>4. last - 1 + 1 = last /\ \A i \in 1..last : 1 + i - 1 = i /\ i \in 1..Len(a.read)
    BY <1>1, <2>1
  <2>5. DOMAIN SubSeq(a.read, 1, last) = 1..last
    BY <2>1, <2>3
  <2>6. \A i \in 1..last : SubSeq(a.read, 1, last)[i] = a.read[i] /\ i \in DOMAIN a.read
    BY <2>2, <2>3, <2>4
  <2>7. Unrepeated(SubSeq(a.read, 1, last))
    BY <1>1, <2>5, <2>6 DEF Unrepeated
  <2> QED BY <2>3, <2>7 DEF last
<1> HIDE DEF cut, S
<1>3. ranked \in Seq(S) /\ Unrepeated(ranked)
  BY <1>2, RankedIs
<1>4. /\ a.results = Index!Page(ranked, a.offset, a.limit) /\ (a.more <=> a.offset + a.limit < Len(ranked))
      /\ b.results = Index!Page(ranked, b.offset, b.limit)
  BY DEF PageIsCut, cut
<1> HIDE DEF ranked
<1>5. /\ a.offset \in Nat /\ a.limit \in Nat \ {0} /\ b.offset \in Nat /\ b.limit \in Nat \ {0} /\ Len(ranked) \in Nat
      /\ DOMAIN ranked = 1..Len(ranked)
  BY <1>3, IndexNumbersAre DEF IndexNumbers, RequestFits
<1>14. IsPage(a.results, S, ranked, a.offset, a.limit) /\ IsPage(b.results, S, ranked, b.offset, b.limit)
  BY <1>3, <1>4, <1>5, PageIs
<1>6. /\ a.results \in Seq(S)
      /\ Len(a.results) = IF a.offset + a.limit <= Len(ranked) THEN a.limit
                          ELSE IF a.offset < Len(ranked) THEN Len(ranked) - a.offset ELSE 0
      /\ \A i \in DOMAIN a.results :
           i \in 1..a.limit /\ a.offset + i \in DOMAIN ranked /\ a.results[i] = ranked[a.offset + i]
  BY ONLY <1>14 DEF IsPage
<1>7. /\ b.results \in Seq(S)
      /\ Len(b.results) = IF b.offset + b.limit <= Len(ranked) THEN b.limit
                          ELSE IF b.offset < Len(ranked) THEN Len(ranked) - b.offset ELSE 0
      /\ \A i \in DOMAIN b.results :
           i \in 1..b.limit /\ b.offset + i \in DOMAIN ranked /\ b.results[i] = ranked[b.offset + i]
  BY ONLY <1>14 DEF IsPage
<1>8. b.results = <<>> <=> Len(b.results) = 0
  BY <1>7, EmptySeq
<1>9. Len(b.results) = 0 <=> ~(b.offset < Len(ranked))
  BY ONLY <1>5, <1>7
<1>10. a.more <=> b.results # <<>>
  BY <1>4, <1>8, <1>9
<1>11. a.offset + Len(a.results) < b.offset => b.results = <<>>
  <2>1. a.offset + Len(a.results) < a.offset + a.limit => ~(a.offset + a.limit < Len(ranked))
    BY ONLY <1>5, <1>6
  <2> QED BY <1>8, <1>9, <2>1
<1>12. ASSUME NEW i \in DOMAIN a.results, NEW j \in DOMAIN b.results PROVE a.results[i] # b.results[j]
  <2>1. i \in 1..a.limit /\ j \in 1..b.limit
    BY <1>6, <1>7
  <2>2. a.offset + i # b.offset + j
    BY <1>5, <2>1
  <2> QED BY <1>3, <1>6, <1>7, <2>2 DEF Unrepeated
<1>13. Index!ToSet(a.results) \cap Index!ToSet(b.results) = {}
  BY <1>12, IndexNames
<1> QED BY <1>10, <1>11, <1>13

LEMMA PagesOfIndexFit == IndexInv => Index!PagesFit
<1> SUFFICES ASSUME IndexInv PROVE Index!PagesFit
  OBVIOUS
<1>1. ASSUME NEW j \in Index!Answered("search") PROVE
        /\ j \in DOMAIN requests /\ requests[j].op = "search" /\ requests[j].step = "over"
        /\ requests[j] \in Index!Request /\ RequestFits(requests[j]) /\ PageIsCut(requests[j])
  BY DEF Index!Answered, IndexInv, RequestFits
<1>2. ASSUME NEW a \in Index!Request, RequestFits(a), PageIsCut(a), a.op = "search", a.step = "over", ~a.truncated
      PROVE  a.total = Index!Cardinality({i \in DOMAIN a.read : Index!Found(a.query, a.read[i])})
  <2>1. a.read \in Seq(Index!Chunk) /\ Unrepeated(a.read) /\ Len(a.read) \in Nat /\ ~(Len(a.read) > MaxCandidates)
    BY <1>2 DEF Index!Request, PageIsCut
  <2>2. Index!Smaller(MaxCandidates, Len(a.read)) = Len(a.read)
    BY <2>1, IndexNumbersAre DEF IndexNumbers, Index!Smaller
  <2>3. SubSeq(a.read, 1, Len(a.read)) = a.read
    BY <2>1, SubSeqFull
  <2>4. a.total = Len(Index!Ranked(a.query, a.read))
    BY <1>2, <2>2, <2>3 DEF PageIsCut
  <2> QED BY <2>1, <2>4, RankedIs, IndexNames
<1>3. ASSUME NEW j \in Index!Answered("search"), NEW k \in Index!Answered("search") PROVE
        LET a == requests[j] b == requests[k] IN
        /\ ~a.truncated => a.total = Index!Cardinality({i \in DOMAIN a.read : Index!Found(a.query, a.read[i])})
        /\ a.query = b.query /\ a.read = b.read /\ b.offset = a.offset + a.limit =>
             /\ a.more <=> b.results # <<>>
             /\ Index!ToSet(a.results) \cap Index!ToSet(b.results) = {}
             /\ a.offset + Len(a.results) < b.offset => b.results = <<>>
  BY <1>1, <1>2, PagesOfOne
<1> QED BY <1>3 DEF Index!PagesFit

LEMMA IndexBegins == Index!RetrievalInit => IndexInv
<1> SUFFICES ASSUME Index!RetrievalInit PROVE IndexInv
  OBVIOUS
<1>1. IsFiniteSet({}) /\ MaxIngests \in Nat /\ MaxRequests \in Nat
  BY FS_EmptySet, IndexNumbersAre DEF IndexNumbers
<1>2. <<>> \in Seq(Index!Docs) /\ <<>> \in Seq(Index!Request) /\ DOMAIN <<>> = {} /\ Len(<<>>) = 0
  OBVIOUS
<1>3. active = TRUE /\ ready = <<>> /\ indexed = {} /\ ingests = 0 /\ requests = <<>>
  BY DEF Index!RetrievalInit
<1> QED BY <1>1, <1>2, <1>3 DEF IndexInv, Unrepeated, ReadyHaveChunks, RowsHaveTexts

\* Chunks are removed or replaced by those of an ingestion, and no request moves.
LEMMA IndexReplaced ==
  ASSUME IndexInv, requests' = requests, active' \in BOOLEAN,
         ingests' \in {ingests, ingests + 1}, ingests' <= MaxIngests,
         indexed' \subseteq Index!Chunk, IsFiniteSet(indexed'),
         \A c \in indexed' : c \in indexed \/ (c.ingest = ingests + 1 /\ ingests' = ingests + 1 /\ c.embedding.of = c.text),
         \A c, d \in indexed' \ indexed : Index!SameRow(c, d) => c.text = d.text,
         ready' \in Seq(Index!Docs), Unrepeated(ready'), \A i \in DOMAIN ready' : \E c \in indexed' : c.doc = ready'[i]
  PROVE  IndexInv'
<1>1. ingests \in Nat /\ ingests' \in 0..MaxIngests /\ ingests <= ingests'
  BY IndexNumbersAre DEF IndexInv, IndexNumbers
<1>2. \A c \in indexed : c.ingest <= ingests /\ c.ingest \in Nat /\ c.embedding.of = c.text
  BY DEF IndexInv, RowsHaveTexts, Index!Chunk
<1>3. \A c \in indexed' : c.ingest <= ingests' /\ c.embedding.of = c.text
  BY <1>1, <1>2
<1>4. \A c, d \in indexed' : Index!SameRow(c, d) => c.text = d.text
  <2>1. SUFFICES ASSUME NEW c \in indexed', NEW d \in indexed', Index!SameRow(c, d) PROVE c.text = d.text
    OBVIOUS
  <2>2. c.ingest = d.ingest
    BY <2>1 DEF Index!SameRow
  <2>3. c \in indexed <=> d \in indexed
    BY <1>1, <1>2, <2>2
  <2>4. CASE c \in indexed
    BY <2>1, <2>3, <2>4 DEF IndexInv, RowsHaveTexts
  <2>5. CASE c \notin indexed
    BY <2>1, <2>3, <2>5
  <2> QED BY <2>4, <2>5
<1>5. RowsHaveTexts'
  BY <1>3, <1>4 DEF RowsHaveTexts, Index!SameRow
<1>6. ASSUME NEW r \in Index!Request, ScanHolds(r) PROVE ScanHolds(r)'
  <2>1. SUFFICES ASSUME r.step = "read", NEW u \in Index!ToSet(r.scanned)
                 PROVE  u.ingest <= ingests' /\ \A c \in indexed' : Index!SameRow(u, c) => c.text = u.text
    BY IndexNames DEF ScanHolds, Index!SameRow
  <2>2. u.ingest <= ingests /\ \A c \in indexed : Index!SameRow(u, c) => c.text = u.text
    BY <1>6, <2>1 DEF ScanHolds
  <2>3. u.ingest \in Nat
    <3>1. r.scanned \in Seq(Index!Chunk) /\ \A c \in Index!Chunk : c.ingest \in Nat
      BY DEF Index!Request, Index!Chunk
    <3>2. \A i \in DOMAIN r.scanned : r.scanned[i] \in Index!Chunk
      BY ONLY <3>1
    <3> QED BY <2>1, <3>1, <3>2, IndexNames
  <2>4. ASSUME NEW c \in indexed', Index!SameRow(u, c) PROVE c \in indexed
    <3>1. c.ingest = u.ingest
      BY <2>4 DEF Index!SameRow
    <3> QED BY <1>1, <2>2, <2>3, <3>1
  <2> QED BY <1>1, <2>2, <2>3, <2>4
<1>7. \A k \in DOMAIN requests : ScanHolds(requests[k])'
  BY <1>6 DEF IndexInv
<1>8. \A k \in DOMAIN requests' : RequestFits(requests[k])' /\ ScanHolds(requests[k])' /\ PageIsCut(requests[k])'
  BY <1>7 DEF IndexInv, RequestFits, PageIsCut
<1>9. ReadyHaveChunks'
  BY DEF ReadyHaveChunks
<1> QED BY <1>1, <1>5, <1>8, <1>9 DEF IndexInv

LEMMA SearchesKeep == ASSUME NEW r PROVE (RequestFits(r)' <=> RequestFits(r)) /\ (PageIsCut(r)' <=> PageIsCut(r))
BY DEF RequestFits, PageIsCut

\* A request moves, and the index does not.
LEMMA RequestMoves ==
  ASSUME IndexInv, UNCHANGED <<active, ready, indexed, ingests>>,
         NEW k \in DOMAIN requests, NEW r, RequestFits(r), ScanHolds(r), PageIsCut(r),
         requests' = [requests EXCEPT ![k] = r]
  PROVE  IndexInv'
<1>1. requests \in Seq(Index!Request) /\ r \in Index!Request
  BY DEF IndexInv, RequestFits
<1>2. /\ requests' \in Seq(Index!Request) /\ Len(requests') = Len(requests) /\ DOMAIN requests' = DOMAIN requests
      /\ \A j \in DOMAIN requests : requests'[j] = IF j = k THEN r ELSE requests[j]
  BY <1>1
<1>3. \A j \in DOMAIN requests' : RequestFits(requests'[j]) /\ ScanHolds(requests'[j]) /\ PageIsCut(requests'[j])
  BY <1>2 DEF IndexInv
<1>4. \A q : ScanHolds(q)' <=> ScanHolds(q)
  BY DEF ScanHolds, Index!SameRow, Index!ToSet
<1> QED BY <1>2, <1>3, <1>4, SearchesKeep DEF IndexInv, ReadyHaveChunks, RowsHaveTexts, Index!SameRow

LEMMA RequestArrives ==
  ASSUME IndexInv, NEW r, RequestFits(r), r.step = "found", Index!Arrive(r)
  PROVE  IndexInv'
<1>1. /\ requests' = Append(requests, r) /\ Len(requests) < MaxRequests
      /\ UNCHANGED <<active, ready, indexed, ingests>>
  BY DEF Index!Arrive
<1>2. requests \in Seq(Index!Request) /\ r \in Index!Request /\ MaxRequests \in Nat
  BY IndexNumbersAre DEF IndexInv, RequestFits, IndexNumbers
<1>3. /\ requests' \in Seq(Index!Request) /\ Len(requests') <= MaxRequests
      /\ \A j \in DOMAIN requests' : requests'[j] = r \/ (j \in DOMAIN requests /\ requests'[j] = requests[j])
  BY <1>1, <1>2
<1>4. ScanHolds(r) /\ PageIsCut(r)
  BY DEF ScanHolds, PageIsCut
<1>5. \A j \in DOMAIN requests' : RequestFits(requests'[j]) /\ ScanHolds(requests'[j]) /\ PageIsCut(requests'[j])
  BY <1>3, <1>4 DEF IndexInv
<1>6. \A q : ScanHolds(q)' <=> ScanHolds(q)
  BY <1>1 DEF ScanHolds, Index!SameRow, Index!ToSet
<1> QED BY <1>1, <1>3, <1>5, <1>6, SearchesKeep DEF IndexInv, ReadyHaveChunks, RowsHaveTexts, Index!SameRow

\* Documents that are ready keep their order, without one of them.
LEMMA ReadyWithout ==
  ASSUME IndexInv, NEW d
  PROVE  /\ Index!Without(ready, d) \in Seq(Index!Docs) /\ Unrepeated(Index!Without(ready, d))
         /\ \A k \in DOMAIN Index!Without(ready, d) :
              Index!Without(ready, d)[k] # d /\ \E c \in indexed : c.doc = Index!Without(ready, d)[k]
BY WithoutIs DEF IndexInv, ReadyHaveChunks

LEMMA IngestedStep == ASSUME IndexInv, NEW d \in Index!Docs, Index!Ingested(d) PROVE IndexInv'
<1>1. PICK texts \in UNION {[1..n -> Exact \cup Near] : n \in 1..MaxChunks} :
        indexed' = (indexed \ Index!OfDoc(d)) \cup
                   {[doc |-> d, ingest |-> ingests + 1, index |-> i, text |-> texts[i],
                     embedding |-> Index!Stringified("current", texts[i])] : i \in DOMAIN texts}
  BY DEF Index!Ingested
<1>2. /\ ingests < MaxIngests /\ ingests' = ingests + 1 /\ ready' = <<d>> \o Index!Without(ready, d)
      /\ UNCHANGED <<active, requests>>
  BY DEF Index!Ingested
<1>3. PICK n \in 1..MaxChunks : texts \in [1..n -> Exact \cup Near]
  BY <1>1
<1> DEFINE row(i) == [doc |-> d, ingest |-> ingests + 1, index |-> i, text |-> texts[i],
                      embedding |-> Index!Stringified("current", texts[i])]
           new == {row(i) : i \in 1..n}
           old == indexed \ Index!OfDoc(d)
<1>4. indexed' = old \cup new
  BY <1>1, <1>3
<1>5. n \in Nat \ {0} /\ n <= MaxChunks /\ ingests \in Nat /\ ingests + 1 \in 1..MaxIngests
  BY <1>2, IndexNumbersAre DEF IndexInv, IndexNumbers
<1>6. ASSUME NEW i \in 1..n
      PROVE  /\ row(i) \in Index!Chunk /\ row(i).doc = d /\ row(i).ingest = ingests + 1 /\ row(i).index = i
             /\ row(i).text = texts[i] /\ row(i).embedding.of = texts[i]
  <2>1. texts[i] \in Exact \cup Near /\ i \in 1..MaxChunks
    BY <1>3, <1>5, IndexNumbersAre DEF IndexNumbers
  <2>2. Index!Stringified("current", texts[i]) \in Index!Embedding /\ Index!Stringified("current", texts[i]).of = texts[i]
    BY <2>1 DEF Index!Stringified, Index!Embedding
  <2> QED BY <1>5, <2>1, <2>2 DEF Index!Chunk
<1>7. IsFiniteSet(new)
  <2> DEFINE f == [i \in 1..n |-> row(i)]
  <2>1. IsFiniteSet(1..n)
    BY <1>5, FS_Interval
  <2> HIDE DEF row
  <2>2. {f[i] : i \in 1..n} = new
    OBVIOUS
  <2> HIDE DEF f, new
  <2> QED BY <2>1, <2>2, ImageIsFinite
<1>8. \A c \in new : \E i \in 1..n : c = row(i)
  OBVIOUS
<1>9. row(1) \in new /\ row(1).doc = d
  BY <1>5
<1> HIDE DEF row, new
<1>10. \A c \in new : c \in Index!Chunk /\ c.doc = d /\ c.ingest = ingests + 1 /\ c.embedding.of = c.text
  BY <1>6, <1>8
<1>11. \A b, c \in new : Index!SameRow(b, c) => b.text = c.text
  BY <1>6, <1>8 DEF Index!SameRow
<1>12. IsFiniteSet(indexed') /\ indexed' \subseteq Index!Chunk
  <2>1. IsFiniteSet(old) /\ old \subseteq Index!Chunk
    BY FS_Subset DEF IndexInv
  <2> HIDE DEF old
  <2> QED BY <1>4, <1>7, <1>10, <2>1, FS_Union
<1>13. \A c \in indexed \ indexed' : c.doc = d
  BY <1>4 DEF Index!OfDoc
<1>14. /\ ready' \in Seq(Index!Docs) /\ Unrepeated(ready')
       /\ \A k \in DOMAIN ready' :
            ready'[k] = d \/ \E j \in DOMAIN Index!Without(ready, d) : ready'[k] = Index!Without(ready, d)[j]
  BY <1>2, ReadyWithout, PutFirst
<1>15. \A k \in DOMAIN ready' : \E c \in indexed' : c.doc = ready'[k]
  BY <1>4, <1>9, <1>13, <1>14, ReadyWithout
<1>16. \A c \in indexed' : c \in indexed \/ (c.ingest = ingests + 1 /\ ingests' = ingests + 1 /\ c.embedding.of = c.text)
  BY <1>2, <1>4, <1>10
<1>17. \A b, c \in indexed' \ indexed : Index!SameRow(b, c) => b.text = c.text
  BY <1>4, <1>11
<1>18. ingests' \in {ingests, ingests + 1} /\ ingests' <= MaxIngests /\ active' \in BOOLEAN /\ requests' = requests
  BY <1>2, <1>5 DEF IndexInv
<1> QED BY <1>12, <1>14, <1>15, <1>16, <1>17, <1>18, IndexReplaced

LEMMA SeededStep == ASSUME IndexInv, NEW d \in Index!Docs, Index!Seeded(d) PROVE IndexInv'
<1>1. PICK text \in Exact \cup Near :
        indexed' = indexed \cup {[doc |-> d, ingest |-> ingests + 1, index |-> 1, text |-> text,
                                  embedding |-> Index!Stringified("older", text)]}
  BY DEF Index!Seeded
<1>2. /\ ingests < MaxIngests /\ ingests' = ingests + 1 /\ Index!OfDoc(d) = {} /\ ready' = <<d>> \o ready
      /\ UNCHANGED <<active, requests>>
  BY DEF Index!Seeded
<1> DEFINE row == [doc |-> d, ingest |-> ingests + 1, index |-> 1, text |-> text,
                   embedding |-> Index!Stringified("older", text)]
<1>3. ingests \in Nat /\ ingests + 1 \in 1..MaxIngests /\ 1 \in 1..MaxChunks
  BY <1>2, IndexNumbersAre DEF IndexInv, IndexNumbers
<1>4. /\ row \in Index!Chunk /\ row.doc = d /\ row.ingest = ingests + 1 /\ row.embedding.of = row.text
  <2>1. Index!Stringified("older", text) \in Index!Embedding /\ Index!Stringified("older", text).of = text
    BY DEF Index!Stringified, Index!Embedding
  <2> QED BY <1>3, <2>1 DEF Index!Chunk
<1> HIDE DEF row
<1>5. indexed' = indexed \cup {row}
  BY <1>1 DEF row
<1>6. IsFiniteSet(indexed') /\ indexed' \subseteq Index!Chunk
  BY <1>4, <1>5, FS_AddElement DEF IndexInv
<1>7. \A i \in DOMAIN ready : ready[i] # d /\ \E c \in indexed : c.doc = ready[i]
  BY <1>2 DEF IndexInv, ReadyHaveChunks, Index!OfDoc
<1>8. /\ ready' \in Seq(Index!Docs) /\ Unrepeated(ready')
      /\ \A k \in DOMAIN ready' : ready'[k] = d \/ \E j \in DOMAIN ready : ready'[k] = ready[j]
  BY <1>2, <1>7, PutFirst DEF IndexInv
<1>9. \A k \in DOMAIN ready' : \E c \in indexed' : c.doc = ready'[k]
  BY <1>4, <1>5, <1>7, <1>8
<1>10. \A c \in indexed' : c \in indexed \/ (c.ingest = ingests + 1 /\ ingests' = ingests + 1 /\ c.embedding.of = c.text)
  BY <1>2, <1>4, <1>5
<1>11. \A b, c \in indexed' \ indexed : Index!SameRow(b, c) => b.text = c.text
  BY <1>5
<1>12. ingests' \in {ingests, ingests + 1} /\ ingests' <= MaxIngests /\ active' \in BOOLEAN /\ requests' = requests
  BY <1>2, <1>3 DEF IndexInv
<1> QED BY <1>6, <1>8, <1>9, <1>10, <1>11, <1>12, IndexReplaced

\* A document is no longer ready, or is deleted; the base is archived.
LEMMA RemovalSteps ==
  ASSUME IndexInv, \/ \E d \in Index!Docs : Index!Unready(d) \/ Index!DeleteDocument(d)
                   \/ Index!ArchiveBase
  PROVE  IndexInv'
<1>1. /\ ingests \in Nat /\ ingests <= MaxIngests /\ IsFiniteSet(indexed) /\ indexed \subseteq Index!Chunk
      /\ active \in BOOLEAN /\ ready \in Seq(Index!Docs) /\ Unrepeated(ready)
      /\ \A i \in DOMAIN ready : \E c \in indexed : c.doc = ready[i]
  BY IndexNumbersAre DEF IndexInv, ReadyHaveChunks, IndexNumbers
<1>2. ASSUME NEW d \in Index!Docs, Index!Unready(d) PROVE IndexInv'
  <2>1. ready' = Index!Without(ready, d) /\ UNCHANGED <<active, indexed, ingests, requests>>
    BY <1>2 DEF Index!Unready
  <2> QED BY <1>1, <2>1, ReadyWithout, IndexReplaced
<1>3. ASSUME NEW d \in Index!Docs, Index!DeleteDocument(d) PROVE IndexInv'
  <2>1. /\ ready' = Index!Without(ready, d) /\ indexed' = indexed \ Index!OfDoc(d)
        /\ UNCHANGED <<active, ingests, requests>>
    BY <1>3 DEF Index!DeleteDocument
  <2>2. IsFiniteSet(indexed') /\ indexed' \subseteq indexed
    BY <1>1, <2>1, FS_Subset
  <2>3. \A k \in DOMAIN ready' : \E c \in indexed' : c.doc = ready'[k]
    BY <2>1, ReadyWithout DEF Index!OfDoc
  <2> QED BY <1>1, <2>1, <2>2, <2>3, ReadyWithout, IndexReplaced
<1>4. CASE Index!ArchiveBase
  <2>1. active' = FALSE /\ UNCHANGED <<ready, indexed, ingests, requests>>
    BY <1>4 DEF Index!ArchiveBase
  <2> QED BY <1>1, <2>1, IndexReplaced
<1> QED BY <1>2, <1>3, <1>4

LEMMA ArrivalSteps ==
  ASSUME IndexInv, \/ \E q \in Queries, limit, offset \in 0..MaxLimit : Index!SearchArrives(q, limit, offset)
                   \/ \E all \in BOOLEAN : Index!RefreshArrives(all)
  PROVE  IndexInv'
<1>1. ASSUME NEW op \in {"search", "refresh"}, NEW q \in Queries, NEW limit \in 1..MaxLimit, NEW offset \in 0..MaxOffset,
             NEW all \in BOOLEAN
      PROVE  RequestFits(Index!NewRequest(op, q, limit, offset, all)) /\ Index!NewRequest(op, q, limit, offset, all).step = "found"
  <2>1. <<>> \in Seq(Index!Chunk) /\ Len(<<>>) = 0
    OBVIOUS
  <2>2. limit \in Nat /\ offset \in Nat
    BY IndexNumbersAre DEF IndexNumbers
  <2> QED BY <2>1, <2>2 DEF Index!NewRequest, RequestFits, Index!Request
<1>2. ASSUME NEW q \in Queries, NEW limit \in 0..MaxLimit, NEW offset \in 0..MaxLimit, Index!SearchArrives(q, limit, offset)
      PROVE  IndexInv'
  <2>1. limit \in Nat /\ offset \in Nat
    BY IndexNumbersAre DEF IndexNumbers
  <2>2. Index!Clamp(limit, DefaultLimit, 1, MaxLimit) \in 1..MaxLimit /\ Index!Clamp(offset, 0, 0, MaxOffset) \in 0..MaxOffset
    BY <2>1, ClampIs
  <2> QED BY <1>1, <1>2, <2>2, RequestArrives DEF Index!SearchArrives
<1>3. ASSUME NEW all \in BOOLEAN, Index!RefreshArrives(all) PROVE IndexInv'
  <2>1. Index!Smaller(RefreshLimit, MaxLimit) \in 1..MaxLimit /\ 0 \in 0..MaxOffset
    BY ClampIs, IndexNumbersAre DEF IndexNumbers
  <2>2. PICK q \in Queries : Index!Arrive(Index!NewRequest("refresh", q, Index!Smaller(RefreshLimit, MaxLimit), 0, all))
    BY <1>3 DEF Index!RefreshArrives
  <2> QED BY <1>1, <2>1, <2>2, RequestArrives
<1> QED BY <1>2, <1>3

LEMMA NatProduct == \A a, b \in Nat : a * b \in Nat
OBVIOUS

\* Some of the chunks, in the order of a number of each.
LEMMA ChunksInOrder ==
  ASSUME IndexInv, NEW S \in SUBSET indexed, NEW key, \A c \in S : key[c] \in Nat
  PROVE  /\ InOrder(S, key) \in Seq(Index!Chunk) /\ Unrepeated(InOrder(S, key))
         /\ \A i \in DOMAIN InOrder(S, key) : InOrder(S, key)[i] \in S
<1> DEFINE s == InOrder(S, key)
<1>1. IsFiniteSet(S) /\ S \subseteq Index!Chunk /\ Cardinality(S) \in Nat
  BY FS_Subset, FS_CardinalityType DEF IndexInv
<1>2. s \in [1..Cardinality(S) -> S] /\ Unrepeated(s)
  BY <1>1, InOrderIs DEF Ordered
<1> HIDE DEF s
<1>3. s \in Seq(Index!Chunk)
  BY <1>1, <1>2
<1> QED BY <1>2, <1>3 DEF s

LEMMA CandidatesAre == IndexInv => Index!Candidates \in Seq(Index!Chunk) /\ Unrepeated(Index!Candidates)
<1> SUFFICES ASSUME IndexInv PROVE Index!Candidates \in Seq(Index!Chunk) /\ Unrepeated(Index!Candidates)
  OBVIOUS
<1> DEFINE found == {c \in indexed : c.doc \in Index!ToSet(ready)}
           key == [c \in found |-> Index!PlaceOf(c.doc) * MaxChunks + c.index]
<1>1. Index!Candidates = InOrder(found, key)
  BY OrderingNames DEF Index!Candidates
<1>2. ASSUME NEW c \in found PROVE key[c] \in Nat
  <2>1. \E i \in DOMAIN ready : ready[i] = c.doc
    BY IndexNames
  <2>2. Index!PlaceOf(c.doc) \in DOMAIN ready
    BY <2>1 DEF Index!PlaceOf
  <2>3. DOMAIN ready = 1..Len(ready) /\ Len(ready) \in Nat
    BY DEF IndexInv
  <2>4. c.index \in Nat /\ MaxChunks \in Nat /\ Index!PlaceOf(c.doc) \in Nat
    BY <2>2, <2>3, IndexNumbersAre DEF IndexNumbers, IndexInv, Index!Chunk
  <2>5. Index!PlaceOf(c.doc) * MaxChunks \in Nat
    BY <2>4, NatProduct
  <2>6. key[c] = Index!PlaceOf(c.doc) * MaxChunks + c.index
    OBVIOUS
  <2> QED BY <2>4, <2>5, <2>6
<1>3. found \in SUBSET indexed
  OBVIOUS
<1> HIDE DEF found, key
<1> QED BY <1>1, <1>2, <1>3, ChunksInOrder

Answered(r, list, cut, shown, total, more) ==
  [r EXCEPT !.step = "over", !.read = list, !.truncated = cut, !.results = shown, !.total = total, !.more = more]

IsAnswer(new, r, list, cut, shown, total, more) ==
  /\ new \in Index!Request
  /\ new.op = "search" /\ new.step = "over" /\ new.query = r.query /\ new.read = list /\ (new.truncated <=> cut)
  /\ new.results = shown /\ new.total = total /\ (new.more <=> more)
  /\ new.limit = r.limit /\ new.offset = r.offset
  /\ new.updated = r.updated /\ new.skipped = r.skipped /\ new.scanned = r.scanned

LEMMA AnsweredFits ==
  ASSUME NEW r \in Index!Request, r.op = "search", NEW list \in Seq(Index!Chunk), NEW cut \in BOOLEAN,
         NEW shown \in Seq(Index!Chunk), NEW total \in Nat, NEW more \in BOOLEAN
  PROVE  IsAnswer(Answered(r, list, cut, shown, total, more), r, list, cut, shown, total, more)
BY DEF Index!Request, IsAnswer, Answered

LEMMA SearchReadsStep == ASSUME IndexInv, NEW k \in DOMAIN requests, Index!SearchReads(k) PROVE IndexInv'
<1> DEFINE r == requests[k]
           list == Index!Candidates
           bound == Index!CandidateLimit(r.limit, r.offset)
           ranked == Index!Ranked(r.query, SubSeq(list, 1, Index!Smaller(bound, Len(list))))
           shown == Index!Page(ranked, r.offset, r.limit)
           new == [r EXCEPT !.step = "over", !.read = list, !.truncated = Len(list) > bound, !.results = shown,
                            !.total = Len(ranked), !.more = r.offset + r.limit < Len(ranked)]
<1>1. /\ r.op = "search" /\ r.step = "found" /\ UNCHANGED <<active, ready, indexed, ingests>>
      /\ requests' = [requests EXCEPT ![k].step = "over", ![k].read = list, ![k].truncated = Len(list) > bound,
                                      ![k].results = shown, ![k].total = Len(ranked),
                                      ![k].more = r.offset + r.limit < Len(ranked)]
  BY DEF Index!SearchReads
<1>2. requests' = [requests EXCEPT ![k] = new]
  BY <1>1
<1>3. RequestFits(r) /\ r \in Index!Request /\ r.limit \in 1..MaxLimit /\ r.offset \in 0..MaxOffset
  BY DEF IndexInv, RequestFits
<1>4. r.limit \in Nat \ {0} /\ r.offset \in Nat
  BY <1>3, IndexNumbersAre DEF IndexNumbers
<1>5. list \in Seq(Index!Chunk) /\ Unrepeated(list) /\ Len(list) \in Nat /\ bound = MaxCandidates /\ MaxCandidates \in Nat
  <2>1. bound = MaxCandidates
    BY <1>4, ClampIs
  <2>2. list \in Seq(Index!Chunk) /\ Unrepeated(list)
    BY CandidatesAre
  <2> HIDE DEF list, bound
  <2> QED BY <2>1, <2>2, IndexNumbersAre DEF IndexNumbers
<1> HIDE DEF list, bound
<1>6. ranked \in Seq(Index!Chunk)
  <2> DEFINE last == Index!Smaller(bound, Len(list))
             cut == SubSeq(list, 1, last)
  <2>1. last \in Nat /\ last <= Len(list)
    BY <1>5 DEF Index!Smaller
  <2> HIDE DEF last
  <2>2. \A i \in 1..last : list[i] \in Index!Chunk
    BY <1>5, <2>1, ElementOfSeq
  <2>3. cut \in Seq(Index!Chunk)
    BY <2>1, <2>2, SubSeqProperties
  <2>4. Unrepeated(cut)
    <3>1. /\ Len(cut) = IF 1 <= last THEN last - 1 + 1 ELSE 0
          /\ \A i \in 1..(last - 1 + 1) : cut[i] = list[1 + i - 1]
      BY <2>1, <2>2, SubSeqProperties
    <3>2. last - 1 + 1 = last /\ \A i \in 1..last : 1 + i - 1 = i /\ i \in 1..Len(list)
      BY <1>5, <2>1
    <3>3. DOMAIN cut = 1..last /\ DOMAIN list = 1..Len(list)
      BY <1>5, <2>1, <2>3, <3>1
    <3>4. \A i \in 1..last : cut[i] = list[i] /\ i \in DOMAIN list
      BY <3>1, <3>2, <3>3
    <3> HIDE DEF cut
    <3> QED BY <1>5, <3>3, <3>4 DEF Unrepeated
  <2> HIDE DEF cut
  <2>5. Index!Ranked(r.query, cut) \in Seq(Index!Chunk)
    BY <2>3, <2>4, RankedIs
  <2> QED BY <2>5 DEF cut, last
<1> HIDE DEF ranked
<1>7. shown \in Seq(Index!Chunk) /\ Len(ranked) \in Nat
  <2>1. IsPage(shown, Index!Chunk, ranked, r.offset, r.limit)
    BY <1>4, <1>6, PageIs
  <2> HIDE DEF shown
  <2> QED BY <1>6, <2>1 DEF IsPage
<1> HIDE DEF shown
<1>8. /\ new \in Index!Request
      /\ new.op = "search" /\ new.step = "over" /\ new.query = r.query /\ new.read = list /\ (new.truncated <=> Len(list) > bound)
      /\ new.results = shown /\ new.total = Len(ranked) /\ (new.more <=> r.offset + r.limit < Len(ranked))
      /\ new.limit = r.limit /\ new.offset = r.offset
      /\ new.updated = r.updated /\ new.skipped = r.skipped /\ new.scanned = r.scanned
  <2> DEFINE cut == Len(list) > bound
             more == r.offset + r.limit < Len(ranked)
  <2>1. cut \in BOOLEAN /\ more \in BOOLEAN
    OBVIOUS
  <2>2. new = Answered(r, list, cut, shown, Len(ranked), more)
    BY DEF Answered
  <2>3. r \in Index!Request /\ r.op = "search"
    BY <1>1, <1>3
  <2> HIDE DEF cut, more, new, r
  <2>4. IsAnswer(new, r, list, cut, shown, Len(ranked), more)
    BY <1>5, <1>7, <2>1, <2>2, <2>3, AnsweredFits
  <2> QED BY <2>4 DEF cut, more, IsAnswer
<1> HIDE DEF new
<1>9. RequestFits(new) /\ ScanHolds(new)
  BY <1>3, <1>8 DEF RequestFits, ScanHolds
<1>10. PageIsCut(new)
  BY <1>5, <1>8 DEF PageIsCut, ranked, shown
<1> QED BY <1>1, <1>2, <1>9, <1>10, RequestMoves

LEMMA ReadIndexStep == ASSUME IndexInv, NEW k \in DOMAIN requests, Index!ReadIndex(k) PROVE IndexInv'
<1> DEFINE r == requests[k]
           need == {c \in indexed : c.doc \in Index!ToSet(ready) /\ (r.all \/ Index!NeedsRefresh(c.embedding))}
           key == [c \in need |-> c.doc * MaxChunks + c.index]
           list == InOrder(need, key)
           last == Index!Smaller(r.limit, Len(list))
           scanned == SubSeq(list, 1, last)
           more == Len(list) > r.limit
           new == [r EXCEPT !.step = "read", !.more = more, !.scanned = scanned]
<1>1. /\ r.op = "refresh" /\ r.step = "found" /\ UNCHANGED <<active, ready, indexed, ingests>>
      /\ requests' = [requests EXCEPT ![k].step = "read", ![k].more = more, ![k].scanned = scanned]
  BY OrderingNames DEF Index!ReadIndex
<1>2. requests' = [requests EXCEPT ![k] = new]
  BY <1>1
<1>3. RequestFits(r) /\ r \in Index!Request /\ r.limit \in Nat /\ r.updated = 0 /\ r.skipped = 0
  <2>1. RequestFits(r)
    BY DEF IndexInv
  <2> HIDE DEF r
  <2> QED BY <1>1, <2>1 DEF RequestFits, Index!Request
<1>4. need \in SUBSET indexed /\ indexed \subseteq Index!Chunk
  BY DEF IndexInv
<1>5. ASSUME NEW c \in need PROVE key[c] \in Nat
  <2>1. c.doc \in Nat /\ c.index \in Nat /\ MaxChunks \in Nat
    BY <1>4, IndexNumbersAre DEF IndexNumbers, Index!Chunk, Index!Docs
  <2>2. c.doc * MaxChunks \in Nat
    BY <2>1, NatProduct
  <2>3. key[c] = c.doc * MaxChunks + c.index
    OBVIOUS
  <2> QED BY <2>1, <2>2, <2>3
<1> HIDE DEF need, key
<1>6. list \in Seq(Index!Chunk) /\ \A i \in DOMAIN list : list[i] \in indexed
  BY <1>4, <1>5, ChunksInOrder
<1> HIDE DEF list
<1>7. last \in Nat /\ last <= Len(list) /\ Len(list) \in Nat /\ DOMAIN list = 1..Len(list)
  BY <1>3, <1>6 DEF Index!Smaller
<1> HIDE DEF last
<1>8. scanned \in Seq(Index!Chunk) /\ Len(scanned) \in Nat /\ \A i \in DOMAIN scanned : scanned[i] \in indexed
  <2>1. \A i \in 1..last : list[i] \in indexed /\ list[i] \in Index!Chunk
    BY <1>4, <1>6, <1>7
  <2>2. /\ scanned \in Seq(indexed)
        /\ scanned \in Seq(Index!Chunk)
    BY <1>7, <2>1, SubSeqProperties
  <2> HIDE DEF scanned
  <2> QED BY <2>2
<1> HIDE DEF scanned
<1>9. /\ new \in Index!Request /\ new.op = "refresh" /\ new.step = "read" /\ new.scanned = scanned
      /\ new.limit = r.limit /\ new.offset = r.offset /\ new.updated = r.updated /\ new.skipped = r.skipped
  <2>1. more \in BOOLEAN
    OBVIOUS
  <2> HIDE DEF more
  <2> HIDE DEF r
  <2> QED BY <1>1, <1>3, <1>8, <2>1 DEF Index!Request
<1> HIDE DEF new
<1>10. RequestFits(new) /\ PageIsCut(new)
  BY <1>3, <1>8, <1>9 DEF RequestFits, PageIsCut
<1>11. ScanHolds(new)
  <2>1. \A u \in Index!ToSet(scanned) : u \in indexed
    BY <1>8, IndexNames
  <2> QED BY <1>9, <2>1 DEF ScanHolds, IndexInv, RowsHaveTexts
<1> QED BY <1>1, <1>2, <1>10, <1>11, RequestMoves

\* What a refresh writes into a row has the text of the row.
LEMMA RewrittenIs ==
  ASSUME IndexInv, NEW k \in DOMAIN requests, requests[k].step = "read", NEW c \in indexed, NEW new,
         new = Index!Rewritten(c, requests[k])
  PROVE  /\ new \in Index!Chunk /\ new.doc = c.doc /\ new.ingest = c.ingest /\ new.index = c.index
         /\ new.text = c.text /\ new.embedding.of = c.text
<1> DEFINE r == requests[k]
           u == CHOOSE x \in Index!ToUpdate(r) : Index!SameRow(x, c)
           e == Index!Stringified("current", u.text)
<1>1. c \in Index!Chunk /\ c.embedding.of = c.text /\ ScanHolds(r)
  BY DEF IndexInv, RowsHaveTexts
<1>2. CASE \E x \in Index!ToUpdate(r) : Index!SameRow(x, c)
  <2>1. u \in Index!ToUpdate(r) /\ Index!SameRow(u, c)
    BY <1>2
  <2>2. u \in Index!ToSet(r.scanned)
    BY <2>1 DEF Index!ToUpdate
  <2>3. u.text = c.text
    BY <1>1, <2>1, <2>2 DEF ScanHolds
  <2>4. new = [c EXCEPT !.embedding = e]
    BY <1>2 DEF Index!Rewritten
  <2>5. e \in Index!Embedding /\ e.of = c.text
    BY <1>1, <2>3 DEF Index!Stringified, Index!Embedding, Index!Chunk
  <2> HIDE DEF e
  <2> QED BY <1>1, <2>4, <2>5 DEF Index!Chunk
<1>3. CASE ~\E x \in Index!ToUpdate(r) : Index!SameRow(x, c)
  <2>1. new = c
    BY <1>3 DEF Index!Rewritten
  <2> QED BY <1>1, <2>1
<1> QED BY <1>2, <1>3

LEMMA WriteIndexStep == ASSUME IndexInv, NEW k \in DOMAIN requests, Index!WriteIndex(k) PROVE IndexInv'
<1> DEFINE r == requests[k]
           n == Cardinality(Index!ToUpdate(r))
           new == [r EXCEPT !.step = "over", !.updated = n, !.skipped = Len(r.scanned) - n]
<1>1. /\ r.op = "refresh" /\ r.step = "read" /\ UNCHANGED <<active, ingests>>
      /\ indexed' = {Index!Rewritten(c, r) : c \in indexed}
      /\ requests' = [requests EXCEPT ![k].step = "over", ![k].updated = n, ![k].skipped = Len(r.scanned) - n]
  BY IndexNames DEF Index!WriteIndex
<1>2. PICK touched :
        ready' = Picked(ready, {i \in DOMAIN ready : ready[i] \in touched})
                   \o Picked(ready, {i \in DOMAIN ready : ready[i] \notin touched})
  BY OrderingNames DEF Index!WriteIndex
<1>3. requests' = [requests EXCEPT ![k] = new]
  BY <1>1
<1>4. RequestFits(r) /\ r \in Index!Request /\ r.scanned \in Seq(Index!Chunk) /\ Len(r.scanned) \in Nat
  BY DEF IndexInv, RequestFits, Index!Request
<1>5. n \in Nat /\ n <= Len(r.scanned)
  <2>1. Index!ToUpdate(r) \in SUBSET {r.scanned[i] : i \in DOMAIN r.scanned}
    BY IndexNames DEF Index!ToUpdate
  <2> HIDE DEF r
  <2> QED BY <1>4, <2>1, SizeOfSome
<1> HIDE DEF n
<1>6. /\ new \in Index!Request /\ new.op = "refresh" /\ new.step = "over" /\ new.scanned = r.scanned
      /\ new.limit = r.limit /\ new.offset = r.offset /\ new.updated = n /\ new.skipped = Len(r.scanned) - n
  <2> DEFINE rest == Len(r.scanned) - n
  <2>1. rest \in Nat
    BY <1>4, <1>5
  <2> HIDE DEF rest
  <2>2. new = [r EXCEPT !.step = "over", !.updated = n, !.skipped = rest]
    BY DEF rest
  <2> HIDE DEF new, r
  <2>3. /\ new \in Index!Request /\ new.op = "refresh" /\ new.step = "over" /\ new.scanned = r.scanned
        /\ new.limit = r.limit /\ new.offset = r.offset /\ new.updated = n /\ new.skipped = rest
    BY <1>1, <1>4, <1>5, <2>1, <2>2 DEF Index!Request
  <2> QED BY <2>3 DEF rest
<1> HIDE DEF new
<1>7. RequestFits(new) /\ PageIsCut(new)
  <2>1. new.updated + new.skipped <= Len(new.scanned)
    BY <1>4, <1>5, <1>6
  <2> QED BY <1>4, <1>6, <2>1 DEF RequestFits, PageIsCut
<1>8. /\ requests \in Seq(Index!Request) /\ requests' \in Seq(Index!Request) /\ Len(requests') = Len(requests)
      /\ DOMAIN requests' = DOMAIN requests
      /\ \A j \in DOMAIN requests : requests'[j] = IF j = k THEN new ELSE requests[j]
  BY <1>3, <1>6 DEF IndexInv
<1>9. ASSUME NEW c \in indexed'
      PROVE  /\ c \in Index!Chunk /\ c.embedding.of = c.text
             /\ \E b \in indexed : c.doc = b.doc /\ c.ingest = b.ingest /\ c.index = b.index /\ c.text = b.text
  BY <1>1, <1>9, RewrittenIs
<1>10. ASSUME NEW b \in indexed PROVE \E c \in indexed' : c.doc = b.doc
  BY <1>1, RewrittenIs
<1>11. IsFiniteSet(indexed')
  <2> DEFINE f == [c \in indexed |-> Index!Rewritten(c, r)]
  <2>1. {f[c] : c \in indexed} = indexed'
    BY <1>1
  <2> HIDE DEF f
  <2> QED BY <2>1, ImageIsFinite DEF IndexInv
<1>12. RowsHaveTexts'
  <2>1. \A c \in indexed' : c.ingest <= ingests' /\ c.embedding.of = c.text
    BY <1>1, <1>9 DEF IndexInv, RowsHaveTexts
  <2>2. \A c, d \in indexed' : Index!SameRow(c, d) => c.text = d.text
    BY <1>9 DEF IndexInv, RowsHaveTexts, Index!SameRow
  <2> QED BY <2>1, <2>2 DEF RowsHaveTexts, Index!SameRow
<1>13. ASSUME NEW q, ScanHolds(q) PROVE ScanHolds(q)'
  <2>1. SUFFICES ASSUME q.step = "read", NEW u \in Index!ToSet(q.scanned)
                 PROVE  u.ingest <= ingests' /\ \A c \in indexed' : Index!SameRow(u, c) => c.text = u.text
    BY IndexNames DEF ScanHolds, Index!SameRow
  <2>2. u.ingest <= ingests /\ \A c \in indexed : Index!SameRow(u, c) => c.text = u.text
    BY <1>13, <2>1 DEF ScanHolds
  <2> QED BY <1>1, <1>9, <2>2 DEF Index!SameRow
<1>14. \A j \in DOMAIN requests' : RequestFits(requests'[j]) /\ ScanHolds(requests[j])' /\ PageIsCut(requests'[j])
  <2>1. ScanHolds(new)
    BY <1>6 DEF ScanHolds
  <2>2. \A q : q = new => ScanHolds(q)'
    BY <1>13, <2>1
  <2>3. \A j \in DOMAIN requests' : RequestFits(requests'[j]) /\ PageIsCut(requests'[j])
    BY <1>7, <1>8 DEF IndexInv
  <2>4. ASSUME NEW j \in DOMAIN requests' PROVE ScanHolds(requests[j])'
    <3>1. ASSUME NEW q, q = requests'[j] PROVE ScanHolds(q)'
      BY <1>8, <1>13, <2>2, <3>1 DEF IndexInv
    <3> QED BY <3>1 DEF ScanHolds
  <2> QED BY <2>3, <2>4
<1>15. ready' \in Seq(Index!Docs) /\ Unrepeated(ready') /\ \A i \in DOMAIN ready' : \E j \in DOMAIN ready : ready'[i] = ready[j]
  <2> DEFINE A == {i \in DOMAIN ready : ready[i] \in touched}
             B == {i \in DOMAIN ready : ready[i] \notin touched}
             s == Picked(ready, A)
             t == Picked(ready, B)
  <2>1. /\ A \in SUBSET (DOMAIN ready) /\ \A i \in A : i \in DOMAIN ready /\ ready[i] \in touched
        /\ B \in SUBSET (DOMAIN ready) /\ \A i \in B : i \in DOMAIN ready /\ ready[i] \notin touched
        /\ ready \in Seq(Index!Docs) /\ Unrepeated(ready)
    BY DEF IndexInv
  <2> HIDE DEF A, B
  <2>2. s \in Seq(Index!Docs) /\ Unrepeated(s) /\ \A i \in DOMAIN s : \E j \in A : s[i] = ready[j]
    BY <2>1, PickedIs
  <2>3. t \in Seq(Index!Docs) /\ Unrepeated(t) /\ \A i \in DOMAIN t : \E j \in B : t[i] = ready[j]
    BY <2>1, PickedIs
  <2>4. ready' = s \o t
    BY <1>2 DEF A, B
  <2> HIDE DEF s, t
  <2>5. \A i \in DOMAIN s, j \in DOMAIN t : s[i] # t[j]
    BY <2>1, <2>2, <2>3
  <2> DEFINE joined == s \o t
  <2>6. /\ joined \in Seq(Index!Docs) /\ Unrepeated(joined)
        /\ \A i \in DOMAIN joined : (\E j \in DOMAIN s : joined[i] = s[j]) \/ (\E j \in DOMAIN t : joined[i] = t[j])
    BY <2>2, <2>3, <2>5, Joined
  <2>7. ready' = joined
    BY <2>4
  <2> HIDE DEF joined
  <2>8. \A i \in DOMAIN joined : \E j \in DOMAIN ready : joined[i] = ready[j]
    BY <2>1, <2>2, <2>3, <2>6
  <2> QED BY <2>6, <2>7, <2>8
<1>16. ReadyHaveChunks'
  <2>1. \A i \in DOMAIN ready' : \E c \in indexed' : c.doc = ready'[i]
    BY <1>10, <1>15 DEF IndexInv, ReadyHaveChunks
  <2> QED BY <2>1 DEF ReadyHaveChunks
<1>17. active' \in BOOLEAN /\ ingests' \in 0..MaxIngests /\ Len(requests') <= MaxRequests /\ indexed' \subseteq Index!Chunk
  BY <1>1, <1>8, <1>9 DEF IndexInv
<1>18. \A j \in DOMAIN requests' : RequestFits(requests[j])' /\ ScanHolds(requests[j])' /\ PageIsCut(requests[j])'
  BY <1>14 DEF RequestFits, PageIsCut
<1> QED BY <1>8, <1>11, <1>12, <1>15, <1>16, <1>17, <1>18 DEF IndexInv

LEMMA IndexSteps == IndexInv /\ [Index!RetrievalNext]_retrievalVars => IndexInv'
<1> SUFFICES ASSUME IndexInv, [Index!RetrievalNext]_retrievalVars PROVE IndexInv'
  OBVIOUS
<1>1. CASE UNCHANGED retrievalVars
  BY <1>1, SearchesKeep DEF retrievalVars, IndexInv, ReadyHaveChunks, RowsHaveTexts, ScanHolds, Index!SameRow, Index!ToSet
<1>2. CASE Index!RetrievalNext
  BY <1>2, IngestedStep, SeededStep, RemovalSteps, ArrivalSteps, SearchReadsStep, ReadIndexStep, WriteIndexStep
     DEF Index!RetrievalNext
<1> QED BY <1>1, <1>2

\* A sequence and one more.
LEMMA Appended ==
  ASSUME NEW S, NEW s \in Seq(S), NEW n \in Nat, Len(s) = n, NEW m \in Nat, m = n + 1, NEW x \in S
  PROVE  /\ Append(s, x) \in Seq(S) /\ Len(Append(s, x)) = m /\ DOMAIN Append(s, x) = 1..m
         /\ (\A i \in 1..n : Append(s, x)[i] = s[i]) /\ Append(s, x)[m] = x
BY AppendProperties

-----------------------------------------------------------------------------
(* A streamed answer.                                                      *)

YieldedBy(r, type) == {i \in DOMAIN r.events : r.events[i].type = type}

\* What a reader has taken came in full, and none but its last frame may end the stream; the
\* texts among them are those it passed on.
ReaderFits(r) ==
  /\ r \in Streams!Reader
  /\ r.taken <= Len(wire) /\ Streams!FrameBytes * r.taken <= received + 2
  /\ \A i \in 1..(r.taken - 1) : wire[i] \notin Streams!Ending(Streams!Format)
  /\ \A i, j \in YieldedBy(r, "text_delta") : i < j => r.events[i].at < r.events[j].at
  /\ \A i \in YieldedBy(r, "text_delta") : r.events[i].at \in 1..r.taken /\ wire[r.events[i].at] = "text"
  /\ \A i \in 1..r.taken : wire[i] = "text" => \E j \in YieldedBy(r, "text_delta") : r.events[j].at = i

\* One under way has not ended, but an Anthropic one may have had its reason to stop.
UnderWay(r) ==
  /\ ReaderFits(r)
  /\ ~r.returned
  /\ r.taken > 0 => wire[r.taken] \notin Streams!Ending(Streams!Format)
  /\ YieldedBy(r, "error") = {}
  /\ YieldedBy(r, "message_end") # {} <=> r.ended
  /\ Streams!OneAtMost(YieldedBy(r, "message_end"))
  /\ r.ended => Streams!Format = "anthropic" /\ \E i \in 1..r.taken : wire[i] = "finish"

\* The frames by which a provider says that an answer is complete.
Completing ==
  CASE Streams!Format = "anthropic" -> {"finish", "stop"}
    [] Streams!Format \in {"compatible", "chat"} -> {"done"}
    [] OTHER -> {"stop"}

\* One that is over has ended as it should.
IsOver(r) ==
  /\ ReaderFits(r)
  /\ YieldedBy(r, "message_end") \cup YieldedBy(r, "error") # {}
  /\ \A i \in YieldedBy(r, "message_end") \cup YieldedBy(r, "error") :
       i < Len(r.events) => Streams!Format = "anthropic" /\ i \in YieldedBy(r, "message_end")
  /\ Streams!OneAtMost(YieldedBy(r, "message_end")) /\ Streams!OneAtMost(YieldedBy(r, "error"))
  /\ YieldedBy(r, "message_end") # {} =>
       \/ Streams!Format = "google" /\ r.sawText
       \/ \E i \in 1..r.taken : wire[i] \in Completing

\* Nothing that came in full is left, but the last line without its newline.
NothingIsLeft ==
  \A i \in Streams!Heard : \/ i <= reader.taken
                           \/ Streams!Lines(Streams!Format) /\ received < Streams!FrameBytes * (i - 1) + 3

StreamsInv ==
  /\ Streams!TypeOK
  /\ UnderWay(reader) \/ IsOver(reader)
  /\ stream.pc = "connecting" => wire = <<>> /\ received = 0 /\ reader.taken = 0 /\ ~reader.ended
                                 /\ YieldedBy(reader, "message_end") = {}
  /\ stream.pc # "over" => UnderWay(reader)
  /\ stream.pc = "reading" => reader.taken <= Streams!Complete(received, Streams!Format)
  /\ stream.pc = "over" => IsOver(reader) /\ (NothingIsLeft \/ stream.broken)

-----------------------------------------------------------------------------
LEMMA EventAdded ==
  ASSUME NEW r, r.events \in Seq(Streams!Events), NEW e \in Streams!Events, NEW q, q.events = Append(r.events, e)
  PROVE  LET n == Len(r.events) IN
         /\ n \in Nat /\ q.events \in Seq(Streams!Events) /\ Len(q.events) = n + 1
         /\ \A t : YieldedBy(r, t) \subseteq 1..n /\ n + 1 \notin YieldedBy(r, t)
                   /\ YieldedBy(q, t) = YieldedBy(r, t) \cup (IF e.type = t THEN {n + 1} ELSE {})
         /\ \A k \in 1..n : q.events[k] = r.events[k]
         /\ q.events[n + 1] = e
<1> DEFINE n == Len(r.events)  m == n + 1
<1>1. n \in Nat /\ m \in Nat /\ DOMAIN r.events = 1..n
  OBVIOUS
<1>2. /\ q.events \in Seq(Streams!Events) /\ Len(q.events) = m /\ DOMAIN q.events = 1..m
      /\ (\A i \in 1..n : q.events[i] = r.events[i]) /\ q.events[m] = e
  BY <1>1, Appended
<1>3. 1..m = (1..n) \cup {m} /\ m \notin 1..n
  BY <1>1
<1> HIDE DEF n, m
<1>4. ASSUME NEW t
      PROVE YieldedBy(r, t) \subseteq 1..n /\ m \notin YieldedBy(r, t)
            /\ YieldedBy(q, t) = YieldedBy(r, t) \cup (IF e.type = t THEN {m} ELSE {})
  BY <1>1, <1>2, <1>3 DEF YieldedBy
<1> QED BY <1>1, <1>2, <1>4 DEF n, m

LEMMA FormatIs == Streams!TypeOK => Streams!Format \in Streams!Formats
BY DEF Streams!TypeOK, Streams!Format, Streams!Formats, Streams!Attempts, Streams!Providers

LEMMA EventTyped ==
  ASSUME NEW type \in {"message_start", "text_delta", "message_end", "error"}, NEW at \in 0..MaxFrames, NEW u \in 0..MaxFrames
  PROVE  Streams!Event(type, at, u) \in Streams!Events /\ Streams!Event(type, at, u).type = type
         /\ Streams!Event(type, at, u).at = at
BY DEF Streams!Event, Streams!Events

\* What handling a frame comes to.
Quiet(r, q, i) == q.events = r.events /\ wire[i] # "text" /\ ~q.returned /\ q.ended = r.ended

Told(r, q, i) ==
  /\ \E u \in 0..MaxFrames : q.events = Append(r.events, Streams!Event("text_delta", i, u))
  /\ wire[i] = "text" /\ ~q.returned /\ q.ended = r.ended

Stopping(r, q, i) ==
  /\ \E u \in 0..MaxFrames : q.events = Append(r.events, Streams!Event("message_end", 0, u))
  /\ wire[i] = "finish" /\ Streams!Format = "anthropic" /\ ~r.ended /\ q.ended /\ ~q.returned

Stopped(r, q, i) == q.events = r.events /\ wire[i] = "stop" /\ r.ended /\ q.ended /\ q.returned

Completed(r, q, i) ==
  /\ \E u \in 0..MaxFrames : q.events = Append(r.events, Streams!Event("message_end", 0, u))
  /\ wire[i] # "text" /\ ~r.ended /\ q.returned
  /\ (Streams!Format = "google" /\ q.sawText) \/ wire[i] \in Completing

Broken(r, q, i) ==
  /\ \E u \in 0..MaxFrames : q.events = Append(r.events, Streams!Event("error", 0, u))
  /\ wire[i] # "text" /\ q.returned /\ q.ended = r.ended

LEMMA YieldIs ==
  ASSUME MaxFrames \in Nat, NEW r \in Streams!Reader, NEW type \in {"text_delta", "message_end", "error"}, NEW at \in 0..MaxFrames
  PROVE  LET q == Streams!Yield(r, type, at) IN
         /\ q \in Streams!Reader
         /\ \E u \in 0..MaxFrames : q.events = Append(r.events, Streams!Event(type, at, u))
         /\ q.taken = r.taken /\ q.usage = r.usage /\ q.ended = r.ended /\ q.sawText = r.sawText /\ q.returned = r.returned
<1> DEFINE u == IF type = "message_end" THEN r.usage ELSE 0
           e == Streams!Event(type, at, u)
           s == Append(r.events, e)
<1>1. u \in 0..MaxFrames
  BY DEF Streams!Reader
<1>2. e \in Streams!Events
  BY <1>1, EventTyped
<1>3. s \in Seq(Streams!Events)
  BY <1>2 DEF Streams!Reader
<1>4. Streams!Yield(r, type, at) = [r EXCEPT !.events = s]
  BY DEF Streams!Yield
<1> HIDE DEF s, e, u
<1>5. LET q == Streams!Yield(r, type, at) IN
      /\ q \in Streams!Reader /\ q.events = s
      /\ q.taken = r.taken /\ q.usage = r.usage /\ q.ended = r.ended /\ q.sawText = r.sawText /\ q.returned = r.returned
  BY <1>3, <1>4 DEF Streams!Reader
<1> QED BY <1>1, <1>5 DEF s, e

LEMMA FinalIs ==
  ASSUME MaxFrames \in Nat, NEW r \in Streams!Reader, NEW type \in {"message_end", "error"}
  PROVE  LET q == Streams!Final(r, type) IN
         /\ q \in Streams!Reader /\ q.returned
         /\ \E u \in 0..MaxFrames : q.events = Append(r.events, Streams!Event(type, 0, u))
         /\ q.taken = r.taken /\ q.ended = r.ended /\ q.sawText = r.sawText
<1> DEFINE y == Streams!Yield(r, type, 0)
<1>1. /\ y \in Streams!Reader /\ y.taken = r.taken /\ y.ended = r.ended /\ y.sawText = r.sawText
      /\ \E u \in 0..MaxFrames : y.events = Append(r.events, Streams!Event(type, 0, u))
  <2>1. 0 \in 0..MaxFrames /\ type \in {"text_delta", "message_end", "error"}
    OBVIOUS
  <2> HIDE DEF y
  <2>2. /\ Streams!Yield(r, type, 0) \in Streams!Reader
        /\ \E u \in 0..MaxFrames : Streams!Yield(r, type, 0).events = Append(r.events, Streams!Event(type, 0, u))
        /\ Streams!Yield(r, type, 0).taken = r.taken /\ Streams!Yield(r, type, 0).ended = r.ended
        /\ Streams!Yield(r, type, 0).sawText = r.sawText
    BY <2>1, YieldIs, Zenon
  <2> QED BY <2>2 DEF y
<1>2. Streams!Final(r, type) = [y EXCEPT !.returned = TRUE]
  BY DEF Streams!Final
<1> HIDE DEF y
<1>3. LET q == Streams!Final(r, type) IN
      q \in Streams!Reader /\ q.returned /\ q.events = y.events /\ q.taken = y.taken /\ q.ended = y.ended /\ q.sawText = y.sawText
  BY <1>1, <1>2 DEF Streams!Reader
<1> QED BY <1>1, <1>3

LEMMA TextIs ==
  ASSUME MaxFrames \in Nat, NEW r \in Streams!Reader, NEW i \in 0..MaxFrames
  PROVE  LET q == Streams!Text(r, i) IN
         /\ q \in Streams!Reader
         /\ \E u \in 0..MaxFrames : q.events = Append(r.events, Streams!Event("text_delta", i, u))
         /\ q.ended = r.ended /\ q.returned = r.returned
<1> DEFINE y == Streams!Yield(r, "text_delta", i)
<1>1. /\ y \in Streams!Reader /\ y.ended = r.ended /\ y.returned = r.returned
      /\ \E u \in 0..MaxFrames : y.events = Append(r.events, Streams!Event("text_delta", i, u))
  BY YieldIs
<1>2. Streams!Text(r, i) = [y EXCEPT !.sawText = TRUE]
  BY DEF Streams!Text
<1> HIDE DEF y
<1>3. LET q == Streams!Text(r, i) IN
      q \in Streams!Reader /\ q.events = y.events /\ q.ended = y.ended /\ q.returned = y.returned
  BY <1>1, <1>2 DEF Streams!Reader
<1> QED BY <1>1, <1>3

LEMMA UsedIs ==
  ASSUME MaxFrames \in Nat, NEW r \in Streams!Reader, NEW i \in 0..MaxFrames
  PROVE  LET q == Streams!Used(r, i) IN
         q \in Streams!Reader /\ q.events = r.events /\ q.ended = r.ended /\ q.returned = r.returned /\ q.sawText = r.sawText
BY DEF Streams!Used, Streams!Reader

\* Before the frame is noted as taken.
Outcome(r, q, i) ==
  /\ q \in Streams!Reader
  /\ \/ wire[i] \notin Streams!Ending(Streams!Format) /\ (Quiet(r, q, i) \/ Told(r, q, i) \/ Stopping(r, q, i))
     \/ wire[i] \in Streams!Ending(Streams!Format) /\ (Stopped(r, q, i) \/ Completed(r, q, i) \/ Broken(r, q, i))

LEMMA CompatibleIs ==
  ASSUME MaxFrames \in Nat, NEW r \in Streams!Reader, ~r.returned, ~r.ended, NEW i \in 0..MaxFrames, Streams!Format = "compatible"
  PROVE  Outcome(r, Streams!Compatible(r, i), i)
<1> DEFINE q == Streams!Compatible(r, i)
<1>1. CASE wire[i] = "done"
  <2>1. q = Streams!Final(r, "message_end")
    BY <1>1 DEF Streams!Compatible
  <2> HIDE DEF q
  <2>2. q \in Streams!Reader /\ Completed(r, q, i)
    BY <1>1, <2>1, FinalIs DEF Completed, Completing
  <2> QED BY <1>1, <2>2 DEF Outcome, Streams!Ending, q
<1>2. CASE wire[i] = "error"
  <2>1. q = Streams!Final(r, "error")
    BY <1>2 DEF Streams!Compatible
  <2> HIDE DEF q
  <2>2. q \in Streams!Reader /\ Broken(r, q, i)
    BY <1>2, <2>1, FinalIs DEF Broken
  <2> QED BY <1>2, <2>2 DEF Outcome, Streams!Ending, q
<1>3. CASE wire[i] = "text"
  <2>1. q = Streams!Text(r, i)
    BY <1>3 DEF Streams!Compatible
  <2> HIDE DEF q
  <2>2. q \in Streams!Reader /\ Told(r, q, i)
    <3>1. /\ q \in Streams!Reader /\ q.ended = r.ended /\ q.returned = r.returned
          /\ \E u \in 0..MaxFrames : q.events = Append(r.events, Streams!Event("text_delta", i, u))
      BY <2>1, TextIs
    <3> QED BY <1>3, <3>1 DEF Told
  <2> QED BY <1>3, <2>2 DEF Outcome, Streams!Ending, q
<1>4. CASE wire[i] \notin {"done", "error", "text"}
  <2>1. q = r \/ q = Streams!Used(r, i)
    BY <1>4 DEF Streams!Compatible
  <2> HIDE DEF q
  <2>2. q \in Streams!Reader /\ Quiet(r, q, i)
    BY <1>4, <2>1, UsedIs DEF Quiet
  <2> QED BY <1>4, <2>2 DEF Outcome, Streams!Ending, q
<1> QED BY <1>1, <1>2, <1>3, <1>4

LEMMA AnthropicIs ==
  ASSUME MaxFrames \in Nat, NEW r \in Streams!Reader, ~r.returned, NEW i \in 0..MaxFrames, Streams!Format = "anthropic"
  PROVE  Outcome(r, Streams!Anthropic(r, i), i)
<1> DEFINE q == Streams!Anthropic(r, i)
<1>1. CASE wire[i] = "finish"
  <2>1. q = IF r.ended THEN Streams!Used(r, i)
            ELSE [Streams!Yield(Streams!Used(r, i), "message_end", 0) EXCEPT !.ended = TRUE]
    BY <1>1 DEF Streams!Anthropic
  <2> HIDE DEF q
  <2> DEFINE v == Streams!Used(r, i)  y == Streams!Yield(v, "message_end", 0)
  <2>2. v \in Streams!Reader /\ v.events = r.events /\ v.ended = r.ended /\ v.returned = r.returned
    BY UsedIs
  <2> HIDE DEF v
  <2>3. /\ y \in Streams!Reader /\ y.returned = v.returned
        /\ \E u \in 0..MaxFrames : y.events = Append(v.events, Streams!Event("message_end", 0, u))
    <3>1. 0 \in 0..MaxFrames
      OBVIOUS
    <3> QED BY <2>2, <3>1, YieldIs
  <2> HIDE DEF y
  <2>4. ASSUME r.ended PROVE q \in Streams!Reader /\ Quiet(r, q, i)
    BY <1>1, <2>1, <2>2, <2>4 DEF Quiet, v
  <2>5. ASSUME ~r.ended PROVE q \in Streams!Reader /\ Stopping(r, q, i)
    <3>1. q = [y EXCEPT !.ended = TRUE]
      BY <2>1, <2>5 DEF v, y
    <3>2. q \in Streams!Reader /\ q.ended /\ q.events = y.events /\ q.returned = y.returned
      BY <2>3, <3>1 DEF Streams!Reader
    <3> QED BY <1>1, <2>2, <2>3, <2>5, <3>2 DEF Stopping
  <2> QED BY <1>1, <2>4, <2>5 DEF Outcome, Streams!Ending, q
<1>2. CASE wire[i] = "stop"
  <2>1. q = IF r.ended THEN [r EXCEPT !.returned = TRUE] ELSE Streams!Final(r, "message_end")
    BY <1>2 DEF Streams!Anthropic
  <2> HIDE DEF q
  <2>2. ASSUME r.ended PROVE q \in Streams!Reader /\ Stopped(r, q, i)
    BY <1>2, <2>1, <2>2 DEF Stopped, Streams!Reader
  <2>3. ASSUME ~r.ended PROVE q \in Streams!Reader /\ Completed(r, q, i)
    BY <1>2, <2>1, <2>3, FinalIs DEF Completed, Completing
  <2> QED BY <1>2, <2>2, <2>3 DEF Outcome, Streams!Ending, q
<1>3. CASE wire[i] = "error"
  <2>1. q = Streams!Final(r, "error")
    BY <1>3 DEF Streams!Anthropic
  <2> HIDE DEF q
  <2>2. q \in Streams!Reader /\ Broken(r, q, i)
    BY <1>3, <2>1, FinalIs DEF Broken
  <2> QED BY <1>3, <2>2 DEF Outcome, Streams!Ending, q
<1>4. CASE wire[i] = "text"
  <2>1. q = Streams!Text(r, i)
    BY <1>4 DEF Streams!Anthropic
  <2> HIDE DEF q
  <2>2. q \in Streams!Reader /\ Told(r, q, i)
    <3>1. /\ q \in Streams!Reader /\ q.ended = r.ended /\ q.returned = r.returned
          /\ \E u \in 0..MaxFrames : q.events = Append(r.events, Streams!Event("text_delta", i, u))
      BY <2>1, TextIs
    <3> QED BY <1>4, <3>1 DEF Told
  <2> QED BY <1>4, <2>2 DEF Outcome, Streams!Ending, q
<1>5. CASE wire[i] \notin {"finish", "stop", "error", "text"}
  <2>1. q = r \/ q = Streams!Used(r, i)
    BY <1>5 DEF Streams!Anthropic
  <2> HIDE DEF q
  <2>2. q \in Streams!Reader /\ Quiet(r, q, i)
    BY <1>5, <2>1, UsedIs DEF Quiet
  <2> QED BY <1>5, <2>2 DEF Outcome, Streams!Ending, q
<1> QED BY <1>1, <1>2, <1>3, <1>4, <1>5

LEMMA StructuredIs ==
  ASSUME MaxFrames \in Nat, NEW r \in Streams!Reader, ~r.returned, ~r.ended, NEW i \in 0..MaxFrames,
         Streams!Format \in {"responses", "google", "chat", "messages"}
  PROVE  Outcome(r, Streams!Structured(r, i, Streams!Format), i)
<1> DEFINE F == Streams!Format  q == Streams!Structured(r, i, F)
<1>1. CASE wire[i] = "done"
  <2>1. \/ q = Streams!Final(r, "message_end") /\ (F = "chat" \/ (F = "google" /\ r.sawText))
        \/ q = Streams!Final(r, "error")
    BY <1>1 DEF Streams!Structured, Streams!Closed
  <2> HIDE DEF q
  <2>2. CASE q = Streams!Final(r, "message_end") /\ (F = "chat" \/ (F = "google" /\ r.sawText))
    <3>1. q \in Streams!Reader /\ Completed(r, q, i)
      BY <1>1, <2>2, FinalIs DEF Completed, Completing
    <3> QED BY <1>1, <3>1 DEF Outcome, Streams!Ending, q
  <2>3. CASE q = Streams!Final(r, "error")
    <3>1. q \in Streams!Reader /\ Broken(r, q, i)
      BY <1>1, <2>3, FinalIs DEF Broken
    <3> QED BY <1>1, <3>1 DEF Outcome, Streams!Ending, q
  <2> QED BY <2>1, <2>2, <2>3
<1>2. CASE wire[i] = "error"
  <2>1. q = Streams!Final(r, "error")
    BY <1>2 DEF Streams!Structured
  <2> HIDE DEF q
  <2>2. q \in Streams!Reader /\ Broken(r, q, i)
    BY <1>2, <2>1, FinalIs DEF Broken
  <2> QED BY <1>2, <2>2 DEF Outcome, Streams!Ending, q
<1>3. CASE wire[i] = "text"
  <2>1. q = Streams!Text(r, i)
    BY <1>3 DEF Streams!Structured
  <2> HIDE DEF q
  <2>2. q \in Streams!Reader /\ Told(r, q, i)
    <3>1. /\ q \in Streams!Reader /\ q.ended = r.ended /\ q.returned = r.returned
          /\ \E u \in 0..MaxFrames : q.events = Append(r.events, Streams!Event("text_delta", i, u))
      BY <2>1, TextIs
    <3> QED BY <1>3, <3>1 DEF Told
  <2> QED BY <1>3, <2>2 DEF Outcome, Streams!Ending, q
<1>4. CASE wire[i] = "stop" /\ F \in {"responses", "messages"}
  <2>1. q = Streams!Final(r, "message_end") \/ q = Streams!Final(Streams!Used(r, i), "message_end")
    BY <1>4 DEF Streams!Structured
  <2> HIDE DEF q
  <2>2. Streams!Used(r, i) \in Streams!Reader /\ Streams!Used(r, i).events = r.events
    BY UsedIs
  <2>3. q \in Streams!Reader /\ Completed(r, q, i)
    <3>1. q.returned /\ q \in Streams!Reader
      BY <2>1, <2>2, FinalIs
    <3>2. \E u \in 0..MaxFrames : q.events = Append(r.events, Streams!Event("message_end", 0, u))
      BY <2>1, <2>2, FinalIs, SMTT(20)
    <3> QED BY <1>4, <3>1, <3>2 DEF Completed, Completing
  <2> QED BY <1>4, <2>3 DEF Outcome, Streams!Ending, q
<1>5. CASE wire[i] \notin {"done", "error", "text"} /\ ~(wire[i] = "stop" /\ F \in {"responses", "messages"})
  <2>1. q = r \/ q = Streams!Used(r, i)
    BY <1>5 DEF Streams!Structured
  <2> HIDE DEF q
  <2>2. q \in Streams!Reader /\ Quiet(r, q, i)
    BY <1>5, <2>1, UsedIs DEF Quiet
  <2> QED BY <1>5, <2>2 DEF Outcome, Streams!Ending, q
<1> QED BY <1>1, <1>2, <1>3, <1>4, <1>5

LEMMA HandledIs ==
  ASSUME Streams!TypeOK, NEW r \in Streams!Reader, ~r.returned, r.ended => Streams!Format = "anthropic",
         NEW i \in DOMAIN wire
  PROVE  Outcome(r, Streams!Handle(r, i), i) /\ Streams!Handle(r, i).taken = i
<1> DEFINE q == Streams!Handle(r, i)
<1>1. i \in 1..MaxFrames /\ Streams!Format \in Streams!Formats /\ MaxFrames \in Nat
  BY FormatIs, AnswersAssumption DEF Streams!TypeOK
<1>2. PICK p : q = [p EXCEPT !.taken = i] /\ Outcome(r, p, i)
  <2>1. CASE Streams!Format = "compatible"
    BY <1>1, <2>1, CompatibleIs DEF Streams!Handle
  <2>2. CASE Streams!Format = "anthropic"
    BY <1>1, <2>2, AnthropicIs DEF Streams!Handle
  <2>3. CASE Streams!Format \in {"responses", "google", "chat", "messages"}
    BY <1>1, <2>3, StructuredIs DEF Streams!Handle
  <2> QED BY <1>1, <2>1, <2>2, <2>3 DEF Streams!Formats
<1> HIDE DEF q
<1>3. /\ q \in Streams!Reader /\ q.taken = i /\ q.events = p.events /\ q.returned = p.returned /\ q.ended = p.ended
      /\ q.sawText = p.sawText
  BY <1>1, <1>2 DEF Streams!Reader, Outcome
<1> QED BY <1>2, <1>3 DEF Outcome, Quiet, Told, Stopping, Stopped, Completed, Broken, q

\* What a step adds to a reader: nothing, or an event.
Grows(r, q, type, at) ==
  IF type = "none" THEN q.events = r.events
  ELSE \E u \in 0..MaxFrames : q.events = Append(r.events, Streams!Event(type, at, u))

LEMMA GrownIs ==
  ASSUME NEW r \in Streams!Reader, NEW q \in Streams!Reader, NEW type \in {"none", "text_delta", "message_end", "error"},
         NEW at \in 0..MaxFrames, Grows(r, q, type, at)
  PROVE  LET n == Len(r.events) IN
         /\ n \in Nat
         /\ \A t \in {"text_delta", "message_end", "error"} :
              /\ YieldedBy(r, t) \subseteq 1..n /\ n + 1 \notin YieldedBy(r, t)
              /\ YieldedBy(q, t) = YieldedBy(r, t) \cup (IF type = t THEN {n + 1} ELSE {})
              /\ \A k \in YieldedBy(r, t) : q.events[k] = r.events[k]
         /\ type = "none" => Len(q.events) = n
         /\ type # "none" => Len(q.events) = n + 1 /\ q.events[n + 1].at = at
<1> DEFINE n == Len(r.events)
<1>0. r.events \in Seq(Streams!Events) /\ n \in Nat /\ DOMAIN r.events = 1..n
  BY DEF Streams!Reader
<1>1. CASE type = "none"
  <2>1. q.events = r.events
    BY <1>1 DEF Grows
  <2>2. \A t \in {"text_delta", "message_end", "error"} : YieldedBy(q, t) = YieldedBy(r, t) /\ YieldedBy(r, t) \subseteq 1..n
    BY <1>0, <2>1 DEF YieldedBy
  <2>3. n + 1 \notin 1..n
    BY <1>0
  <2> QED BY <1>0, <1>1, <2>1, <2>2, <2>3
<1>2. CASE type # "none"
  <2>1. PICK u \in 0..MaxFrames : q.events = Append(r.events, Streams!Event(type, at, u))
    BY <1>2 DEF Grows
  <2> DEFINE e == Streams!Event(type, at, u)
  <2>2. e \in Streams!Events /\ e.type = type /\ e.at = at
    BY <1>2, EventTyped
  <2> HIDE DEF e
  <2>3. q.events = Append(r.events, e)
    BY <2>1 DEF e
  <2>4. /\ Len(q.events) = n + 1 /\ q.events[n + 1] = e
        /\ \A t : YieldedBy(r, t) \subseteq 1..n /\ n + 1 \notin YieldedBy(r, t)
                  /\ YieldedBy(q, t) = YieldedBy(r, t) \cup (IF e.type = t THEN {n + 1} ELSE {})
        /\ \A k \in 1..n : q.events[k] = r.events[k]
    BY <1>0, <2>2, <2>3, EventAdded
  <2> HIDE DEF n
  <2>5. \A t \in {"text_delta", "message_end", "error"} : \A k \in YieldedBy(r, t) : q.events[k] = r.events[k]
    BY <2>4
  <2> QED BY <1>0, <1>2, <2>2, <2>4, <2>5 DEF n
<1> QED BY <1>1, <1>2

LEMMA FitsFurther ==
  ASSUME Streams!TypeOK, NEW r, ReaderFits(r), NEW q \in Streams!Reader, q.taken = r.taken + 1, q.taken <= Len(wire),
         Streams!FrameBytes * q.taken <= received + 2, r.taken > 0 => wire[r.taken] \notin Streams!Ending(Streams!Format),
         NEW type \in {"none", "text_delta", "message_end", "error"}, NEW at \in 0..MaxFrames, Grows(r, q, type, at),
         wire[q.taken] = "text" <=> type = "text_delta", type = "text_delta" => at = q.taken
  PROVE  ReaderFits(q)
<1> DEFINE i == q.taken  n == Len(r.events)  T == YieldedBy(r, "text_delta")  U == YieldedBy(q, "text_delta")
<1>1. r \in Streams!Reader /\ r.taken \in Nat /\ i \in Nat /\ i = r.taken + 1
  BY DEF ReaderFits, Streams!Reader
<1>2. /\ n \in Nat /\ T \subseteq 1..n /\ n + 1 \notin T /\ U = T \cup (IF type = "text_delta" THEN {n + 1} ELSE {})
      /\ \A k \in T : q.events[k] = r.events[k]
      /\ type = "text_delta" => q.events[n + 1].at = at
  BY <1>1, GrownIs
<1>3. /\ \A j, k \in T : j < k => r.events[j].at < r.events[k].at
      /\ \A k \in T : r.events[k].at \in 1..r.taken /\ wire[r.events[k].at] = "text"
      /\ \A k \in 1..r.taken : wire[k] = "text" => \E j \in T : r.events[j].at = k
      /\ \A k \in 1..(r.taken - 1) : wire[k] \notin Streams!Ending(Streams!Format)
  BY DEF ReaderFits
<1> HIDE DEF n, T, U, i
<1>4. \A k \in 1..(i - 1) : wire[k] \notin Streams!Ending(Streams!Format)
  <2>1. \A k \in 1..(i - 1) : k \in 1..(r.taken - 1) \/ k = r.taken
    BY <1>1
  <2> QED BY <1>1, <1>3, <2>1
<1>5. 1..i = 1..r.taken \cup {i} /\ \A k \in 1..r.taken : k < i
  BY <1>1
<1>6. CASE type = "text_delta"
  <2>1. U = T \cup {n + 1} /\ q.events[n + 1].at = i /\ wire[i] = "text" /\ \A k \in T : k < n + 1 /\ k # n + 1
    BY <1>2, <1>6 DEF i
  <2>2. \A j, k \in U : j < k => q.events[j].at < q.events[k].at
    <3>1. \A j \in T : ~(n + 1 < j)
      BY <1>2
    <3> QED BY <1>2, <1>3, <1>5, <2>1, <3>1, SMTT(20)
  <2>3. \A k \in U : q.events[k].at \in 1..i /\ wire[q.events[k].at] = "text"
    BY <1>2, <1>3, <1>5, <2>1
  <2>4. \A k \in 1..i : wire[k] = "text" => \E j \in U : q.events[j].at = k
    BY <1>2, <1>3, <1>5, <2>1
  <2> QED BY <1>4, <2>2, <2>3, <2>4 DEF ReaderFits, U, i
<1>7. CASE type # "text_delta"
  <2>1. U = T /\ wire[i] # "text"
    BY <1>2, <1>7 DEF i
  <2>2. \A j, k \in U : j < k => q.events[j].at < q.events[k].at
    BY <1>2, <1>3, <2>1
  <2>3. \A k \in U : q.events[k].at \in 1..i /\ wire[q.events[k].at] = "text"
    BY <1>2, <1>3, <1>5, <2>1
  <2>4. \A k \in 1..i : wire[k] = "text" => \E j \in U : q.events[j].at = k
    BY <1>2, <1>3, <1>5, <2>1
  <2> QED BY <1>4, <2>2, <2>3, <2>4 DEF ReaderFits, U, i
<1> QED BY <1>6, <1>7

LEMMA HandledFits ==
  ASSUME Streams!TypeOK, NEW r, UnderWay(r), NEW i, i = r.taken + 1, i <= Len(wire), Streams!FrameBytes * i <= received + 2
  PROVE  LET q == Streams!Handle(r, i) IN
         /\ q.taken = i /\ q \in Streams!Reader
         /\ IF q.returned THEN IsOver(q) /\ wire[i] \in Streams!Ending(Streams!Format) ELSE UnderWay(q)
<1> DEFINE q == Streams!Handle(r, i)
<1>1. r \in Streams!Reader /\ r.taken \in Nat /\ ReaderFits(r) /\ ~r.returned /\ (r.ended => Streams!Format = "anthropic")
  <2>1. ReaderFits(r) /\ ~r.returned /\ (r.ended => Streams!Format = "anthropic")
    BY DEF UnderWay
  <2>2. r \in Streams!Reader
    BY <2>1 DEF ReaderFits
  <2>3. r.taken \in Nat
    BY <2>2 DEF Streams!Reader
  <2> QED BY <2>1, <2>2, <2>3
<1>2. i \in DOMAIN wire /\ i \in 0..MaxFrames /\ i \in Nat /\ 0 \in 0..MaxFrames
  BY <1>1, AnswersAssumption DEF Streams!TypeOK
<1>3. Outcome(r, q, i) /\ q.taken = i
  BY <1>1, <1>2, HandledIs
<1>4. q \in Streams!Reader
  BY <1>3 DEF Outcome
<1> HIDE DEF q
<1>5. \A type \in {"none", "text_delta", "message_end", "error"}, at \in 0..MaxFrames :
        Grows(r, q, type, at) /\ (wire[i] = "text" <=> type = "text_delta") /\ (type = "text_delta" => at = i) => ReaderFits(q)
  BY <1>1, <1>2, <1>3, <1>4, FitsFurther DEF UnderWay
<1>6. /\ YieldedBy(r, "error") = {} /\ (YieldedBy(r, "message_end") # {} <=> r.ended)
      /\ Streams!OneAtMost(YieldedBy(r, "message_end"))
      /\ r.ended => Streams!Format = "anthropic" /\ \E j \in 1..r.taken : wire[j] = "finish"
  BY DEF UnderWay
<1>7. \A type \in {"none", "text_delta", "message_end", "error"}, at \in 0..MaxFrames :
        Grows(r, q, type, at) =>
          /\ Len(r.events) \in Nat
          /\ \A t \in {"message_end", "error"} :
               YieldedBy(q, t) = YieldedBy(r, t) \cup (IF type = t THEN {Len(r.events) + 1} ELSE {})
               /\ YieldedBy(r, t) \subseteq 1..Len(r.events)
          /\ type # "none" => Len(q.events) = Len(r.events) + 1
  BY <1>1, <1>4, GrownIs
<1>8. 1..i = 1..r.taken \cup {i}
  BY <1>1
<1>9. CASE Quiet(r, q, i) /\ wire[i] \notin Streams!Ending(Streams!Format)
  <2>1. Grows(r, q, "none", 0)
    BY <1>9 DEF Quiet, Grows
  <2>2. ReaderFits(q)
    BY <1>2, <1>5, <1>9, <2>1 DEF Quiet
  <2>3. YieldedBy(q, "error") = YieldedBy(r, "error") /\ YieldedBy(q, "message_end") = YieldedBy(r, "message_end")
    BY <1>2, <1>7, <2>1
  <2>4. UnderWay(q)
    BY <1>3, <1>6, <1>8, <1>9, <2>2, <2>3 DEF UnderWay, Quiet
  <2> QED BY <1>3, <1>4, <1>9, <2>4 DEF Quiet, q
<1>10. CASE Told(r, q, i) /\ wire[i] \notin Streams!Ending(Streams!Format)
  <2>1. Grows(r, q, "text_delta", i)
    BY <1>10 DEF Told, Grows
  <2>2. ReaderFits(q)
    BY <1>2, <1>5, <1>10, <2>1 DEF Told
  <2>3. YieldedBy(q, "error") = YieldedBy(r, "error") /\ YieldedBy(q, "message_end") = YieldedBy(r, "message_end")
    BY <1>2, <1>7, <2>1
  <2>4. UnderWay(q)
    BY <1>3, <1>6, <1>8, <1>10, <2>2, <2>3 DEF UnderWay, Told
  <2> QED BY <1>3, <1>4, <1>10, <2>4 DEF Told, q
<1>11. CASE Stopping(r, q, i) /\ wire[i] \notin Streams!Ending(Streams!Format)
  <2>1. Grows(r, q, "message_end", 0)
    BY <1>11 DEF Stopping, Grows
  <2>2. ReaderFits(q)
    BY <1>2, <1>5, <1>11, <2>1 DEF Stopping
  <2>3. YieldedBy(q, "error") = YieldedBy(r, "error")
        /\ YieldedBy(q, "message_end") = YieldedBy(r, "message_end") \cup {Len(r.events) + 1}
    BY <1>2, <1>7, <2>1
  <2>4. YieldedBy(q, "message_end") = {Len(r.events) + 1}
    BY <1>6, <1>11, <2>3 DEF Stopping
  <2>5. UnderWay(q)
    BY <1>3, <1>6, <1>8, <1>11, <2>2, <2>3, <2>4 DEF UnderWay, Stopping, Streams!OneAtMost
  <2> QED BY <1>3, <1>4, <1>11, <2>5 DEF Stopping, q
<1>12. CASE Stopped(r, q, i) /\ wire[i] \in Streams!Ending(Streams!Format)
  <2>1. Grows(r, q, "none", 0)
    BY <1>12 DEF Stopped, Grows
  <2>2. ReaderFits(q)
    BY <1>2, <1>5, <1>12, <2>1 DEF Stopped
  <2>3. YieldedBy(q, "error") = YieldedBy(r, "error") /\ YieldedBy(q, "message_end") = YieldedBy(r, "message_end")
    BY <1>2, <1>7, <2>1
  <2>4. IsOver(q)
    BY <1>3, <1>6, <1>8, <1>12, <2>2, <2>3 DEF IsOver, Stopped, Completing, Streams!OneAtMost
  <2> QED BY <1>3, <1>4, <1>12, <2>4 DEF Stopped, q
<1>13. CASE Completed(r, q, i) /\ wire[i] \in Streams!Ending(Streams!Format)
  <2>1. Grows(r, q, "message_end", 0)
    BY <1>13 DEF Completed, Grows
  <2>2. ReaderFits(q)
    BY <1>2, <1>5, <1>13, <2>1 DEF Completed
  <2>3. YieldedBy(q, "error") = YieldedBy(r, "error") /\ Len(q.events) = Len(r.events) + 1 /\ Len(r.events) \in Nat
        /\ YieldedBy(q, "message_end") = YieldedBy(r, "message_end") \cup {Len(r.events) + 1}
    BY <1>2, <1>7, <2>1
  <2>4. YieldedBy(q, "message_end") = {Len(q.events)} /\ YieldedBy(q, "error") = {}
    BY <1>6, <1>13, <2>3 DEF Completed
  <2>5. (Streams!Format = "google" /\ q.sawText) \/ \E k \in 1..q.taken : wire[k] \in Completing
    BY <1>3, <1>8, <1>13 DEF Completed
  <2>6. \A k \in YieldedBy(q, "message_end") \cup YieldedBy(q, "error") : ~(k < Len(q.events))
    BY <2>3, <2>4
  <2>7. IsOver(q)
    BY <2>2, <2>4, <2>5, <2>6 DEF IsOver, Streams!OneAtMost
  <2> QED BY <1>3, <1>4, <1>13, <2>7 DEF Completed, q
<1>14. CASE Broken(r, q, i) /\ wire[i] \in Streams!Ending(Streams!Format)
  <2>1. Grows(r, q, "error", 0)
    BY <1>14 DEF Broken, Grows
  <2>2. ReaderFits(q)
    BY <1>2, <1>5, <1>14, <2>1 DEF Broken
  <2>3. YieldedBy(q, "message_end") = YieldedBy(r, "message_end") /\ Len(q.events) = Len(r.events) + 1 /\ Len(r.events) \in Nat
        /\ YieldedBy(q, "error") = YieldedBy(r, "error") \cup {Len(r.events) + 1}
    BY <1>2, <1>7, <2>1
  <2>4. YieldedBy(q, "error") = {Len(q.events)}
    BY <1>6, <2>3
  <2>5. YieldedBy(q, "message_end") # {} => Streams!Format = "anthropic" /\ \E k \in 1..q.taken : wire[k] \in Completing
    BY <1>3, <1>6, <1>8, <2>3 DEF Completing
  <2>6. \A k \in YieldedBy(q, "message_end") \cup YieldedBy(q, "error") :
          k < Len(q.events) => Streams!Format = "anthropic" /\ k \in YieldedBy(q, "message_end")
    BY <2>3, <2>4, <2>5
  <2>7. Streams!OneAtMost(YieldedBy(q, "message_end")) /\ Streams!OneAtMost(YieldedBy(q, "error"))
    BY <1>6, <2>3, <2>4 DEF Streams!OneAtMost
  <2>8. IsOver(q)
    BY <2>2, <2>4, <2>5, <2>6, <2>7 DEF IsOver
  <2> QED BY <1>3, <1>4, <1>14, <2>8 DEF Broken, q
<1> QED BY <1>3, <1>9, <1>10, <1>11, <1>12, <1>13, <1>14 DEF Outcome

LEMMA FinallyFits ==
  ASSUME MaxFrames \in Nat, NEW r, UnderWay(r), NEW type \in {"message_end", "error"},
         type = "message_end" => ~r.ended /\ Streams!Format = "google" /\ r.sawText
  PROVE  LET q == Streams!Final(r, type) IN IsOver(q) /\ q.taken = r.taken
<1> DEFINE q == Streams!Final(r, type)  n == Len(r.events)
<1>1. r \in Streams!Reader /\ ReaderFits(r)
  BY DEF UnderWay, ReaderFits
<1>2. /\ q \in Streams!Reader /\ q.taken = r.taken /\ q.sawText = r.sawText
      /\ \E u \in 0..MaxFrames : q.events = Append(r.events, Streams!Event(type, 0, u))
  BY <1>1, FinalIs
<1> HIDE DEF q
<1>3. Grows(r, q, type, 0) /\ 0 \in 0..MaxFrames /\ type \in {"none", "text_delta", "message_end", "error"}
  BY <1>2 DEF Grows
<1>4. /\ n \in Nat /\ Len(q.events) = n + 1
      /\ \A t \in {"text_delta", "message_end", "error"} :
           /\ YieldedBy(r, t) \subseteq 1..n
           /\ YieldedBy(q, t) = YieldedBy(r, t) \cup (IF type = t THEN {n + 1} ELSE {})
           /\ \A k \in YieldedBy(r, t) : q.events[k] = r.events[k]
  BY <1>1, <1>2, <1>3, GrownIs
<1> HIDE DEF n
<1>5. YieldedBy(q, "text_delta") = YieldedBy(r, "text_delta") /\ \A k \in YieldedBy(r, "text_delta") : q.events[k] = r.events[k]
  BY <1>4
<1>6. ReaderFits(q)
  <2> DEFINE T == YieldedBy(r, "text_delta")
  <2>1. /\ r.taken <= Len(wire) /\ Streams!FrameBytes * r.taken <= received + 2
        /\ \A i \in 1..(r.taken - 1) : wire[i] \notin Streams!Ending(Streams!Format)
        /\ \A i, j \in T : i < j => r.events[i].at < r.events[j].at
        /\ \A i \in T : r.events[i].at \in 1..r.taken /\ wire[r.events[i].at] = "text"
        /\ \A i \in 1..r.taken : wire[i] = "text" => \E j \in T : r.events[j].at = i
    BY <1>1 DEF ReaderFits
  <2> HIDE DEF T
  <2>2. YieldedBy(q, "text_delta") = T /\ \A k \in T : q.events[k] = r.events[k]
    BY <1>5 DEF T
  <2>3. /\ \A i, j \in T : i < j => q.events[i].at < q.events[j].at
        /\ \A i \in T : q.events[i].at \in 1..r.taken /\ wire[q.events[i].at] = "text"
        /\ \A i \in 1..r.taken : wire[i] = "text" => \E j \in T : q.events[j].at = i
    BY <2>1, <2>2
  <2> QED BY <1>2, <2>1, <2>2, <2>3 DEF ReaderFits
<1>7. /\ YieldedBy(r, "error") = {} /\ (YieldedBy(r, "message_end") # {} <=> r.ended)
      /\ Streams!OneAtMost(YieldedBy(r, "message_end"))
      /\ r.ended => Streams!Format = "anthropic" /\ \E j \in 1..r.taken : wire[j] = "finish"
  BY DEF UnderWay
<1>8. CASE type = "error"
  <2>1. YieldedBy(q, "error") = {n + 1} /\ YieldedBy(q, "message_end") = YieldedBy(r, "message_end")
    BY <1>4, <1>7, <1>8
  <2>2. YieldedBy(q, "message_end") # {} => Streams!Format = "anthropic" /\ \E k \in 1..q.taken : wire[k] \in Completing
    BY <1>2, <1>7, <2>1 DEF Completing
  <2>3. \A k \in YieldedBy(q, "message_end") \cup YieldedBy(q, "error") :
          k < Len(q.events) => Streams!Format = "anthropic" /\ k \in YieldedBy(q, "message_end")
    BY <1>4, <2>1, <2>2
  <2>4. Streams!OneAtMost(YieldedBy(q, "message_end")) /\ Streams!OneAtMost(YieldedBy(q, "error"))
    BY <1>7, <2>1 DEF Streams!OneAtMost
  <2> QED BY <1>2, <1>6, <2>1, <2>2, <2>3, <2>4 DEF IsOver, q
<1>9. CASE type = "message_end"
  <2>1. YieldedBy(q, "message_end") = {n + 1} /\ YieldedBy(q, "error") = {}
    BY <1>4, <1>7, <1>9
  <2>2. \A k \in YieldedBy(q, "message_end") \cup YieldedBy(q, "error") : ~(k < Len(q.events))
    BY <1>4, <2>1
  <2>3. Streams!OneAtMost(YieldedBy(q, "message_end")) /\ Streams!OneAtMost(YieldedBy(q, "error"))
    BY <2>1 DEF Streams!OneAtMost
  <2> QED BY <1>2, <1>6, <1>9, <2>1, <2>2, <2>3 DEF IsOver, q
<1> QED BY <1>8, <1>9

\* Frames and the bytes they need.
LEMMA FramesOfBytes ==
  ASSUME Streams!TypeOK
  PROVE  LET c == Streams!Complete(received, Streams!Format)  w == (received + 2) \div 4 IN
         /\ received \in Nat /\ c \in Nat /\ w \in Nat /\ c <= Len(wire) /\ w <= Len(wire)
         /\ 4 * c <= received + 1 /\ 4 * w <= received + 2 /\ received + 2 < 4 * (w + 1)
         /\ IF Streams!Lines(Streams!Format) THEN received + 1 < 4 * (c + 1) ELSE w = c \/ w = c + 1
<1> DEFINE l == Len(wire)
<1>1. received \in Nat /\ l \in Nat /\ received <= 4 * l
  BY DEF Streams!TypeOK, Streams!FrameBytes
<1>2. \A a \in Nat : a \div 4 \in Nat /\ 4 * (a \div 4) <= a /\ a < 4 * ((a \div 4) + 1)
  OBVIOUS
<1> HIDE DEF l
<1>3. Streams!Complete(received, Streams!Format) =
        IF Streams!Lines(Streams!Format) THEN (received + 1) \div 4 ELSE received \div 4
  BY DEF Streams!Complete, Streams!FrameBytes
<1>4. CASE Streams!Lines(Streams!Format)
  BY <1>1, <1>2, <1>3, <1>4 DEF l
<1>5. CASE ~Streams!Lines(Streams!Format)
  BY <1>1, <1>2, <1>3, <1>5 DEF l
<1> QED BY <1>4, <1>5

LEMMA FrameOfByte ==
  \A c, j, x \in Nat :
    x >= 4 * (j - 1) + 2 =>
      /\ x + 2 < 4 * (c + 1) => j <= c
      /\ x + 1 < 4 * (c + 1) => j <= c \/ x < 4 * (j - 1) + 3
OBVIOUS

LEMMA StreamsBegin == Streams!Init => StreamsInv
<1> SUFFICES ASSUME Streams!Init PROVE StreamsInv
  OBVIOUS
<1> DEFINE e == Streams!Event("message_start", 0, 0)
<1>1. e \in Streams!Events /\ e.type = "message_start" /\ MaxFrames \in Nat
  BY EventTyped, AnswersAssumption
<1>2. /\ wire = <<>> /\ received = 0 /\ reader.taken = 0 /\ ~reader.ended /\ ~reader.returned /\ stream.pc = "connecting"
      /\ stream.provider \in Streams!Providers /\ stream.attempt = 1 /\ stream.broken = FALSE
  BY DEF Streams!Init
<1>2a. reader = [taken |-> 0, events |-> <<e>>, usage |-> 0, ended |-> FALSE, sawText |-> FALSE, returned |-> FALSE]
  BY DEF Streams!Init
<1> HIDE DEF e
<1>3. <<e>> \in Seq(Streams!Events) /\ Len(<<e>>) = 1
  BY <1>1
<1>4. reader \in Streams!Reader
  BY <1>1, <1>2a, <1>3 DEF Streams!Reader
<1>5. YieldedBy(reader, "text_delta") = {} /\ YieldedBy(reader, "message_end") = {} /\ YieldedBy(reader, "error") = {}
  BY <1>1, <1>2a DEF YieldedBy
<1>6. 1 \in DOMAIN Streams!Attempts(stream.provider)
  BY DEF Streams!Attempts
<1>7. Streams!TypeOK
  <2>1. wire \in Seq(Streams!Frames) /\ Len(wire) = 0
    BY <1>2
  <2>2. received \in 0..(Streams!FrameBytes * Len(wire)) /\ Len(wire) <= MaxFrames
    BY <1>1, <1>2, <2>1 DEF Streams!FrameBytes
  <2>3. stream.attempt \in DOMAIN Streams!Attempts(stream.provider)
    BY <1>2, <1>6
  <2>4. stream \in [provider : Streams!Providers, attempt : 1..3, pc : {"connecting", "reading", "over"}, broken : BOOLEAN]
    <3>1. stream \in [provider : Streams!Providers, attempt : {1}, pc : {"connecting"}, broken : {FALSE}]
      BY DEF Streams!Init
    <3>2. {1} \subseteq 1..3 /\ {"connecting"} \subseteq {"connecting", "reading", "over"} /\ {FALSE} \subseteq BOOLEAN
      OBVIOUS
    <3> QED BY <3>1, <3>2
  <2> QED BY <1>2, <1>4, <2>1, <2>2, <2>3, <2>4 DEF Streams!TypeOK
<1>8. UnderWay(reader)
  <2>1. ReaderFits(reader)
    <3>1. Len(wire) = 0 /\ Streams!FrameBytes * 0 <= 0 + 2
      BY <1>2 DEF Streams!FrameBytes
    <3>2. 1..(reader.taken - 1) = {} /\ 1..reader.taken = {}
      BY <1>2
    <3> QED BY <1>2, <1>4, <1>5, <3>1, <3>2 DEF ReaderFits
  <2> QED BY <1>2, <1>5, <2>1 DEF UnderWay, Streams!OneAtMost
<1> QED BY <1>2, <1>5, <1>7, <1>8 DEF StreamsInv

LEMMA ConnectStep ==
  ASSUME StreamsInv, Streams!ConnectFails \/ (\E unsupported \in BOOLEAN : Streams!Refused(unsupported))
  PROVE  StreamsInv'
<1>1. /\ Streams!TypeOK /\ stream.pc = "connecting" /\ wire = <<>> /\ received = 0 /\ reader.taken = 0 /\ ~reader.ended
      /\ UnderWay(reader) /\ YieldedBy(reader, "message_end") = {} /\ MaxFrames \in Nat
  BY AnswersAssumption DEF StreamsInv, Streams!ConnectFails, Streams!Refused
<1>2. wire' = wire /\ received' = received
  BY DEF Streams!ConnectFails, Streams!Refused, Streams!Over
<1>3. CASE Streams!Over(Streams!Final(reader, "error"))
  <2>1. stream' = [stream EXCEPT !.pc = "over"] /\ reader' = Streams!Final(reader, "error")
    BY <1>3 DEF Streams!Over
  <2>2. IsOver(Streams!Final(reader, "error")) /\ Streams!Final(reader, "error").taken = reader.taken
    BY <1>1, FinallyFits
  <2>3. /\ stream' \in [provider : Streams!Providers, attempt : 1..3, pc : {"connecting", "reading", "over"}, broken : BOOLEAN]
        /\ stream'.pc = "over" /\ stream'.provider = stream.provider /\ stream'.attempt = stream.attempt
    BY <1>1, <2>1 DEF Streams!TypeOK
  <2>4. Streams!Format' = Streams!Format
    BY <2>3 DEF Streams!Format
  <2>5. IsOver(reader)'
    BY <1>2, <2>1, <2>2, <2>4 DEF IsOver, ReaderFits, YieldedBy, Completing, Streams!Ending
  <2>6. Streams!TypeOK'
    BY <1>1, <1>2, <2>3, <2>5 DEF Streams!TypeOK, IsOver, ReaderFits
  <2>7. NothingIsLeft'
    BY <1>1, <1>2 DEF NothingIsLeft, Streams!Heard, Streams!Whole
  <2> QED BY <2>3, <2>5, <2>6, <2>7 DEF StreamsInv
<1>4. CASE \E unsupported \in BOOLEAN : /\ unsupported /\ stream.attempt < Len(Streams!Attempts(stream.provider))
                                        /\ stream' = [stream EXCEPT !.attempt = @ + 1] /\ UNCHANGED <<wire, received, reader>>
  <2>1. stream.attempt < Len(Streams!Attempts(stream.provider)) /\ stream' = [stream EXCEPT !.attempt = @ + 1] /\ reader' = reader
    BY <1>4
  <2>2. /\ stream' \in [provider : Streams!Providers, attempt : 1..3, pc : {"connecting", "reading", "over"}, broken : BOOLEAN]
        /\ stream'.pc = "connecting" /\ stream'.attempt \in DOMAIN Streams!Attempts(stream'.provider)
    BY <1>1, <2>1 DEF Streams!TypeOK, Streams!Attempts
  <2>3. Streams!TypeOK'
    BY <1>1, <1>2, <2>1, <2>2 DEF Streams!TypeOK
  <2>4. UnderWay(reader)'
    <3>1. 1..(reader.taken - 1) = {}
      BY <1>1
    <3>2. ReaderFits(reader)'
      BY <1>1, <1>2, <2>1, <3>1 DEF UnderWay, ReaderFits, YieldedBy
    <3> QED BY <1>1, <1>2, <2>1, <3>2 DEF UnderWay, YieldedBy
  <2> QED BY <1>1, <1>2, <2>1, <2>2, <2>3, <2>4 DEF StreamsInv, YieldedBy
<1> QED BY <1>3, <1>4 DEF Streams!ConnectFails, Streams!Refused

LEMMA ConnectedStep ==
  ASSUME StreamsInv, NEW n \in 0..MaxFrames, NEW frames \in [1..n -> Streams!Frames], Streams!Connected(frames)
  PROVE  StreamsInv'
<1>1. /\ Streams!TypeOK /\ stream.pc = "connecting" /\ received = 0 /\ reader.taken = 0 /\ ~reader.ended
      /\ UnderWay(reader) /\ YieldedBy(reader, "message_end") = {} /\ MaxFrames \in Nat
  BY AnswersAssumption DEF StreamsInv, Streams!Connected
<1>2. stream' = [stream EXCEPT !.pc = "reading"] /\ wire' = frames /\ received' = 0 /\ reader' = reader
  BY <1>1 DEF Streams!Connected
<1>3. wire' \in Seq(Streams!Frames) /\ Len(wire') = n /\ n \in Nat
  BY <1>1, <1>2
<1>4. /\ stream' \in [provider : Streams!Providers, attempt : 1..3, pc : {"connecting", "reading", "over"}, broken : BOOLEAN]
      /\ stream'.pc = "reading" /\ stream'.provider = stream.provider /\ stream'.attempt = stream.attempt
  BY <1>1, <1>2 DEF Streams!TypeOK
<1>5. Streams!TypeOK'
  BY <1>1, <1>2, <1>3, <1>4 DEF Streams!TypeOK, Streams!FrameBytes
<1>6. YieldedBy(reader, "text_delta") = {} /\ reader \in Streams!Reader
  <2>1. 1..reader.taken = {}
    BY <1>1
  <2> QED BY <1>1, <2>1 DEF UnderWay, ReaderFits
<1>7. UnderWay(reader)'
  <2>1. ReaderFits(reader)'
    <3>1. 1..(reader.taken - 1) = {} /\ 1..reader.taken = {} /\ Streams!FrameBytes * 0 <= 0 + 2
      BY <1>1 DEF Streams!FrameBytes
    <3> QED BY <1>1, <1>2, <1>3, <1>6, <3>1 DEF ReaderFits, YieldedBy
  <2> QED BY <1>1, <1>2, <2>1 DEF UnderWay, YieldedBy
<1>8. reader'.taken <= Streams!Complete(received', Streams!Format')
  <2>1. Streams!Complete(received', Streams!Format') \in Nat
    BY <1>2 DEF Streams!Complete, Streams!FrameBytes
  <2> QED BY <1>1, <1>2, <2>1
<1> QED BY <1>4, <1>5, <1>7, <1>8 DEF StreamsInv

LEMMA ReadStep ==
  ASSUME StreamsInv, NEW n \in 1..(Streams!FrameBytes * Len(wire)), Streams!Read(n)
  PROVE  StreamsInv'
<1>1. Streams!TypeOK /\ stream.pc = "reading" /\ UnderWay(reader) /\ MaxFrames \in Nat
      /\ reader.taken <= Streams!Complete(received, Streams!Format)
  BY AnswersAssumption DEF StreamsInv, Streams!Read
<1>2. stream' = stream /\ wire' = wire /\ received' = n /\ reader' = reader /\ received < n
  BY DEF Streams!Read
<1>3. received \in Nat /\ n \in Nat /\ reader.taken \in Nat /\ reader \in Streams!Reader
  BY <1>1 DEF Streams!TypeOK, Streams!Reader, Streams!FrameBytes
<1>4. Streams!TypeOK'
  BY <1>1, <1>2 DEF Streams!TypeOK, Streams!FrameBytes
<1>5. Streams!Format' = Streams!Format
  BY <1>2 DEF Streams!Format
<1>6. UnderWay(reader)'
  <2>1. Streams!FrameBytes * reader.taken <= n + 2
    BY <1>1, <1>2, <1>3 DEF UnderWay, ReaderFits, Streams!FrameBytes
  <2>2. ReaderFits(reader)'
    BY <1>1, <1>2, <1>5, <2>1 DEF UnderWay, ReaderFits, YieldedBy, Streams!Ending
  <2> QED BY <1>1, <1>2, <1>5, <2>2 DEF UnderWay, YieldedBy, Streams!Ending
<1>7. Streams!Complete(received, Streams!Format) <= Streams!Complete(n, Streams!Format)
  BY <1>2, <1>3 DEF Streams!Complete, Streams!FrameBytes
<1>8. Streams!Complete(received, Streams!Format) \in Nat /\ Streams!Complete(n, Streams!Format) \in Nat
  BY <1>3 DEF Streams!Complete, Streams!FrameBytes
<1>9. reader'.taken <= Streams!Complete(received', Streams!Format')
  BY <1>1, <1>2, <1>3, <1>5, <1>7, <1>8
<1> QED BY <1>1, <1>2, <1>4, <1>6, <1>9 DEF StreamsInv

LEMMA TakeStep ==
  ASSUME StreamsInv, Streams!Take
  PROVE  StreamsInv'
<1> DEFINE i == reader.taken + 1  q == Streams!Handle(reader, i)
<1>1. /\ Streams!TypeOK /\ stream.pc = "reading" /\ UnderWay(reader)
      /\ reader.taken < Streams!Complete(received, Streams!Format) /\ reader \in Streams!Reader /\ reader.taken \in Nat
  BY DEF StreamsInv, Streams!Take, Streams!Unhandled, Streams!TypeOK, Streams!Reader
<1>2. /\ reader' = q /\ stream' = (IF q.returned THEN [stream EXCEPT !.pc = "over"] ELSE stream)
      /\ wire' = wire /\ received' = received
  BY DEF Streams!Take
<1>3. /\ i \in Nat /\ i <= Len(wire) /\ i <= Streams!Complete(received, Streams!Format) /\ 4 * i <= received + 2
      /\ i = reader.taken + 1 /\ Len(wire) \in Nat /\ received \in Nat
  <2> DEFINE c == Streams!Complete(received, Streams!Format)
  <2>1. received \in Nat /\ c \in Nat /\ c <= Len(wire) /\ 4 * c <= received + 1 /\ Len(wire) \in Nat
    BY <1>1, FramesOfBytes DEF Streams!TypeOK
  <2> HIDE DEF c
  <2>2. reader.taken < c
    BY <1>1 DEF c
  <2>3. i \in Nat /\ i <= c
    BY <1>1, <2>1, <2>2
  <2> QED BY <2>1, <2>3 DEF c
<1>4. /\ q.taken = i /\ q \in Streams!Reader
      /\ IF q.returned THEN IsOver(q) /\ wire[i] \in Streams!Ending(Streams!Format) ELSE UnderWay(q)
  BY <1>1, <1>3, HandledFits DEF Streams!FrameBytes
<1> HIDE DEF q, i
<1>5. /\ stream' \in [provider : Streams!Providers, attempt : 1..3, pc : {"connecting", "reading", "over"}, broken : BOOLEAN]
      /\ stream'.provider = stream.provider /\ stream'.attempt = stream.attempt
      /\ stream'.pc = IF q.returned THEN "over" ELSE "reading"
  BY <1>1, <1>2 DEF Streams!TypeOK
<1>6. Streams!Format' = Streams!Format
  BY <1>5 DEF Streams!Format
<1>7. Streams!TypeOK'
  BY <1>1, <1>2, <1>4, <1>5 DEF Streams!TypeOK
<1>8. CASE q.returned
  <2>1. IsOver(reader)'
    BY <1>2, <1>4, <1>6, <1>8 DEF IsOver, ReaderFits, YieldedBy, Completing, Streams!Ending
  <2>2. NothingIsLeft'
    <3> SUFFICES ASSUME NEW j \in Streams!Heard' PROVE j <= reader'.taken
      BY DEF NothingIsLeft
    <3>1. j \in Nat /\ \A k \in 1..(j - 1) : wire[k] \notin Streams!Ending(Streams!Format)
      BY <1>1, <1>2, <1>6 DEF Streams!Heard, Streams!Whole, Streams!TypeOK, Streams!Ending
    <3>2. i \notin 1..(j - 1)
      BY <1>4, <1>8, <3>1
    <3>3. i >= 1
      BY <1>1, <1>3
    <3> QED BY <1>2, <1>3, <1>4, <3>1, <3>2, <3>3
  <2> QED BY <1>5, <1>7, <1>8, <2>1, <2>2 DEF StreamsInv
<1>9. CASE ~q.returned
  <2>1. UnderWay(reader)'
    BY <1>2, <1>4, <1>6, <1>9 DEF UnderWay, ReaderFits, YieldedBy, Streams!Ending
  <2>2. reader'.taken <= Streams!Complete(received', Streams!Format')
    BY <1>2, <1>3, <1>4, <1>6
  <2> QED BY <1>5, <1>7, <1>9, <2>1, <2>2 DEF StreamsInv
<1> QED BY <1>8, <1>9

LEMMA CloseStep ==
  ASSUME StreamsInv, Streams!Close
  PROVE  StreamsInv'
<1> DEFINE F == Streams!Format  c == Streams!Complete(received, F)  w == (received + 2) \div 4  q == Streams!Rest
           r == IF q.returned THEN q ELSE IF Streams!Lines(F) THEN Streams!Final(q, "error") ELSE Streams!Closed(q, F)
<1>1. /\ Streams!TypeOK /\ stream.pc = "reading" /\ UnderWay(reader) /\ reader \in Streams!Reader /\ reader.taken \in Nat
      /\ ~(reader.taken < c) /\ reader.taken <= c /\ MaxFrames \in Nat
  BY AnswersAssumption DEF StreamsInv, Streams!Close, Streams!Unhandled, Streams!TypeOK, Streams!Reader
<1>2. stream' = [stream EXCEPT !.pc = "over"] /\ reader' = r /\ wire' = wire /\ received' = received
  BY DEF Streams!Close, Streams!Over
<1>3. /\ received \in Nat /\ c \in Nat /\ w \in Nat /\ c <= Len(wire) /\ w <= Len(wire) /\ Len(wire) \in Nat
      /\ 4 * c <= received + 1 /\ 4 * w <= received + 2 /\ received + 2 < 4 * (w + 1)
      /\ IF Streams!Lines(F) THEN received + 1 < 4 * (c + 1) ELSE w = c \/ w = c + 1
  BY <1>1, FramesOfBytes DEF Streams!TypeOK
<1>4. /\ q \in Streams!Reader /\ q.taken = IF Streams!Lines(F) THEN c ELSE w
      /\ IF q.returned THEN IsOver(q) /\ ~Streams!Lines(F) ELSE UnderWay(q)
  <2>1. q = IF Streams!Lines(F) \/ w = reader.taken THEN reader ELSE Streams!Handle(reader, reader.taken + 1)
    BY DEF Streams!Rest, Streams!FrameBytes
  <2> HIDE DEF c, w, q
  <2>2. reader.taken = c
    BY <1>1, <1>3
  <2>3. CASE Streams!Lines(F) \/ w = reader.taken
    BY <1>1, <2>1, <2>2, <2>3 DEF UnderWay
  <2>4. CASE ~(Streams!Lines(F) \/ w = reader.taken)
    <3> DEFINE i == reader.taken + 1
    <3>1. q = Streams!Handle(reader, i) /\ i = reader.taken + 1 /\ i = w
      BY <1>1, <1>3, <2>1, <2>2, <2>4
    <3>2. i <= Len(wire) /\ 4 * i <= received + 2
      BY <1>3, <3>1
    <3> HIDE DEF i
    <3>3. /\ Streams!Handle(reader, i).taken = i /\ Streams!Handle(reader, i) \in Streams!Reader
          /\ IF Streams!Handle(reader, i).returned THEN IsOver(Streams!Handle(reader, i)) ELSE UnderWay(Streams!Handle(reader, i))
      BY <1>1, <3>1, <3>2, HandledFits DEF Streams!FrameBytes
    <3> QED BY <2>4, <3>1, <3>3
  <2> QED BY <2>3, <2>4
<1> HIDE DEF q, c, w
<1>5. IsOver(r) /\ r.taken = q.taken
  <2>1. CASE q.returned
    BY <1>4, <2>1
  <2>2. CASE ~q.returned
    <3>1. UnderWay(q)
      BY <1>4, <2>2
    <3>2. \/ r = Streams!Final(q, "error")
          \/ r = Streams!Final(q, "message_end") /\ F = "google" /\ q.sawText
      <4>1. q.ended => F = "anthropic"
        BY <3>1 DEF UnderWay
      <4>2. F = "anthropic" => Streams!Lines(F)
        BY DEF Streams!Lines
      <4> QED BY <2>2, <4>1, <4>2 DEF Streams!Closed
    <3>3. F = "google" => ~q.ended
      BY <3>1 DEF UnderWay
    <3> HIDE DEF r
    <3> QED BY <1>1, <3>1, <3>2, <3>3, FinallyFits
  <2> QED BY <2>1, <2>2
<1> HIDE DEF r
<1>6. /\ stream' \in [provider : Streams!Providers, attempt : 1..3, pc : {"connecting", "reading", "over"}, broken : BOOLEAN]
      /\ stream'.provider = stream.provider /\ stream'.attempt = stream.attempt /\ stream'.pc = "over"
  BY <1>1, <1>2 DEF Streams!TypeOK
<1>7. Streams!Format' = F
  BY <1>6 DEF Streams!Format
<1>8. IsOver(reader)'
  BY <1>2, <1>5, <1>7 DEF IsOver, ReaderFits, YieldedBy, Completing, Streams!Ending
<1>9. Streams!TypeOK'
  BY <1>1, <1>2, <1>6, <1>8 DEF Streams!TypeOK, IsOver, ReaderFits
<1>10. NothingIsLeft'
  <2> SUFFICES ASSUME NEW j \in Streams!Heard'
               PROVE j <= reader'.taken \/ (Streams!Lines(F) /\ received < 4 * (j - 1) + 3)
    BY <1>2, <1>7 DEF NothingIsLeft, Streams!FrameBytes, Streams!Lines
  <2>1. j \in Nat /\ received >= 4 * (j - 1) + 2
    BY <1>1, <1>2 DEF Streams!Heard, Streams!Whole, Streams!FrameBytes, Streams!TypeOK
  <2>2. reader'.taken = IF Streams!Lines(F) THEN c ELSE w
    BY <1>2, <1>4, <1>5
  <2> HIDE DEF F
  <2>3. CASE Streams!Lines(F)
    <3>1. reader'.taken = c /\ received + 1 < 4 * (c + 1) /\ c \in Nat /\ received \in Nat
      BY <1>3, <2>2, <2>3
    <3> QED BY <2>1, <2>3, <3>1, FrameOfByte
  <2>4. CASE ~Streams!Lines(F)
    <3>1. reader'.taken = w /\ received + 2 < 4 * (w + 1) /\ w \in Nat /\ received \in Nat
      BY <1>3, <2>2, <2>4
    <3> QED BY <2>1, <3>1, FrameOfByte
  <2> QED BY <2>3, <2>4
<1> QED BY <1>6, <1>8, <1>9, <1>10 DEF StreamsInv

LEMMA ReadFailsStep ==
  ASSUME StreamsInv, Streams!ReadFails
  PROVE  StreamsInv'
<1>1. Streams!TypeOK /\ stream.pc = "reading" /\ UnderWay(reader) /\ MaxFrames \in Nat
  BY AnswersAssumption DEF StreamsInv, Streams!ReadFails
<1>2. stream' = [stream EXCEPT !.pc = "over", !.broken = TRUE] /\ reader' = Streams!Final(reader, "error")
      /\ wire' = wire /\ received' = received
  BY DEF Streams!ReadFails
<1>3. IsOver(Streams!Final(reader, "error"))
  BY <1>1, FinallyFits
<1>4. /\ stream' \in [provider : Streams!Providers, attempt : 1..3, pc : {"connecting", "reading", "over"}, broken : BOOLEAN]
      /\ stream'.provider = stream.provider /\ stream'.attempt = stream.attempt /\ stream'.pc = "over" /\ stream'.broken
  BY <1>1, <1>2 DEF Streams!TypeOK
<1>5. Streams!Format' = Streams!Format
  BY <1>4 DEF Streams!Format
<1>6. IsOver(reader)'
  BY <1>2, <1>3, <1>5 DEF IsOver, ReaderFits, YieldedBy, Completing, Streams!Ending
<1>7. Streams!TypeOK'
  BY <1>1, <1>2, <1>4, <1>6 DEF Streams!TypeOK, IsOver, ReaderFits
<1> QED BY <1>4, <1>6, <1>7 DEF StreamsInv

LEMMA StreamsSteps == StreamsInv /\ [Streams!Next]_streamVars => StreamsInv'
<1> SUFFICES ASSUME StreamsInv, [Streams!Next]_streamVars PROVE StreamsInv'
  OBVIOUS
<1>1. CASE UNCHANGED streamVars
  <2>1. stream' = stream /\ wire' = wire /\ received' = received /\ reader' = reader
    BY <1>1 DEF streamVars
  <2>2. Streams!Format' = Streams!Format
    BY <2>1 DEF Streams!Format
  <2>3. UnderWay(reader)' <=> UnderWay(reader)
    BY <2>1, <2>2 DEF UnderWay, ReaderFits, YieldedBy, Streams!Ending
  <2>4. IsOver(reader)' <=> IsOver(reader)
    BY <2>1, <2>2 DEF IsOver, ReaderFits, YieldedBy, Completing, Streams!Ending
  <2>5. Streams!TypeOK'
    BY <2>1 DEF StreamsInv, Streams!TypeOK
  <2>6. NothingIsLeft' <=> NothingIsLeft
    BY <2>1, <2>2 DEF NothingIsLeft, Streams!Heard, Streams!Whole, Streams!Lines, Streams!Ending
  <2> QED BY <2>1, <2>2, <2>3, <2>4, <2>5, <2>6 DEF StreamsInv, YieldedBy
<1>2. CASE Streams!Next
  BY <1>2, ConnectStep, ConnectedStep, ReadStep, TakeStep, CloseStep, ReadFailsStep DEF Streams!Next
<1> QED BY <1>1, <1>2

LEMMA StreamsAreTrue ==
  StreamsInv => Streams!TypeOK /\ Streams!TextsArePassedOn /\ Streams!EndsOnce /\ Streams!CompleteIsTrue
<1> SUFFICES ASSUME StreamsInv
             PROVE  Streams!TypeOK /\ Streams!TextsArePassedOn /\ Streams!EndsOnce /\ Streams!CompleteIsTrue
  OBVIOUS
<1>1. Streams!TypeOK /\ ReaderFits(reader) /\ reader.taken \in Nat /\ received \in Nat
  BY DEF StreamsInv, UnderWay, IsOver, ReaderFits, Streams!TypeOK, Streams!Reader
<1>2. \A type : Streams!Yielded(type) = YieldedBy(reader, type)
  BY DEF Streams!Yielded, YieldedBy
<1>3. 1..reader.taken \subseteq Streams!Heard
  <2> SUFFICES ASSUME NEW i \in 1..reader.taken PROVE i \in Streams!Heard
    OBVIOUS
  <2>1. i \in Streams!Whole
    BY <1>1 DEF ReaderFits, Streams!Whole, Streams!FrameBytes, Streams!TypeOK
  <2>2. \A j \in 1..(i - 1) : wire[j] \notin Streams!Ending(Streams!Format)
    <3>1. \A j \in 1..(i - 1) : j \in 1..(reader.taken - 1)
      BY <1>1
    <3> QED BY <1>1, <3>1 DEF ReaderFits
  <2> QED BY <2>1, <2>2 DEF Streams!Heard
<1>4. Streams!TextsArePassedOn
  <2> DEFINE T == YieldedBy(reader, "text_delta")  at == [i \in T |-> reader.events[i].at]
  <2>1. /\ \A i, j \in T : i < j => at[i] < at[j]
        /\ \A i \in T : wire[at[i]] = "text" /\ at[i] \in Streams!Heard
        /\ \A i \in 1..reader.taken : wire[i] = "text" => \E j \in T : at[j] = i
    BY <1>1, <1>3 DEF ReaderFits
  <2> HIDE DEF at, T
  <2>2. ASSUME stream.pc = "over", NEW i \in Streams!Heard, wire[i] = "text"
        PROVE  \/ \E j \in T : at[j] = i
               \/ stream.broken
               \/ Streams!Lines(Streams!Format) /\ received < Streams!FrameBytes * (i - 1) + 3
    <3>1. i \in Nat /\ i >= 1
      BY <1>1 DEF Streams!Heard, Streams!Whole, Streams!TypeOK
    <3>2. i <= reader.taken => i \in 1..reader.taken
      BY <1>1, <3>1
    <3> QED BY <2>1, <2>2, <3>2 DEF StreamsInv, NothingIsLeft
  <2> QED BY <1>2, <2>1, <2>2 DEF Streams!TextsArePassedOn, T, at
<1>5. CASE stream.pc # "over"
  <2>1. UnderWay(reader)
    BY <1>5 DEF StreamsInv
  <2>2. Streams!EndsOnce
    <3>1. Streams!Yielded("error") = {}
      BY <1>2, <2>1 DEF UnderWay
    <3>2. Streams!Yielded("message_end") # {} => Streams!Format = "anthropic"
      BY <1>2, <2>1 DEF UnderWay
    <3>3. Streams!OneAtMost(Streams!Yielded("message_end")) /\ Streams!OneAtMost(Streams!Yielded("error"))
      BY <1>2, <2>1, <3>1 DEF UnderWay, Streams!OneAtMost
    <3> QED BY <1>5, <3>1, <3>2, <3>3 DEF Streams!EndsOnce
  <2>3. Streams!CompleteIsTrue
    <3>1. Streams!Yielded("message_end") # {} => Streams!Format = "anthropic" /\ \E i \in 1..reader.taken : wire[i] = "finish"
      BY <1>2, <2>1 DEF UnderWay
    <3> QED BY <1>3, <3>1 DEF Streams!CompleteIsTrue
  <2> QED BY <1>1, <1>4, <2>2, <2>3
<1>6. CASE stream.pc = "over"
  <2>1. IsOver(reader)
    BY <1>6 DEF StreamsInv
  <2>2. Streams!EndsOnce
    BY <1>2, <2>1 DEF IsOver, Streams!EndsOnce
  <2>3. Streams!CompleteIsTrue
    <3>1. Streams!Yielded("message_end") # {} =>
            (Streams!Format = "google" /\ reader.sawText) \/ \E i \in 1..reader.taken : wire[i] \in Completing
      BY <1>2, <2>1 DEF IsOver
    <3> QED BY <1>3, <3>1 DEF Streams!CompleteIsTrue, Completing
  <2> QED BY <1>1, <1>4, <2>2, <2>3
<1> QED BY <1>5, <1>6

-----------------------------------------------------------------------------
(* The usage of an answer.                                                 *)



Fragments ==
  {"gpt-4o-mini", "gpt-4o", "gpt-4.1-mini", "gpt-4.1", "o3-mini", "claude-3-5-haiku", "claude-3-5-sonnet", "claude-3-7-sonnet",
   "claude-opus-4", "claude-sonnet-4", "sonar", "abab", "claude"}

Rows(P) == [provider : P, modelIncludes : Fragments, input : Nat, output : Nat, search : Nat]

\* Of one provider, a narrower name comes before the one that it includes.
Tabled(s, P) ==
  /\ s \in Seq(Rows(P))
  /\ \A i, j \in DOMAIN s :
       s[i].provider = s[j].provider =>
         /\ s[i].modelIncludes = "gpt-4o" /\ s[j].modelIncludes = "gpt-4o-mini" => j < i
         /\ s[i].modelIncludes = "gpt-4.1" /\ s[j].modelIncludes = "gpt-4.1-mini" => j < i
         /\ ~(s[i].modelIncludes = "claude" /\ s[j].modelIncludes = "claude-opus-4")

LEMMA TupleIs ==
  ASSUME NEW S, NEW n \in Nat, NEW s \in [1..n -> S]
  PROVE  s \in Seq(S) /\ Len(s) = n /\ DOMAIN s = 1..n
OBVIOUS

LEMMA SeqWidens ==
  ASSUME NEW S, NEW T, S \subseteq T, NEW s \in Seq(S)
  PROVE  s \in Seq(T)
<1>1. Len(s) \in Nat /\ s \in [1..Len(s) -> S]
  OBVIOUS
<1>2. s \in [1..Len(s) -> T]
  BY <1>1
<1> QED BY <1>1, <1>2, TupleIs

LEMMA TablesJoin ==
  ASSUME NEW P, NEW Q, P \cap Q = {}, NEW s, NEW t, Tabled(s, P), Tabled(t, Q)
  PROVE  Tabled(s \o t, P \cup Q)
<1> DEFINE r == s \o t  n == Len(s)  m == Len(t)
<1>1. s \in Seq(Rows(P)) /\ t \in Seq(Rows(Q)) /\ Rows(P) \subseteq Rows(P \cup Q) /\ Rows(Q) \subseteq Rows(P \cup Q)
  BY DEF Tabled, Rows
<1>2. n \in Nat /\ m \in Nat /\ DOMAIN s = 1..n /\ DOMAIN t = 1..m
      /\ (\A i \in 1..n : s[i] \in Rows(P)) /\ (\A i \in 1..m : t[i] \in Rows(Q))
  BY <1>1
<1>3. r \in Seq(Rows(P \cup Q)) /\ DOMAIN r = 1..(n + m)
      /\ (\A i \in 1..n : r[i] = s[i]) /\ (\A i \in (n + 1)..(n + m) : i - n \in 1..m /\ r[i] = t[i - n])
  <2> DEFINE R == Rows(P \cup Q)
  <2>1. s \in Seq(R) /\ t \in Seq(R)
    BY <1>1, SeqWidens
  <2> HIDE DEF R
  <2>2. r \in Seq(R) /\ Len(r) = n + m /\ \A i \in 1..(n + m) : r[i] = IF i <= n THEN s[i] ELSE t[i - n]
    BY <2>1, ConcatProperties
  <2>3. DOMAIN r = 1..(n + m)
    BY <1>2, <2>2
  <2>4. r \in Seq(Rows(P \cup Q))
    BY <2>2 DEF R
  <2>5. n \in Nat /\ m \in Nat
    BY <1>2
  <2> HIDE DEF r, n, m
  <2>6. \A i \in 1..n : r[i] = s[i]
    BY <2>2, <2>5
  <2>7. \A i \in (n + 1)..(n + m) : i - n \in 1..m /\ r[i] = t[i - n]
    BY <2>2, <2>5
  <2> QED BY <2>3, <2>4, <2>6, <2>7
<1>4. \A i \in 1..(n + m) : i \in 1..n \/ i \in (n + 1)..(n + m)
  BY <1>2
<1> HIDE DEF r
<1>5. (\A i \in 1..n : s[i].provider \in P) /\ (\A i \in 1..m : t[i].provider \in Q)
  BY <1>2 DEF Rows
<1>6. ASSUME NEW i \in 1..(n + m), NEW j \in 1..(n + m), r[i].provider = r[j].provider
      PROVE  /\ r[i].modelIncludes = "gpt-4o" /\ r[j].modelIncludes = "gpt-4o-mini" => j < i
             /\ r[i].modelIncludes = "gpt-4.1" /\ r[j].modelIncludes = "gpt-4.1-mini" => j < i
             /\ ~(r[i].modelIncludes = "claude" /\ r[j].modelIncludes = "claude-opus-4")
  <2>1. CASE i \in 1..n /\ j \in 1..n
    BY <1>2, <1>3, <2>1, <1>6 DEF Tabled
  <2>2. CASE i \in (n + 1)..(n + m) /\ j \in (n + 1)..(n + m)
    <3>1. i - n \in 1..m /\ j - n \in 1..m /\ r[i] = t[i - n] /\ r[j] = t[j - n]
      BY <1>3, <2>2
    <3>2. n \in Int /\ i \in Int /\ j \in Int
      BY <1>2
    <3> HIDE DEF n, m
    <3>3. j - n < i - n => j < i
      BY <3>2
    <3> QED BY <1>2, <3>1, <3>3, <1>6 DEF Tabled
  <2>3. CASE i \in 1..n /\ j \in (n + 1)..(n + m)
    BY <1>3, <1>5, <1>6, <2>3
  <2>4. CASE j \in 1..n /\ i \in (n + 1)..(n + m)
    BY <1>3, <1>5, <1>6, <2>4
  <2> QED BY <1>4, <2>1, <2>2, <2>3, <2>4
<1> QED BY <1>3, <1>6 DEF Tabled, r

\* Prices for one provider, from names that are apart or in their order.
NamesFit(list) ==
  \A i, j \in DOMAIN list :
    /\ list[i][1] = "gpt-4o" /\ list[j][1] = "gpt-4o-mini" => j < i
    /\ list[i][1] = "gpt-4.1" /\ list[j][1] = "gpt-4.1-mini" => j < i
    /\ ~(list[i][1] = "claude" /\ list[j][1] = "claude-opus-4")

LEMMA PricesOfIs ==
  ASSUME NEW p, NEW list \in Seq(Fragments \X Nat \X Nat), NamesFit(list)
  PROVE  Tabled(Accounting!PricesOf(p, list), {p})
<1> DEFINE n == Len(list)
           s == Accounting!PricesOf(p, list)
<1>1. n \in Nat /\ DOMAIN list = 1..n /\ \A i \in 1..n : list[i] \in Fragments \X Nat \X Nat
  OBVIOUS
<1>2. s = [i \in 1..n |-> Accounting!Price(p, list[i][1], list[i][2], list[i][3])]
  BY <1>1 DEF Accounting!PricesOf
<1>3. \A i \in 1..n : Accounting!Price(p, list[i][1], list[i][2], list[i][3]) \in Rows({p})
  BY <1>1 DEF Accounting!Price, Rows
<1>4. \A i \in 1..n : Accounting!Price(p, list[i][1], list[i][2], list[i][3]).modelIncludes = list[i][1]
  BY DEF Accounting!Price
<1> HIDE DEF s
<1>5. s \in [1..n -> Rows({p})]
  BY <1>2, <1>3
<1>6. s \in Seq(Rows({p})) /\ DOMAIN s = 1..n
  BY <1>1, <1>5, TupleIs
<1>7. \A i \in 1..n : s[i].modelIncludes = list[i][1]
  BY <1>2, <1>4
<1>8. NamesFit(list)
  OBVIOUS
<1> QED BY <1>1, <1>6, <1>7, <1>8 DEF Tabled, NamesFit, s

LEMMA PricesTabled == Tabled(Accounting!Prices, {"openai-compatible", "azure-openai", "anthropic", "perplexity", "minimax", "any"})
<1> DEFINE T == Fragments \X Nat \X Nat
           az == Accounting!OpenAiPrices
           oa == Append(az, <<"o3-mini", 110, 440>>)
           an == <<<<"claude-3-5-haiku", 80, 400>>, <<"claude-3-5-sonnet", 300, 1500>>,
                   <<"claude-3-7-sonnet", 300, 1500>>, <<"claude-opus-4", 1500, 7500>>,
                   <<"claude-sonnet-4", 300, 1500>>>>
           ot == <<[Accounting!Price("perplexity", "sonar", 100, 100) EXCEPT !.search = 500000],
                   Accounting!Price("minimax", "abab", 20, 110)>>
           any == <<<<"gpt-4o-mini", 15, 60>>, <<"gpt-4o", 250, 1000>>, <<"claude", 300, 1500>>>>
<1>1. az \in Seq(T) /\ NamesFit(az) /\ Len(az) = 4
  <2>1. az = <<<<"gpt-4o-mini", 15, 60>>, <<"gpt-4o", 250, 1000>>, <<"gpt-4.1-mini", 40, 160>>, <<"gpt-4.1", 200, 800>>>>
    BY SMT DEF Accounting!OpenAiPrices
  <2>a. /\ <<"gpt-4o-mini", 15, 60>> \in T /\ <<"gpt-4o", 250, 1000>> \in T
        /\ <<"gpt-4.1-mini", 40, 160>> \in T /\ <<"gpt-4.1", 200, 800>> \in T
    BY SMT DEF Fragments
  <2>b. \A S : \A a, b, c, d \in S : <<a, b, c, d>> \in Seq(S)
    OBVIOUS
  <2>2a. az \in Seq(T)
    <3> HIDE DEF T
    <3> QED BY <2>1, <2>a, <2>b, SMT
  <2>2. Len(az) = 4 /\ DOMAIN az = 1..4 /\ az[1][1] = "gpt-4o-mini" /\ az[2][1] = "gpt-4o" /\ az[3][1] = "gpt-4.1-mini" /\ az[4][1] = "gpt-4.1"
    BY <2>1, SMT
  <2>3. \A i \in 1..4 : i = 1 \/ i = 2 \/ i = 3 \/ i = 4
    OBVIOUS
  <2> HIDE DEF az
  <2>4. /\ \A i \in 1..4 : az[i][1] = "gpt-4o" => i = 2
        /\ \A i \in 1..4 : az[i][1] = "gpt-4o-mini" => i = 1
        /\ \A i \in 1..4 : az[i][1] = "gpt-4.1" => i = 4
        /\ \A i \in 1..4 : az[i][1] = "gpt-4.1-mini" => i = 3
        /\ \A i \in 1..4 : az[i][1] # "claude"
    BY <2>2, <2>3
  <2> QED BY <2>2, <2>2a, <2>4 DEF NamesFit
<1>2. oa \in Seq(T) /\ NamesFit(oa)
  <2> DEFINE x == <<"o3-mini", 110, 440>>  n == 4  m == 5
  <2>1. x \in T /\ x[1] = "o3-mini" /\ n \in Nat /\ m \in Nat /\ m = n + 1
    BY SMT DEF Fragments
  <2>2. oa = Append(az, x)
    BY SMT
  <2>3. \A i \in 1..m : i \in 1..n \/ i = m
    OBVIOUS
  <2>4. Len(az) = n
    BY <1>1
  <2> HIDE DEF x, n, m, oa, az, T
  <2>5. oa \in Seq(T) /\ DOMAIN oa = 1..m /\ (\A i \in 1..n : oa[i] = az[i]) /\ oa[m] = x
    BY <1>1, <2>1, <2>2, <2>4, Appended
  <2>6. DOMAIN az = 1..n
    BY <1>1, <2>4
  <2> QED BY <1>1, <2>1, <2>3, <2>5, <2>6 DEF NamesFit
<1>3. an \in Seq(T) /\ NamesFit(an)
  <2>1. an \in Seq(T) /\ DOMAIN an = 1..5 /\ an[1][1] = "claude-3-5-haiku" /\ an[2][1] = "claude-3-5-sonnet" /\ an[3][1] = "claude-3-7-sonnet"
        /\ an[4][1] = "claude-opus-4" /\ an[5][1] = "claude-sonnet-4"
    BY SMT DEF Fragments
  <2> HIDE DEF an
  <2> QED BY <2>1 DEF NamesFit
<1>4. Tabled(ot, {"perplexity", "minimax"})
  <2>1. ot \in Seq(Rows({"perplexity", "minimax"})) /\ DOMAIN ot = 1..2 /\ ot[1].modelIncludes = "sonar" /\ ot[2].modelIncludes = "abab"
    BY SMT DEF Accounting!Price, Rows, Fragments
  <2> HIDE DEF ot
  <2> QED BY <2>1 DEF Tabled
<1>5. any \in Seq(T) /\ NamesFit(any)
  <2>1. any \in Seq(T) /\ DOMAIN any = 1..3 /\ any[1][1] = "gpt-4o-mini" /\ any[2][1] = "gpt-4o" /\ any[3][1] = "claude"
    BY SMT DEF Fragments
  <2> HIDE DEF any
  <2> QED BY <2>1 DEF NamesFit
<1>6. Accounting!Prices = (((Accounting!PricesOf("openai-compatible", oa) \o Accounting!PricesOf("azure-openai", az))
                               \o Accounting!PricesOf("anthropic", an)) \o ot) \o Accounting!PricesOf("any", any)
  BY SMT DEF Accounting!Prices
<1> HIDE DEF az, oa, an, ot, any
<1>7. Tabled(Accounting!PricesOf("openai-compatible", oa) \o Accounting!PricesOf("azure-openai", az), {"openai-compatible"} \cup {"azure-openai"})
  BY <1>1, <1>2, PricesOfIs, TablesJoin
<1>8. Tabled((Accounting!PricesOf("openai-compatible", oa) \o Accounting!PricesOf("azure-openai", az))
                               \o Accounting!PricesOf("anthropic", an), ({"openai-compatible"} \cup {"azure-openai"}) \cup {"anthropic"})
  <2>1. Tabled(Accounting!PricesOf("anthropic", an), {"anthropic"})
    BY <1>3, PricesOfIs
  <2> QED BY <1>7, <2>1, TablesJoin
<1>9. Tabled(((Accounting!PricesOf("openai-compatible", oa) \o Accounting!PricesOf("azure-openai", az))
                               \o Accounting!PricesOf("anthropic", an)) \o ot,
             (({"openai-compatible"} \cup {"azure-openai"}) \cup {"anthropic"}) \cup {"perplexity", "minimax"})
  BY <1>8, <1>4, TablesJoin
<1>10. Tabled((((Accounting!PricesOf("openai-compatible", oa) \o Accounting!PricesOf("azure-openai", az))
                               \o Accounting!PricesOf("anthropic", an)) \o ot) \o Accounting!PricesOf("any", any),
             ((({"openai-compatible"} \cup {"azure-openai"}) \cup {"anthropic"}) \cup {"perplexity", "minimax"}) \cup {"any"})
  <2>1. Tabled(Accounting!PricesOf("any", any), {"any"})
    BY <1>5, PricesOfIs
  <2> QED BY <1>9, <2>1, TablesJoin
<1>11. ((({"openai-compatible"} \cup {"azure-openai"}) \cup {"anthropic"}) \cup {"perplexity", "minimax"}) \cup {"any"}
        = {"openai-compatible", "azure-openai", "anthropic", "perplexity", "minimax", "any"}
  OBVIOUS
<1> QED BY <1>6, <1>10, <1>11

LEMMA IncludedIs ==
  /\ Accounting!Included["gpt-4o"] = {"gpt-4o"} /\ Accounting!Included["gpt-4.1"] = {"gpt-4.1"}
  /\ Accounting!Included["claude-2"] = {"claude"} /\ {"gpt-4o", "gpt-4.1", "claude-2"} \subseteq Accounting!Models
  /\ \A m \in Accounting!Models :
       \/ Accounting!Included[m] = {"gpt-4o-mini", "gpt-4o"}
       \/ Accounting!Included[m] = {"gpt-4.1-mini", "gpt-4.1"}
       \/ Accounting!Included[m] = {"claude-opus-4", "claude"}
       \/ \A f, g \in Accounting!Included[m] : f = g
BY DEF Accounting!Included, Accounting!Models

\* The first entry of a provider that fits a model has the narrowest of the names that fit.
LEMMA FirstIsClosest ==
  ASSUME NEW p, NEW m \in Accounting!Models, NEW i \in Accounting!Matching(p, m), NEW k \in Accounting!Matching(p, m), i <= k,
         Accounting!Within(Accounting!Prices[i].modelIncludes, Accounting!Prices[k].modelIncludes)
  PROVE  Accounting!Prices[k].modelIncludes = Accounting!Prices[i].modelIncludes
<1> DEFINE f == Accounting!Prices[i].modelIncludes  g == Accounting!Prices[k].modelIncludes
<1>1. /\ i \in DOMAIN Accounting!Prices /\ k \in DOMAIN Accounting!Prices
      /\ f \in Accounting!Included[m] /\ g \in Accounting!Included[m]
      /\ Accounting!Prices[i].provider = Accounting!Prices[k].provider
  BY DEF Accounting!Matching
<1>2. i \in Nat /\ k \in Nat /\ ~(k < i)
  BY <1>1, PricesTabled DEF Tabled
<1>3. ~(f = "gpt-4o" /\ g = "gpt-4o-mini") /\ ~(f = "gpt-4.1" /\ g = "gpt-4.1-mini") /\ ~(f = "claude" /\ g = "claude-opus-4")
  BY <1>1, <1>2, PricesTabled DEF Tabled
<1>4. \A n \in Accounting!Models : g \in Accounting!Included[n] => f \in Accounting!Included[n]
  BY DEF Accounting!Within
<1> HIDE DEF f, g
<1>5. ~(g = "gpt-4o" /\ f = "gpt-4o-mini") /\ ~(g = "gpt-4.1" /\ f = "gpt-4.1-mini") /\ ~(g = "claude" /\ f = "claude-opus-4")
  BY <1>4, IncludedIs
<1>6. f = g
  BY <1>1, <1>3, <1>5, IncludedIs
<1> QED BY <1>6 DEF f, g

LEMMA PriceIs ==
  ASSUME NEW p \in Accounting!Providers, NEW m \in Accounting!Models
  PROVE  LET price == Accounting!PriceFor(p, m) IN
         IF Accounting!Matching(p, m) \cup Accounting!Matching("any", m) = {} THEN price = Accounting!NoPrice
         ELSE /\ price # Accounting!NoPrice /\ price.input \in Nat /\ price.output \in Nat /\ price.search \in Nat
              /\ price.provider = IF Accounting!Matching(p, m) # {} THEN p ELSE "any"
              /\ \A k \in Accounting!Matching(price.provider, m) :
                   Accounting!Within(price.modelIncludes, Accounting!Prices[k].modelIncludes) =>
                     Accounting!Prices[k].modelIncludes = price.modelIncludes
<1> DEFINE price == Accounting!PriceFor(p, m)
           q == IF Accounting!Matching(p, m) # {} THEN p ELSE "any"
           S == Accounting!Matching(q, m)
<1>1. CASE Accounting!Matching(p, m) \cup Accounting!Matching("any", m) = {}
  BY <1>1 DEF Accounting!PriceFor
<1>2. CASE Accounting!Matching(p, m) \cup Accounting!Matching("any", m) # {}
  <2>1. S # {} /\ price = Accounting!FirstOf(S)
    BY <1>2 DEF Accounting!PriceFor
  <2>2. S \subseteq DOMAIN Accounting!Prices /\ \A i \in S : Accounting!Prices[i].provider = q
    BY DEF Accounting!Matching
  <2>3. DOMAIN Accounting!Prices \subseteq Nat
        /\ \A i \in DOMAIN Accounting!Prices :
             Accounting!Prices[i] \in Rows({"openai-compatible", "azure-openai", "anthropic", "perplexity", "minimax", "any"})
    BY PricesTabled DEF Tabled
  <2>4. \E i \in S : \A j \in S : i <= j
    <3>1. S \in SUBSET Nat
      BY <2>2, <2>3
    <3> HIDE DEF S
    <3> QED BY <2>1, <3>1, LeastOf
  <2>5. PICK i \in S : price = Accounting!Prices[i] /\ \A j \in S : i <= j
    BY <2>1, <2>4 DEF Accounting!FirstOf
  <2>6. price \in Rows({"openai-compatible", "azure-openai", "anthropic", "perplexity", "minimax", "any"}) /\ price.provider = q
    BY <2>2, <2>3, <2>5
  <2>7. price # Accounting!NoPrice /\ price.input \in Nat /\ price.output \in Nat /\ price.search \in Nat
    BY <2>6 DEF Rows, Accounting!NoPrice
  <2>8. ASSUME NEW k \in S, Accounting!Within(price.modelIncludes, Accounting!Prices[k].modelIncludes)
        PROVE Accounting!Prices[k].modelIncludes = price.modelIncludes
    <3>1. i <= k /\ i \in Accounting!Matching(q, m) /\ k \in Accounting!Matching(q, m)
      BY <2>5
    <3> HIDE DEF S, q, price
    <3> QED BY <2>5, <2>8, <3>1, FirstIsClosest
  <2> QED BY <1>2, <2>6, <2>7, <2>8
<1> QED BY <1>1, <1>2

\* The merged usage has, of every figure, the last that was reported.
UsageFits ==
  \A f \in Accounting!Fields :
    \/ Accounting!Said(f) = {} /\ usage[f] = Absent
    \/ \E i \in Accounting!Said(f) : (\A j \in Accounting!Said(f) : j <= i) /\ usage[f] = told[i][f]

AccountingInv ==
  Accounting!TypeOK /\ UsageFits /\ Accounting!FiguresAreTheProviders /\ Accounting!PriceIsClosest

LEMMA AccountingBegins == Accounting!Init => AccountingInv
<1> SUFFICES ASSUME Accounting!Init PROVE AccountingInv
  OBVIOUS
<1>1. told = <<>> /\ usage = Accounting!NoUsage /\ record = Accounting!NoRecord /\ vendor \in Accounting!Providers /\ model \in Accounting!Models
  BY DEF Accounting!Init
<1>2. Accounting!TypeOK
  BY <1>1, AnswersAssumption DEF Accounting!TypeOK, Accounting!NoUsage
<1>3. UsageFits
  BY <1>1 DEF UsageFits, Accounting!Said, Accounting!NoUsage
<1>4. Accounting!FiguresAreTheProviders /\ Accounting!PriceIsClosest
  BY <1>1 DEF Accounting!FiguresAreTheProviders, Accounting!PriceIsClosest
<1> QED BY <1>2, <1>3, <1>4 DEF AccountingInv

LEMMA ReportStep == ASSUME AccountingInv, NEW fields \in SUBSET Accounting!Fields, Accounting!Report(fields) PROVE AccountingInv'
<1> DEFINE n == Len(told)  m == n + 1
           V == (0..MaxReports) \cup {Absent}
           next == [f \in Accounting!Fields |-> IF f \in fields THEN n ELSE Absent]
<1>1. /\ told \in Seq([Accounting!Fields -> V]) /\ n \in Nat /\ m \in Nat /\ n < MaxReports /\ MaxReports \in Nat /\ DOMAIN told = 1..n
      /\ usage \in [Accounting!Fields -> V] /\ Absent \notin Nat
  BY AnswersAssumption DEF AccountingInv, Accounting!TypeOK, Accounting!Report
<1>2. /\ record = Accounting!NoRecord /\ told' = Append(told, next)
      /\ usage' = [f \in Accounting!Fields |-> IF next[f] = Absent THEN usage[f] ELSE next[f]]
      /\ vendor' = vendor /\ model' = model /\ record' = record
  BY DEF Accounting!Report, Accounting!MergeUsage
<1>3. next \in [Accounting!Fields -> V]
  BY <1>1
<1>4. \A f \in Accounting!Fields : next[f] = IF f \in fields THEN n ELSE Absent
  OBVIOUS
<1>5. usage' \in [Accounting!Fields -> V] /\ \A f \in Accounting!Fields : usage'[f] = IF f \in fields THEN n ELSE usage[f]
  BY <1>1, <1>2, <1>4
<1> HIDE DEF next, V
<1>6. told' \in Seq([Accounting!Fields -> V]) /\ Len(told') = m /\ DOMAIN told' = 1..m /\ (\A i \in 1..n : told'[i] = told[i]) /\ told'[m] = next
  BY <1>1, <1>2, <1>3, Appended
<1>7. Accounting!TypeOK'
  BY <1>1, <1>2, <1>5, <1>6 DEF Accounting!TypeOK, AccountingInv, V
<1>8. ASSUME NEW f \in Accounting!Fields
      PROVE (\/ Accounting!Said(f) = {} /\ usage[f] = Absent
             \/ \E i \in Accounting!Said(f) : (\A j \in Accounting!Said(f) : j <= i) /\ usage[f] = told[i][f])'
  <2>1. Accounting!Said(f) = {i \in 1..n : told[i][f] # Absent}
    BY <1>1 DEF Accounting!Said
  <2>2. Accounting!Said(f)' = {i \in 1..m : told'[i][f] # Absent}
    BY <1>6 DEF Accounting!Said
  <2>3. CASE f \in fields
    <3>1. told'[m][f] = n /\ usage'[f] = n /\ n # Absent
      BY <1>1, <1>4, <1>5, <1>6, <2>3
    <3>2. m \in Accounting!Said(f)' /\ \A j \in Accounting!Said(f)' : j <= m
      BY <1>1, <2>2, <3>1
    <3> QED BY <3>1, <3>2
  <2>4. CASE f \notin fields
    <3>1. Accounting!Said(f)' = Accounting!Said(f)
      <4>1. told'[m][f] = Absent
        BY <1>4, <1>6, <2>4
      <4>2. \A i \in 1..m : i \in 1..n \/ i = m
        BY <1>1
      <4>3. 1..n \subseteq 1..m
        BY <1>1
      <4> HIDE DEF n, m
      <4> QED BY <1>6, <2>1, <2>2, <4>1, <4>2, <4>3
    <3>2. usage'[f] = usage[f]
      BY <1>5, <2>4
    <3>3. \A i \in Accounting!Said(f) : told'[i][f] = told[i][f]
      BY <1>6, <2>1
    <3> QED BY <3>1, <3>2, <3>3 DEF AccountingInv, UsageFits
  <2> QED BY <2>3, <2>4
<1>9. (Accounting!FiguresAreTheProviders /\ Accounting!PriceIsClosest)'
  BY <1>2 DEF Accounting!FiguresAreTheProviders, Accounting!PriceIsClosest
<1>10. UsageFits'
  BY <1>8 DEF UsageFits
<1> QED BY <1>7, <1>9, <1>10 DEF AccountingInv

LEMMA RecordStep ==
  ASSUME AccountingInv, NEW inputLength \in Lengths, NEW outputLength \in Lengths \ {0},
         Accounting!RecordUsage(inputLength, outputLength)
  PROVE  AccountingInv'
<1> DEFINE F == Accounting!Fields
           default(f) == Accounting!Default(f, inputLength, outputLength)
           figures == [f \in F |-> IF usage[f] = Absent THEN default(f) ELSE usage[f]]
           sources == [f \in F |-> IF usage[f] = Absent THEN Accounting!DefaultSource(f) ELSE "provider"]
           estimated == \E f \in F : sources[f] \in {"estimated", "provider_default"}
           price == Accounting!PriceFor(vendor, model)
<1>1. /\ usage \in [F -> (0..MaxReports) \cup {Absent}] /\ Absent \notin Nat /\ MaxReports \in Nat
      /\ vendor \in Accounting!Providers /\ model \in Accounting!Models
  BY AnswersAssumption DEF AccountingInv, Accounting!TypeOK
<1>2. /\ record = Accounting!NoRecord /\ vendor' = vendor /\ model' = model /\ told' = told /\ usage' = usage
      /\ record'.figures = figures /\ record'.sources = sources /\ record'.estimated = estimated
      /\ record'.price = price /\ record'.cost = Accounting!Cost(figures, price)
  BY DEF Accounting!RecordUsage
<1>3. inputLength \in Nat /\ outputLength \in Nat
  BY AnswersAssumption
<1>4. \A f \in F : default(f) \in Nat
  <2>1. Accounting!EstimateTokens(inputLength) \in Nat /\ Accounting!EstimateTokens(outputLength) \in Nat
    BY <1>3 DEF Accounting!EstimateTokens
  <2> QED BY <2>1 DEF Accounting!Default, Accounting!Fields
<1>5. figures \in [F -> Nat]
  BY <1>1, <1>4
<1>6. \A f \in F : /\ figures[f] = (IF usage[f] = Absent THEN default(f) ELSE usage[f])
                   /\ sources[f] = (IF usage[f] = Absent THEN Accounting!DefaultSource(f) ELSE "provider")
  OBVIOUS
<1>7. \A f \in F : /\ Accounting!Said(f) = {} => usage[f] = Absent
                   /\ Accounting!Said(f) # {} =>
                        usage[f] # Absent /\ usage[f] = told[CHOOSE i \in Accounting!Said(f) : \A j \in Accounting!Said(f) : j <= i][f]
  <2> SUFFICES ASSUME NEW f \in F, Accounting!Said(f) # {}
               PROVE usage[f] # Absent /\ usage[f] = told[CHOOSE i \in Accounting!Said(f) : \A j \in Accounting!Said(f) : j <= i][f]
    BY DEF AccountingInv, UsageFits
  <2> DEFINE S == Accounting!Said(f)
  <2>1. PICK i \in S : (\A j \in S : j <= i) /\ usage[f] = told[i][f]
    BY DEF AccountingInv, UsageFits
  <2>2. S \subseteq Nat /\ \A j \in S : told[j][f] # Absent
    <3>1. told \in Seq([F -> (0..MaxReports) \cup {Absent}])
      BY DEF AccountingInv, Accounting!TypeOK
    <3> QED BY <3>1 DEF Accounting!Said
  <2> HIDE DEF S
  <2>3. i = CHOOSE i2 \in S : \A j \in S : j <= i2
    <3>1. \A k \in S : (\A j \in S : j <= k) => k = i
      BY <2>1, <2>2
    <3> QED BY <2>1, <3>1
  <2> QED BY <2>1, <2>2, <2>3 DEF S
<1> HIDE DEF figures, sources, estimated, default, price
<1>8. Accounting!Cost(figures, price) = Absent <=> Accounting!Matching(vendor, model) \cup Accounting!Matching("any", model) = {}
  <2>1. CASE Accounting!Matching(vendor, model) \cup Accounting!Matching("any", model) = {}
    BY <1>1, <2>1, PriceIs DEF price, Accounting!Cost
  <2>2. CASE Accounting!Matching(vendor, model) \cup Accounting!Matching("any", model) # {}
    <3>1. price # Accounting!NoPrice /\ price.input \in Nat /\ price.output \in Nat /\ price.search \in Nat
      BY <1>1, <2>2, PriceIs DEF price
    <3>2. figures["inputTokens"] \in Nat /\ figures["outputTokens"] \in Nat /\ figures["reasoningTokens"] \in Nat /\ figures["searchQueries"] \in Nat
      BY <1>5 DEF Accounting!Fields
    <3>3. figures["outputTokens"] + figures["reasoningTokens"] \in Nat
      BY <3>2
    <3>4. /\ figures["inputTokens"] * price.input \in Nat
          /\ (figures["outputTokens"] + figures["reasoningTokens"]) * price.output \in Nat
          /\ figures["searchQueries"] * price.search \in Nat
      BY <3>1, <3>2, <3>3, NatProduct
    <3>5. Accounting!Cost(figures, price) \in Nat
      BY <3>1, <3>4 DEF Accounting!Cost
    <3> QED BY <1>1, <2>2, <3>5
  <2> QED BY <2>1, <2>2
<1>9. Accounting!Cost(figures, price) \in Nat \cup {Absent}
  <2>1. CASE price = Accounting!NoPrice
    BY <2>1 DEF Accounting!Cost
  <2>2. CASE price # Accounting!NoPrice
    <3>1. price.input \in Nat /\ price.output \in Nat /\ price.search \in Nat
      BY <1>1, <2>2, PriceIs DEF price
    <3>2. figures["inputTokens"] \in Nat /\ figures["outputTokens"] \in Nat /\ figures["reasoningTokens"] \in Nat /\ figures["searchQueries"] \in Nat
      BY <1>5 DEF Accounting!Fields
    <3>3. figures["outputTokens"] + figures["reasoningTokens"] \in Nat
      BY <3>2
    <3>4. /\ figures["inputTokens"] * price.input \in Nat
          /\ (figures["outputTokens"] + figures["reasoningTokens"]) * price.output \in Nat
          /\ figures["searchQueries"] * price.search \in Nat
      BY <3>1, <3>2, <3>3, NatProduct
    <3> QED BY <2>2, <3>4 DEF Accounting!Cost
  <2> QED BY <2>1, <2>2
<1>10. Accounting!TypeOK'
  BY <1>2, <1>5, <1>9 DEF AccountingInv, Accounting!TypeOK
<1>11. UsageFits'
  BY <1>2 DEF AccountingInv, UsageFits, Accounting!Said
<1>12. \A f \in F : Accounting!Said(f)' = Accounting!Said(f)
  BY <1>2 DEF Accounting!Said
<1>13. Accounting!FiguresAreTheProviders'
  <2>1. \A f \in F : usage[f] = Absent => sources[f] # "provider"
    BY <1>6 DEF Accounting!DefaultSource
  <2>2. ~estimated <=> {"inputTokens", "outputTokens"} \subseteq {f \in F : Accounting!Said(f) # {}}
                         /\ (vendor = "perplexity" => Accounting!Said("searchQueries") # {})
    <3>1. \A f \in F : sources[f] \in {"estimated", "provider_default"} <=>
            Accounting!Said(f) = {} /\ (f \in {"inputTokens", "outputTokens"} \/ (f = "searchQueries" /\ vendor = "perplexity"))
      <4>1. \A f \in F : Accounting!Said(f) = {} <=> usage[f] = Absent
        BY <1>7
      <4> QED BY <4>1, <1>6 DEF Accounting!DefaultSource
    <3>2. {"inputTokens", "outputTokens", "searchQueries"} \subseteq F
      BY DEF Accounting!Fields
    <3> QED BY <3>1, <3>2 DEF estimated
  <2>3. \A f \in F : IF Accounting!Said(f) = {} THEN sources[f] # "provider"
                     ELSE LET last == CHOOSE i \in Accounting!Said(f) : \A j \in Accounting!Said(f) : j <= i
                          IN  figures[f] = told[last][f] /\ sources[f] = "provider"
    BY <1>6, <1>7, <2>1
  <2>4. ASSUME NEW f \in F
        PROVE IF Accounting!Said(f)' = {} THEN record'.sources[f] # "provider"
              ELSE LET last == CHOOSE i \in Accounting!Said(f)' : \A j \in Accounting!Said(f)' : j <= i
                   IN  record'.figures[f] = told'[last][f] /\ record'.sources[f] = "provider"
    <3>1. Accounting!Said(f)' = Accounting!Said(f) /\ told' = told /\ record'.figures = figures /\ record'.sources = sources
      BY <1>2, <1>12
    <3> QED BY <2>3, <3>1
  <2>5. ~record'.estimated <=> {"inputTokens", "outputTokens"} \subseteq {f \in F : Accounting!Said(f)' # {}}
                                 /\ (vendor' = "perplexity" => Accounting!Said("searchQueries")' # {})
    <3>1. record'.estimated = estimated /\ vendor' = vendor /\ Accounting!Said("searchQueries")' = Accounting!Said("searchQueries")
      BY <1>2, <1>12 DEF Accounting!Fields
    <3>2. {f \in F : Accounting!Said(f)' # {}} = {f \in F : Accounting!Said(f) # {}}
      BY <1>12
    <3> QED BY <2>2, <3>1, <3>2
  <2> QED BY <2>4, <2>5 DEF Accounting!FiguresAreTheProviders
<1>14. Accounting!PriceIsClosest'
  <2>1. record'.cost = Absent <=> Accounting!Matching(vendor, model) \cup Accounting!Matching("any", model) = {}
    BY <1>2, <1>8
  <2>2. ASSUME record'.cost # Absent
        PROVE  /\ price.provider = IF Accounting!Matching(vendor, model) # {} THEN vendor ELSE "any"
               /\ \A i \in Accounting!Matching(price.provider, model) :
                    Accounting!Within(price.modelIncludes, Accounting!Prices[i].modelIncludes) =>
                      Accounting!Prices[i].modelIncludes = price.modelIncludes
    BY <1>1, <2>1, <2>2, PriceIs DEF price
  <2> QED BY <1>2, <2>1, <2>2 DEF Accounting!PriceIsClosest
<1> QED BY <1>10, <1>11, <1>13, <1>14 DEF AccountingInv

LEMMA AccountingSteps == AccountingInv /\ [Accounting!Next]_usageVars => AccountingInv'
<1> SUFFICES ASSUME AccountingInv, [Accounting!Next]_usageVars PROVE AccountingInv'
  OBVIOUS
<1>1. CASE UNCHANGED usageVars
  <2>1. vendor' = vendor /\ model' = model /\ told' = told /\ usage' = usage /\ record' = record
    BY <1>1 DEF usageVars
  <2>2. Accounting!TypeOK'
    BY <2>1 DEF AccountingInv, Accounting!TypeOK
  <2>3. UsageFits' /\ Accounting!FiguresAreTheProviders'
    BY <2>1 DEF AccountingInv, UsageFits, Accounting!Said, Accounting!FiguresAreTheProviders
  <2>4. Accounting!PriceIsClosest'
    BY <2>1 DEF AccountingInv, Accounting!PriceIsClosest
  <2> QED BY <2>2, <2>3, <2>4 DEF AccountingInv
<1>2. CASE Accounting!Next
  BY <1>2, ReportStep, RecordStep DEF Accounting!Next
<1> QED BY <1>1, <1>2

-----------------------------------------------------------------------------
(* A listing of models.                                                    *)

Among(x, s) == \E i \in DOMAIN s : s[i] = x

\* The page that is asked for next is none of Google's so far, and not Anthropic's last.
NextIsNew ==
  listing.pc = "asking" =>
    /\ listing.vendor = "openai-style" => listing.asked = <<>>
    /\ listing.vendor = "google" => ~Among(listing.after, listing.asked)
    /\ listing.vendor = "anthropic" /\ Len(listing.asked) > 0 => listing.asked[Len(listing.asked)] # listing.after

CatalogInv == Catalog!TypeOK /\ NextIsNew /\ Catalog!PagesAreNew /\ Catalog!ListIsBounded

LEMMA CatalogBegins == Catalog!Init => CatalogInv
<1> SUFFICES ASSUME Catalog!Init PROVE CatalogInv
  OBVIOUS
<1>1. PICK v \in {"openai-style", "google", "anthropic"} :
        listing = [vendor |-> v, pc |-> "asking", after |-> Absent, asked |-> <<>>, models |-> <<>>]
  BY DEF Catalog!Init
<1>2. listing.vendor = v /\ listing.pc = "asking" /\ listing.after = Absent /\ listing.asked = <<>> /\ listing.models = <<>>
  BY <1>1
<1>3. Catalog!TypeOK
  BY <1>1 DEF Catalog!TypeOK
<1>4. NextIsNew /\ Catalog!PagesAreNew
  BY <1>2 DEF NextIsNew, Among, Catalog!PagesAreNew
<1>5. Catalog!ListIsBounded
  BY <1>2, AnswersAssumption DEF Catalog!ListIsBounded
<1> QED BY <1>3, <1>4, <1>5 DEF CatalogInv

\* The pages asked for, with the next one.
AskedFor == Append(listing.asked, listing.after)

LEMMA AskedIs ==
  ASSUME CatalogInv, listing.pc = "asking"
  PROVE  /\ AskedFor \in Seq(Tokens \cup {Absent}) /\ Len(AskedFor) = Len(listing.asked) + 1 /\ Len(listing.asked) \in Nat
         /\ AskedFor[Len(AskedFor)] = listing.after
         /\ \A i \in 1..Len(listing.asked) : AskedFor[i] = listing.asked[i]
         /\ listing.vendor = "google" => Unrepeated(AskedFor)
         /\ \A i \in 1..(Len(AskedFor) - 1) : AskedFor[i] # AskedFor[i + 1]
<1> DEFINE s == listing.asked  n == Len(s)  m == n + 1
<1>1. s \in Seq(Tokens \cup {Absent}) /\ listing.after \in Tokens \cup {Absent} /\ n \in Nat /\ m \in Nat /\ DOMAIN s = 1..n
      /\ listing.vendor \in {"openai-style", "google", "anthropic"}
  BY DEF CatalogInv, Catalog!TypeOK
<1>2. /\ AskedFor \in Seq(Tokens \cup {Absent}) /\ Len(AskedFor) = m /\ DOMAIN AskedFor = 1..m
      /\ (\A i \in 1..n : AskedFor[i] = s[i]) /\ AskedFor[m] = listing.after
  BY <1>1, Appended DEF AskedFor
<1> HIDE DEF s
<1>3. /\ listing.vendor = "google" => (\A i, j \in 1..n : s[i] = s[j] => i = j) /\ \A i \in 1..n : s[i] # listing.after
      /\ \A i \in 1..(n - 1) : s[i] # s[i + 1]
      /\ n > 0 => s[n] # listing.after
  <2>1. listing.vendor = "google" => (\A i, j \in 1..n : s[i] = s[j] => i = j) /\ \A i \in 1..n : s[i] # listing.after
    BY <1>1 DEF CatalogInv, NextIsNew, Among, Catalog!PagesAreNew, s
  <2>2. \A i \in 1..(n - 1) : s[i] # s[i + 1]
    BY DEF CatalogInv, Catalog!PagesAreNew, s
  <2>3. listing.vendor = "openai-style" => n = 0
    BY DEF CatalogInv, NextIsNew, s
  <2>4. n > 0 => s[n] # listing.after
    BY <1>1, <2>1, <2>3 DEF CatalogInv, NextIsNew, s
  <2> QED BY <2>1, <2>2, <2>4
<1>4. \A i \in 1..m : i \in 1..n \/ i = m
  BY <1>1
<1>5. listing.vendor = "google" => Unrepeated(AskedFor)
  BY <1>1, <1>2, <1>3, <1>4 DEF Unrepeated
<1>6. ASSUME NEW i \in 1..(m - 1) PROVE AskedFor[i] # AskedFor[i + 1]
  <2>1. CASE i = n
    BY <1>1, <1>2, <1>3, <2>1
  <2>2. CASE i # n
    <3> HIDE DEF n
    <3>1. i \in 1..(n - 1) /\ i \in 1..n /\ i + 1 \in 1..n
      BY <1>1, <2>2
    <3> QED BY <1>2, <1>3, <3>1
  <2> QED BY <2>1, <2>2
<1> QED BY <1>1, <1>2, <1>5, <1>6 DEF s

\* What a listing may hold while it goes on.
ModelsFit(models) ==
  /\ models \in Seq(Offered)
  /\ listing.vendor = "google" => Unrepeated(models) /\ \A i \in DOMAIN models : models[i] \notin Unfit

LEMMA FailsStep == ASSUME CatalogInv, Catalog!Fails PROVE CatalogInv'
<1>1. /\ listing \in [vendor : {"openai-style", "google", "anthropic"}, pc : {"asking", "listed", "failed"},
                      after : Tokens \cup {Absent}, asked : Seq(Tokens \cup {Absent}), models : Seq(Offered)]
      /\ listing' = [listing EXCEPT !.pc = "failed", !.models = <<>>]
  BY DEF CatalogInv, Catalog!TypeOK, Catalog!Fails
<1>2. <<>> \in Seq(Offered)
  OBVIOUS
<1>3. /\ listing'.pc = "failed" /\ listing'.models = <<>> /\ listing'.asked = listing.asked
      /\ listing'.vendor = listing.vendor
  BY <1>1
<1>4. Catalog!TypeOK'
  BY <1>1, <1>2 DEF Catalog!TypeOK
<1>5. NextIsNew' /\ Catalog!ListIsBounded'
  BY <1>3 DEF NextIsNew, Catalog!ListIsBounded
<1>6. Catalog!PagesAreNew'
  <2>1. DOMAIN listing'.models = {}
    BY <1>3
  <2> QED BY <1>3, <2>1 DEF CatalogInv, Catalog!PagesAreNew
<1> QED BY <1>4, <1>5, <1>6 DEF CatalogInv

LEMMA EndsStep ==
  ASSUME CatalogInv, listing.pc = "asking", NEW models, ModelsFit(models), Catalog!Ends(models)
  PROVE  CatalogInv'
<1>1. /\ listing \in [vendor : {"openai-style", "google", "anthropic"}, pc : {"asking", "listed", "failed"},
                      after : Tokens \cup {Absent}, asked : Seq(Tokens \cup {Absent}), models : Seq(Offered)]
      /\ listing' = [listing EXCEPT !.pc = "listed", !.models = models, !.asked = AskedFor]
  BY DEF CatalogInv, Catalog!TypeOK, Catalog!Ends, AskedFor
<1>2. /\ AskedFor \in Seq(Tokens \cup {Absent})
      /\ listing.vendor = "google" => Unrepeated(AskedFor)
      /\ \A i \in 1..(Len(AskedFor) - 1) : AskedFor[i] # AskedFor[i + 1]
  BY AskedIs
<1> HIDE DEF AskedFor
<1>3. /\ Catalog!TypeOK' /\ listing'.pc = "listed" /\ listing'.models = models /\ listing'.asked = AskedFor
      /\ listing'.vendor = listing.vendor
  BY <1>1, <1>2 DEF Catalog!TypeOK, ModelsFit
<1>4. NextIsNew' /\ Catalog!ListIsBounded'
  BY <1>3 DEF NextIsNew, Catalog!ListIsBounded, ModelsFit
<1>5. Catalog!PagesAreNew'
  BY <1>2, <1>3 DEF Catalog!PagesAreNew, ModelsFit, Unrepeated
<1> QED BY <1>3, <1>4, <1>5 DEF CatalogInv

LEMMA GoesOnStep ==
  ASSUME CatalogInv, listing.pc = "asking", NEW models, ModelsFit(models), NEW token \in Tokens \cup {Absent},
         listing.vendor \in {"google", "anthropic"}, Len(models) < MaxModels => token # listing.after,
         listing.vendor = "google" /\ Len(models) < MaxModels => ~Among(token, listing.asked),
         Catalog!GoesOn(models, token)
  PROVE  CatalogInv'
<1>1. CASE ~(Len(models) < MaxModels)
  <2>1. Len(models) >= MaxModels
    BY <1>1, AnswersAssumption DEF ModelsFit
  <2> QED BY <2>1, FailsStep DEF Catalog!GoesOn
<1>2. CASE Len(models) < MaxModels
  <2>1. /\ listing \in [vendor : {"openai-style", "google", "anthropic"}, pc : {"asking", "listed", "failed"},
                        after : Tokens \cup {Absent}, asked : Seq(Tokens \cup {Absent}), models : Seq(Offered)]
        /\ listing' = [listing EXCEPT !.models = models, !.after = token, !.asked = AskedFor]
    <3>1. ~(Len(models) >= MaxModels)
      BY <1>2, AnswersAssumption DEF ModelsFit
    <3> QED BY <3>1 DEF CatalogInv, Catalog!TypeOK, Catalog!GoesOn, AskedFor
  <2>2. /\ AskedFor \in Seq(Tokens \cup {Absent}) /\ Len(AskedFor) = Len(listing.asked) + 1 /\ Len(listing.asked) \in Nat
        /\ AskedFor[Len(AskedFor)] = listing.after
        /\ \A i \in 1..Len(listing.asked) : AskedFor[i] = listing.asked[i]
        /\ listing.vendor = "google" => Unrepeated(AskedFor)
        /\ \A i \in 1..(Len(AskedFor) - 1) : AskedFor[i] # AskedFor[i + 1]
    BY AskedIs
  <2> HIDE DEF AskedFor
  <2>3. /\ Catalog!TypeOK' /\ listing'.pc = "asking" /\ listing'.models = models /\ listing'.asked = AskedFor
        /\ listing'.vendor = listing.vendor /\ listing'.after = token
    BY <2>1, <2>2 DEF Catalog!TypeOK, ModelsFit
  <2>4. listing.vendor = "google" => ~Among(token, AskedFor)
    <3> SUFFICES ASSUME listing.vendor = "google", NEW i \in DOMAIN AskedFor PROVE AskedFor[i] # token
      BY DEF Among
    <3>1. DOMAIN AskedFor = 1..Len(AskedFor) /\ DOMAIN listing.asked = 1..Len(listing.asked)
      BY <2>1, <2>2
    <3>2. i \in 1..Len(listing.asked) \/ i = Len(AskedFor)
      BY <2>2, <3>1
    <3> QED BY <1>2, <2>2, <3>1, <3>2 DEF Among
  <2>5. NextIsNew'
    BY <1>2, <2>2, <2>3, <2>4 DEF NextIsNew, Among
  <2>6. Catalog!ListIsBounded'
    BY <1>2, <2>3 DEF Catalog!ListIsBounded, ModelsFit
  <2>7. Catalog!PagesAreNew'
    BY <2>2, <2>3 DEF Catalog!PagesAreNew, ModelsFit, Unrepeated
  <2> QED BY <2>3, <2>5, <2>6, <2>7 DEF CatalogInv
<1> QED BY <1>1, <1>2

LEMMA PageIsList == \A answer \in Catalog!Pages : answer.models \in Seq(Offered) /\ Unrepeated(answer.models) /\ answer.next \in Tokens \cup {Absent}
<1> SUFFICES ASSUME NEW answer \in Catalog!Pages
             PROVE  answer.models \in Seq(Offered) /\ Unrepeated(answer.models) /\ answer.next \in Tokens \cup {Absent}
  OBVIOUS
<1>1. /\ answer.models \in {<<>>} \cup {<<m>> : m \in Offered} \cup {p \in Offered \X Offered : p[1] # p[2]}
      /\ answer.next \in Tokens \cup {Absent}
  BY DEF Catalog!Pages
<1>2. CASE answer.models = <<>>
  BY <1>1, <1>2 DEF Unrepeated
<1>3. CASE answer.models \in {<<m>> : m \in Offered}
  <2>1. PICK a \in Offered : answer.models = <<a>>
    BY <1>3
  <2>2. <<a>> \in Seq(Offered) /\ DOMAIN <<a>> = {1}
    OBVIOUS
  <2> QED BY <1>1, <2>1, <2>2 DEF Unrepeated
<1>4. CASE answer.models \in {p \in Offered \X Offered : p[1] # p[2]}
  <2>1. PICK a \in Offered, b \in Offered : answer.models = <<a, b>> /\ a # b
    BY <1>4
  <2>2. <<a, b>> \in Seq(Offered) /\ DOMAIN <<a, b>> = {1, 2} /\ <<a, b>>[1] = a /\ <<a, b>>[2] = b
    OBVIOUS
  <2> QED BY <1>1, <2>1, <2>2 DEF Unrepeated
<1> QED BY <1>1, <1>2, <1>3, <1>4

LEMMA FitIs ==
  ASSUME CatalogInv, listing.vendor = "google", listing.pc = "asking", NEW answer \in Catalog!Pages
  PROVE  ModelsFit(listing.models \o Catalog!Fit(answer.models))
<1> DEFINE s == answer.models  m == listing.models
           places == {i \in DOMAIN s : s[i] \notin Unfit /\ ~Catalog!Has(m, s[i])}
           fit == Picked(s, places)
<1>1. s \in Seq(Offered) /\ Unrepeated(s) /\ m \in Seq(Offered) /\ Unrepeated(m) /\ \A i \in DOMAIN m : m[i] \notin Unfit
  BY PageIsList DEF CatalogInv, Catalog!TypeOK, Catalog!PagesAreNew, Catalog!ListIsBounded, Unrepeated
<1>2. Catalog!Fit(s) = fit
  BY OrderingNames DEF Catalog!Fit
<1>3. places \in SUBSET (DOMAIN s) /\ \A i \in places : s[i] \notin Unfit /\ \A j \in DOMAIN m : m[j] # s[i]
  BY DEF Catalog!Has
<1> HIDE DEF places, s, m
<1>4. fit \in Seq(Offered) /\ Unrepeated(fit) /\ \A k \in DOMAIN fit : \E i \in places : fit[k] = s[i]
  BY <1>1, <1>3, PickedIs
<1> HIDE DEF fit
<1>5. /\ m \o fit \in Seq(Offered) /\ Unrepeated(m \o fit)
      /\ \A k \in DOMAIN (m \o fit) : (\E i \in DOMAIN m : (m \o fit)[k] = m[i]) \/ (\E j \in DOMAIN fit : (m \o fit)[k] = fit[j])
  <2>1. \A i \in DOMAIN m, j \in DOMAIN fit : m[i] # fit[j]
    BY <1>3, <1>4
  <2> QED BY <1>1, <1>4, <2>1, Joined
<1>6. \A k \in DOMAIN (m \o fit) : (m \o fit)[k] \notin Unfit
  BY <1>1, <1>3, <1>4, <1>5
<1>7. ModelsFit(m \o fit)
  BY <1>5, <1>6 DEF ModelsFit
<1> QED BY <1>2, <1>7 DEF s, m

LEMMA PagesStep == ASSUME CatalogInv, NEW answer \in Catalog!Pages,
                          Catalog!OneList(answer) \/ Catalog!GooglePage(answer) \/ \E more \in BOOLEAN : Catalog!AnthropicPage(answer, more)
                   PROVE  CatalogInv'
<1>1. answer.models \in Seq(Offered) /\ answer.next \in Tokens \cup {Absent} /\ listing.models \in Seq(Offered)
  BY PageIsList DEF CatalogInv, Catalog!TypeOK
<1>2. CASE Catalog!OneList(answer)
  <2>1. listing.vendor = "openai-style" /\ listing.pc = "asking" /\ Catalog!Ends(answer.models)
    BY <1>2 DEF Catalog!OneList
  <2>2. ModelsFit(answer.models)
    BY <1>1, <2>1 DEF ModelsFit
  <2> QED BY <2>1, <2>2, EndsStep
<1>3. CASE Catalog!GooglePage(answer)
  <2> DEFINE models == listing.models \o Catalog!Fit(answer.models)
  <2>1. /\ listing.vendor = "google" /\ listing.pc = "asking"
        /\ \/ Catalog!Ends(models) \/ Catalog!Fails
           \/ /\ Catalog!GoesOn(models, answer.next)
              /\ ~(Len(models) < MaxModels /\ (answer.next = listing.after \/ Catalog!Has(listing.asked, answer.next)))
    BY <1>3 DEF Catalog!GooglePage
  <2>2. ModelsFit(models)
    BY <2>1, FitIs
  <2> HIDE DEF models
  <2>3. CASE Catalog!GoesOn(models, answer.next)
             /\ ~(Len(models) < MaxModels /\ (answer.next = listing.after \/ Catalog!Has(listing.asked, answer.next)))
    <3>1. /\ Len(models) < MaxModels => answer.next # listing.after
          /\ listing.vendor = "google" /\ Len(models) < MaxModels => ~Among(answer.next, listing.asked)
      BY <2>3 DEF Among, Catalog!Has
    <3> QED BY <1>1, <2>1, <2>2, <2>3, <3>1, GoesOnStep
  <2> QED BY <2>1, <2>2, <2>3, EndsStep, FailsStep
<1>4. CASE \E more \in BOOLEAN : Catalog!AnthropicPage(answer, more)
  <2> DEFINE models == listing.models \o answer.models
  <2>1. /\ listing.vendor = "anthropic" /\ listing.pc = "asking"
        /\ Catalog!Ends(models) \/ Catalog!Fails \/ (Catalog!GoesOn(models, answer.next) /\ answer.next # listing.after)
    BY <1>4 DEF Catalog!AnthropicPage
  <2>2. ModelsFit(models)
    BY <1>1, <2>1, ConcatProperties DEF ModelsFit
  <2> HIDE DEF models
  <2> QED BY <1>1, <2>1, <2>2, EndsStep, FailsStep, GoesOnStep
<1> QED BY <1>2, <1>3, <1>4

LEMMA CatalogSteps == CatalogInv /\ [Catalog!Next]_listing => CatalogInv'
<1> SUFFICES ASSUME CatalogInv, [Catalog!Next]_listing PROVE CatalogInv'
  OBVIOUS
<1>1. CASE UNCHANGED listing
  BY <1>1 DEF CatalogInv, Catalog!TypeOK, NextIsNew, Among, Catalog!PagesAreNew, Catalog!ListIsBounded
<1>2. CASE Catalog!Next
  BY <1>2, FailsStep, PagesStep DEF Catalog!Next, Catalog!RequestFails
<1> QED BY <1>1, <1>2

-----------------------------------------------------------------------------
(* A behaviour of Services is one of its parts, which takes all its steps. *)

PartsInv ==
  /\ part = "limiter" => LimiterInv
  /\ part = "streams" => StreamsInv
  /\ part = "catalog" => CatalogInv
  /\ part = "accounting" => AccountingInv
  /\ part = "prompts" => PromptsInv
  /\ part = "index" => IndexInv

LEMMA PartsBegin == ServicesInit => PartsInv
BY LimiterBegins, StreamsBegin, CatalogBegins, AccountingBegins, PromptsBegin, IndexBegins
   DEF ServicesInit, PartsInv

LEMMA PartActs ==
  [ServicesNext]_servicesVars =>
    /\ part' = part
    /\ part = "limiter" => [Limiter!Next]_limitVars
    /\ part = "streams" => [Streams!Next]_streamVars
    /\ part = "catalog" => [Catalog!Next]_listing
    /\ part = "accounting" => [Accounting!Next]_usageVars
    /\ part = "prompts" => [Prompts!Next]_promptVars
    /\ part = "index" => [Index!RetrievalNext]_retrievalVars
BY DEF ServicesNext, Rest, servicesVars

LEMMA PartsInvariance == ServicesSpec => []PartsInv
<1>1. PartsInv /\ [ServicesNext]_servicesVars => PartsInv'
  BY PartActs, LimiterSteps, StreamsSteps, CatalogSteps, AccountingSteps, PromptsSteps, IndexSteps
     DEF PartsInv
<1> QED BY PartsBegin, <1>1, PTL DEF ServicesSpec

\* For any limit, window, grace and number of calls, whatever the skew of the clocks and the
\* delay of an answer: no more calls than the limit are admitted in a window of either kind,
\* cut by that skew and delay (jobs/src/index.ts:118-184, rate-limit.ts:44-78).
THEOREM LimitsHold == ServicesSpec => []LimitsAreKept
<1>1. PartsInv => LimitsAreKept
  BY DEF PartsInv, LimitsAreKept, LimiterInv
<1> QED BY PartsInvariance, <1>1, PTL

\* For any number of frames, models, pages and reports, and any counts in them: what is said of
\* a provider's answer is true of it, whatever the provider sends and wherever it breaks off.  A
\* stream's texts are passed on in order, once each, and with one end; a listing asks for no page
\* twice in turn, lists no model of Google's twice and stays in its limit; the usage recorded is
\* the provider's last word, at the price whose name is closest (providers/src/index.ts:164-172,
\* 265-292, 407-431, 564-683, 955-982; usage.ts:61-147).
THEOREM AnswersStayTrue == ServicesSpec => []AnswersAreTrue
<1>1. PartsInv => AnswersAreTrue
  BY StreamsAreTrue DEF PartsInv, AnswersAreTrue, CatalogInv, AccountingInv
<1> QED BY PartsInvariance, <1>1, PTL

\* For any numbers of documents, requests and edits, and any texts: beside the limits, which are
\* kept, the pages of a search fit together, an embedding is of the text it is stored with, and a
\* prompt's last version is its text (search/route.ts:31-208; reembed/route.ts:34-106;
\* prompts/[promptId]/route.ts:46-81).
THEOREM DerivedStaysCurrent == ServicesSpec => []DerivedIsCurrent
<1>1. PartsInv => DerivedIsCurrent
  BY IndexTyped, PagesOfIndexFit, LastIsThePrompt
     DEF PartsInv, DerivedIsCurrent, LimitsAreKept, LimiterInv, PromptsInv
<1> QED BY PartsInvariance, <1>1, PTL
=============================================================================
