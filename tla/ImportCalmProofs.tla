-------------------------- MODULE ImportCalmProofs --------------------------
(***************************************************************************)
(* Proofs about ImportPipeline while nothing has gone wrong: every job     *)
(* that has left the queue has settled its batch, and a processed batch    *)
(* stays processed.                                                        *)
(***************************************************************************)
EXTENDS ImportPipelineProofs

(* Steps that are no disruption. *)
CalmNext ==
  \/ \E b \in Batches : CreateBatch(b) \/ ApiStep(b)
  \/ \E w \in Workers : Start(w) \/ Exit(w)
  \/ \E w \in Workers, b \in Batches : Deliver(w, b) \/ TaskStep(w, b)
  \/ UNCHANGED vars

LEMMA CalmOrDisrupt ==
  ASSUME TypeOK, [Next]_vars
  PROVE  (CalmNext /\ disruptions' = disruptions) \/ disruptions' = disruptions + 1
<1> USE DEF Disrupt, CalmNext
<1>1. ASSUME NEW b \in Batches, CreateBatch(b) \/ ApiStep(b)
      PROVE  CalmNext /\ disruptions' = disruptions
  BY <1>1 DEF CreateBatch, ApiStep, UploadBlob, SaveKey, Publish, PublishThrows, MarkRefused
<1>2. ASSUME NEW b \in Batches, ApiFault(b) PROVE disruptions' = disruptions + 1
  BY <1>2 DEF ApiFault, CreateBatchFails, UploadBlobFails, SaveKeyFails, PublishLost,
     MarkRefusedFails
<1>3. ASSUME NEW w \in Workers, Start(w) \/ Exit(w)
      PROVE  CalmNext /\ disruptions' = disruptions
  BY <1>3 DEF Start, Exit
<1>4. ASSUME NEW w \in Workers, CloseChannel(w) \/ Crash(w) PROVE disruptions' = disruptions + 1
  BY <1>4 DEF CloseChannel, Crash
<1>5. ASSUME NEW w \in Workers, NEW b \in Batches, Deliver(w, b) \/ TaskStep(w, b)
      PROVE  CalmNext /\ disruptions' = disruptions
  BY <1>5 DEF Deliver, TaskStep, FindBatch, Download, InsertChunk, ParseError, Complete,
     MarkFailed, Ack
<1>6. ASSUME NEW w \in Workers, NEW b \in Batches, TaskFault(w, b)
      PROVE  disruptions' = disruptions + 1
  BY <1>6 DEF TaskFault, FindOrDownloadFails, InsertChunkFails, CompleteFails, MarkFailedFails
<1>7. CASE ApiChannelCloses \/ ApiRestarts
  BY <1>7 DEF ApiChannelCloses, ApiRestarts
<1>8. CASE UNCHANGED vars
  BY <1>8 DEF vars
<1>9. QED
  BY <1>1, <1>2, <1>3, <1>4, <1>5, <1>6, <1>7, <1>8 DEF Next

(* The API's steps keep the calm. *)
LEMMA CalmApiStep ==
  ASSUME IInv, Calm, NEW b \in Batches, CreateBatch(b) \/ ApiStep(b)
  PROVE  Calm'
<1> USE DEF apiVars, workerVars, storeVars, Moves
<1>1. /\ channel' = "open"
      /\ rows' = rows
      /\ worker' = worker
      /\ task' = task
      /\ request[b] # "replied"
      /\ request'[b] # "failing"
  BY DEF IInv, TypeOK, Calm, Accounted, CreateBatch, ApiStep, UploadBlob, SaveKey, Publish,
     PublishThrows, MarkRefused
<1>2. \A c \in Batches \ {b} : request'[c] = request[c] /\ batch'[c] = batch[c]
  BY DEF IInv, TypeOK, CreateBatch, ApiStep, UploadBlob, SaveKey, Publish, PublishThrows,
     MarkRefused, NewBatch, WithKey, Refused
<1>3. ~HasJob(b) /\ rows[b] = {}
  BY <1>1 DEF IInv, JobInv, JobOrigin
<1>4. ready' = ready \/ (ready' = ready \cup {b} /\ request'[b] = "replied")
  BY DEF IInv, TypeOK, CreateBatch, ApiStep, UploadBlob, SaveKey, Publish, PublishThrows,
     MarkRefused
<1>5. request'[b] = "replied" => b \in ready'
  BY DEF IInv, TypeOK, CreateBatch, ApiStep, UploadBlob, SaveKey, Publish, PublishThrows,
     MarkRefused
<1>6. batch'[b].status = "uploaded"
  <2>1. CASE CreateBatch(b)
    BY <2>1 DEF CreateBatch, NewBatch, Row, IInv, TypeOK
  <2>2. CASE SaveKey(b)
    BY <2>2 DEF SaveKey, WithKey, Row, IInv, TypeOK, Calm, Accounted, Fresh, InProgress
  <2>3. CASE ApiStep(b) /\ ~SaveKey(b)
    <3>1. request[b] \in InProgress /\ batch' = batch
      BY <2>3 DEF ApiStep, UploadBlob, Publish, PublishThrows, MarkRefused, InProgress, Calm,
         Accounted
    <3>2. QED
      BY <3>1 DEF Calm, Accounted, Fresh
  <2>4. QED
    BY <2>1, <2>2, <2>3
<1>7. \A w \in Workers : task[w][b].pc = "idle"
  BY <1>3 DEF HasJob, Held
<1>8. HeldOnce'
  BY <1>1, <1>4, <1>7 DEF Calm, HeldOnce
<1>9. ASSUME NEW c \in Batches PROVE Accounted(c)'
  <2>1. CASE c = b
    BY <1>1, <1>3, <1>5, <1>6, <2>1 DEF Accounted, Fresh, HasJob
  <2>2. CASE c # b
    <3>1. HasJob(c)' = HasJob(c) /\ (c \in ready' <=> c \in ready)
      BY <1>1, <1>4, <2>2 DEF HasJob, Held
    <3>2. Accounted(c)
      BY DEF Calm
    <3>3. QED
      BY <1>1, <1>2, <2>2, <3>1, <3>2 DEF Accounted, Fresh, Settled
  <2>3. QED
    BY <2>1, <2>2
<1>10. ASSUME NEW w \in Workers, NEW c \in Batches PROVE OnTrack(w, c)'
  <2>1. CASE c = b
    BY <1>1, <1>7, <2>1 DEF OnTrack
  <2>2. CASE c # b
    <3>1. OnTrack(w, c)
      BY DEF Calm
    <3>2. QED
      BY <1>1, <1>2, <2>2, <3>1 DEF OnTrack, Fresh, FirstRows, Settled
  <2>3. QED
    BY <2>1, <2>2
<1>11. QED
  BY <1>1, <1>8, <1>9, <1>10 DEF Calm

(* So does a delivery: the job moves from the queue to one handler.        *)
LEMMA CalmDeliver ==
  ASSUME IInv, Calm, NEW w \in Workers, NEW b \in Batches, Deliver(w, b)
  PROVE  Calm'
<1> USE DEF apiVars, workerVars, storeVars
<1>1. /\ channel' = channel /\ request' = request /\ batch' = batch
      /\ rows' = rows /\ worker' = worker
      /\ b \in ready /\ ready' = ready \ {b}
      /\ task' = [task EXCEPT ![w][b] = [pc |-> "find", flushed |-> 0]]
  BY DEF Deliver, At
<1>2. \A v \in Workers : task[v][b].pc = "idle"
  BY <1>1 DEF Calm, HeldOnce
<1>3. /\ task'[w][b].pc = "find"
      /\ \A v \in Workers, c \in Batches : (v # w \/ c # b) => task'[v][c] = task[v][c]
  BY <1>1 DEF IInv, TypeOK
<1>4. HeldOnce'
  BY <1>1, <1>2, <1>3 DEF Calm, HeldOnce
<1>5. ASSUME NEW c \in Batches PROVE Accounted(c)'
  <2>1. Accounted(c)
    BY DEF Calm
  <2>2. HasJob(c)' = HasJob(c)
    BY <1>1, <1>3 DEF HasJob, Held
  <2>3. QED
    BY <1>1, <2>1, <2>2 DEF Accounted, Fresh, Settled
<1>6. ASSUME NEW v \in Workers, NEW c \in Batches PROVE OnTrack(v, c)'
  <2>1. OnTrack(v, c) /\ Accounted(c)
    BY DEF Calm
  <2>2. QED
    BY <1>1, <1>3, <2>1 DEF OnTrack, Accounted, Fresh, FirstRows, Settled
<1>7. QED
  BY <1>1, <1>4, <1>5, <1>6 DEF Calm

(* And a step of a handler: each stage leaves what the next one expects.   *)
LEMMA CalmTaskTrack ==
  ASSUME IInv, Calm, NEW w \in Workers, NEW b \in Batches, TaskStep(w, b)
  PROVE  OnTrack(w, b)'
<1> USE DEF apiVars, workerVars, storeVars, Runs, At, IInv, TypeOK
<1>1. OnTrack(w, b)
  BY DEF Calm
<1>2. b \in blobs
  BY DEF JobInv, JobIsDownloadable, HasJob, Held, TaskStep, FindBatch, Download, InsertChunk,
     ParseError, Complete, MarkFailed, Ack
<1>3. StorageKey(b) = b /\ b # NoKey
  BY ImportAssumption DEF StorageKey, JobKey, BlobName
<1>4. CASE FindBatch(w, b)
  BY <1>1, <1>3, <1>4 DEF FindBatch, OnTrack, Fresh
<1>5. CASE Download(w, b)
  <2>1. task'[w][b] = [pc |-> "stream", flushed |-> 0] /\ batch' = batch /\ rows' = rows
    BY <1>2, <1>3, <1>5 DEF Download
  <2>2. Fresh(b)
    BY <1>1, <1>5 DEF Download, OnTrack
  <2>3. QED
    BY <2>1, <2>2 DEF OnTrack, Fresh, FirstRows
<1>6. CASE InsertChunk(w, b)
  <2>1. FirstRows(b, task[w][b].flushed) /\ batch[b].status = "uploaded"
    BY <1>1, <1>6 DEF InsertChunk, OnTrack
  <2>2. Chunk(w, b) \cap rows[b] = {}
    BY <2>1 DEF FirstRows, Chunk
  <2>3. rows'[b] = 1 .. ChunkEnd(b, task[w][b].flushed)
    <3>1. rows'[b] = rows[b] \cup Chunk(w, b)
      BY <1>6, <2>2 DEF InsertChunk
    <3>2. HasChunk(b, task[w][b].flushed)
      BY <1>6 DEF InsertChunk
    <3>3. QED
      BY <2>2, <3>1, <3>2, ChunkFits
  <2>4. /\ task'[w][b] = [pc |-> "stream", flushed |-> ChunkEnd(b, task[w][b].flushed)]
        /\ batch' = batch
    BY <1>6, <2>2 DEF InsertChunk
  <2>5. QED
    BY <2>1, <2>3, <2>4 DEF OnTrack, FirstRows
<1>7. CASE ParseError(w, b)
  BY <1>7 DEF ParseError, OnTrack
<1>8. CASE Complete(w, b)
  <2>1. task'[w][b] = [pc |-> "ack", flushed |-> 0] /\ b \notin Malformed
    BY <1>8 DEF Complete, AllFlushed
  <2>2. batch'[b].status = "processed"
    BY <1>8 DEF Complete, Processed, Row
  <2>3. QED
    BY <2>1, <2>2 DEF OnTrack, Settled
<1>9. CASE MarkFailed(w, b)
  <2>1. task'[w][b] = [pc |-> "ack", flushed |-> 0] /\ b \in Malformed
    BY <1>1, <1>9 DEF MarkFailed, OnTrack
  <2>2. batch'[b].status = "failed"
    BY <1>9 DEF MarkFailed, Broken, Row
  <2>3. QED
    BY <2>1, <2>2 DEF OnTrack, Settled
<1>10. CASE Ack(w, b)
  BY <1>10 DEF Ack, OnTrack, Idle
<1>11. QED
  BY <1>4, <1>5, <1>6, <1>7, <1>8, <1>9, <1>10 DEF TaskStep

LEMMA CalmTaskStep ==
  ASSUME IInv, Calm, NEW w \in Workers, NEW b \in Batches, TaskStep(w, b)
  PROVE  Calm'
<1> USE DEF apiVars, workerVars, storeVars
<1>1. channel' = channel /\ request' = request /\ ready' = ready /\ worker' = worker
  BY DEF TaskStep, FindBatch, Download, InsertChunk, ParseError, Complete, MarkFailed, Ack
<1>2. /\ task[w][b].pc # "idle"
      /\ \E to : task' = [task EXCEPT ![w][b] = to]
  BY DEF TaskStep, FindBatch, Download, InsertChunk, ParseError, Complete, MarkFailed, Ack, Runs
<1>3. \A v \in Workers, c \in Batches : (v # w \/ c # b) => task'[v][c] = task[v][c]
  BY <1>2 DEF IInv, TypeOK
<1>4. \A c \in Batches \ {b} : batch'[c] = batch[c] /\ rows'[c] = rows[c]
  BY DEF IInv, TypeOK, TaskStep, FindBatch, Download, InsertChunk, ParseError, Complete,
     MarkFailed, Ack, Refused, Processed, Broken
<1>5. b \notin ready /\ \A v \in Workers : v # w => task[v][b].pc = "idle"
  BY <1>2 DEF Calm, HeldOnce
<1>6. request[b] = "replied"
  BY <1>2 DEF IInv, JobInv, JobOrigin, HasJob, Held
<1>7. OnTrack(w, b)'
  BY CalmTaskTrack
<1>8. HeldOnce'
  BY <1>1, <1>2, <1>3 DEF Calm, HeldOnce
<1>9. Accounted(b)'
  <2>1. CASE task'[w][b].pc # "idle"
    <3>1. HasJob(b)'
      BY <2>1 DEF HasJob, Held
    <3>2. QED
      BY <1>1, <1>5, <1>6, <3>1 DEF Accounted, InProgress
  <2>2. CASE task'[w][b].pc = "idle"
    <3>1. Ack(w, b)
      BY <2>2 DEF TaskStep, FindBatch, Download, InsertChunk, ParseError, Complete, MarkFailed,
         Runs, At, IInv, TypeOK
    <3>2. Settled(b) /\ batch' = batch
      BY <3>1 DEF Ack, Runs, Calm, OnTrack
    <3>3. QED
      BY <1>1, <1>5, <1>6, <3>2 DEF Accounted, InProgress, Settled
  <2>3. QED
    BY <2>1, <2>2
<1>10. ASSUME NEW c \in Batches, c # b PROVE Accounted(c)'
  <2>1. Accounted(c)
    BY DEF Calm
  <2>2. HasJob(c)' = HasJob(c)
    BY <1>1, <1>3, <1>10 DEF HasJob, Held
  <2>3. QED
    BY <1>1, <1>4, <1>10, <2>1, <2>2 DEF Accounted, Fresh, Settled
<1>11. ASSUME NEW v \in Workers, NEW c \in Batches, v # w \/ c # b PROVE OnTrack(v, c)'
  <2>1. OnTrack(v, c)
    BY DEF Calm
  <2>2. CASE c = b
    BY <1>3, <1>5, <1>11, <2>2 DEF OnTrack
  <2>3. CASE c # b
    BY <1>3, <1>4, <1>11, <2>1, <2>3 DEF OnTrack, Fresh, FirstRows, Settled
  <2>4. QED
    BY <2>2, <2>3
<1>12. QED
  BY <1>1, <1>7, <1>8, <1>9, <1>10, <1>11 DEF Calm

LEMMA CalmStep == IInv /\ CalmInv /\ [Next]_vars => CalmInv'
<1> SUFFICES ASSUME IInv, CalmInv, [Next]_vars, disruptions' = 0 PROVE Calm'
  BY DEF CalmInv
<1>1. disruptions = 0 /\ CalmNext
  BY CalmOrDisrupt, ImportAssumption DEF IInv, TypeOK
<1>2. Calm
  BY <1>1 DEF CalmInv
<1>3. ASSUME NEW w \in Workers, Start(w) PROVE Calm'
  BY <1>2, <1>3 DEF Start, Calm, HeldOnce, Accounted, OnTrack, Fresh, Settled, FirstRows, HasJob,
     Held, apiVars, storeVars, IInv, TypeOK
<1>4. ASSUME NEW w \in Workers, Exit(w) PROVE Calm'
  BY <1>2, <1>4 DEF Exit, Calm
<1>5. CASE UNCHANGED vars
  BY <1>2, <1>5 DEF vars, Calm, HeldOnce, Accounted, OnTrack, Fresh, Settled, FirstRows, HasJob,
     Held
<1>6. QED
  BY <1>1, <1>2, <1>3, <1>4, <1>5, CalmApiStep, CalmDeliver, CalmTaskStep DEF CalmNext

LEMMA InitCalm == Init => CalmInv
BY DEF Init, CalmInv, Calm, HeldOnce, Accounted, OnTrack, Idle, InProgress

THEOREM CalmInvariance == Spec => []CalmInv
<1>1. QED
  BY InitCalm, CalmStep, Invariance, PTL DEF Spec

(* With no disruption, a batch whose job has left the queue is processed,  *)
(* or failed when its file is malformed.                                   *)
THEOREM UndisturbedSettles == Spec => []UndisturbedImportSettles
<1>1. CalmInv => UndisturbedImportSettles
  BY DEF CalmInv, Calm, Accounted, UndisturbedImportSettles
<1>2. QED
  BY <1>1, CalmInvariance, PTL

(* A step that takes a processed batch back to another status happens only *)
(* after a disruption: no catch and no second handler reaches it before.   *)
LEMMA FinalStep ==
  ASSUME IInv, CalmInv, [Next]_vars, NEW b \in Batches,
         batch[b].status = "processed", batch'[b].status # "processed"
  PROVE  disruptions > 0
<1> SUFFICES ASSUME disruptions = 0 PROVE FALSE
  BY ImportAssumption DEF IInv, TypeOK
<1> USE DEF IInv, TypeOK, apiVars, workerVars, storeVars
<1>1. Calm
  BY DEF CalmInv
<1>2. b \notin Malformed
  BY DEF CountInv, ProcessedIsComplete
<1>3. ASSUME NEW c \in Batches, CreateBatch(c) \/ ApiStep(c) \/ ApiFault(c) PROVE FALSE
  <2>1. request[c] # "failing" /\ (request[b] = "new" => FALSE)
    BY <1>1 DEF Calm, Accounted, JobInv, RequestOrder
  <2>2. \/ batch' = batch
        \/ batch' = WithKey(c)
        \/ batch' = [batch EXCEPT ![c] = NewBatch] /\ c # b
    BY <1>3, <2>1 DEF ApiStep, ApiFault, CreateBatch, UploadBlob, SaveKey, Publish,
       PublishThrows, MarkRefused, CreateBatchFails, UploadBlobFails, SaveKeyFails, PublishLost,
       MarkRefusedFails, Moves
  <2>3. CASE batch' = WithKey(c)
    <3>1. c # b => batch'[b] = batch[b]
      BY <2>3 DEF WithKey
    <3>2. c = b => batch'[b].status = batch[b].status
      BY <2>3 DEF WithKey, Row
    <3>3. QED
      BY <3>1, <3>2
  <2>4. CASE batch' = [batch EXCEPT ![c] = NewBatch] /\ c # b
    <3>1. batch'[b] = batch[b]
      BY <2>4
    <3>2. QED
      BY <3>1
  <2>5. QED
    BY <2>2, <2>3, <2>4
<1>4. ASSUME NEW w \in Workers, NEW c \in Batches, TaskStep(w, c) \/ TaskFault(w, c) PROVE FALSE
  <2>1. task[w][c].pc = "failing" => c # b
    BY <1>1, <1>2 DEF Calm, OnTrack
  <2>2. StorageKey(c) # NoKey
    BY ImportAssumption DEF StorageKey, JobKey, BlobName
  <2>3. \/ batch' = batch
        \/ batch' = Processed(c)
        \/ batch' = Broken(c) /\ c # b
    BY <1>4, <2>1, <2>2 DEF TaskStep, TaskFault, FindBatch, Download, InsertChunk, ParseError,
       Complete, MarkFailed, Ack, FindOrDownloadFails, InsertChunkFails, CompleteFails,
       MarkFailedFails, Runs
  <2>4. CASE batch' = Processed(c)
    <3>1. c # b => batch'[b] = batch[b]
      BY <2>4 DEF Processed
    <3>2. c = b => batch'[b].status = "processed"
      BY <2>4 DEF Processed, Row
    <3>3. QED
      BY <3>1, <3>2
  <2>5. CASE batch' = Broken(c) /\ c # b
    BY <2>5 DEF Broken
  <2>6. QED
    BY <2>3, <2>4, <2>5
<1>5. CASE \/ \E w \in Workers : Start(w) \/ CloseChannel(w) \/ Exit(w) \/ Crash(w)
           \/ \E w \in Workers, c \in Batches : Deliver(w, c)
           \/ ApiChannelCloses \/ ApiRestarts \/ UNCHANGED vars
  BY <1>5 DEF Start, CloseChannel, Exit, Crash, Deliver, ApiChannelCloses, ApiRestarts, vars
<1>6. QED
  BY <1>3, <1>4, <1>5 DEF Next

(* A processed batch is taken back to another status only after a         *)
(* disruption has made the broker deliver its job again.                  *)
THEOREM ProcessedFinal == Spec => ProcessedIsFinalUndisturbed
<1>1. IInv /\ CalmInv /\ [Next]_vars =>
        [\A b \in Batches :
           (batch[b].status = "processed" /\ batch'[b].status # "processed") => disruptions > 0]_vars
  BY FinalStep
<1>2. QED
  BY <1>1, Invariance, CalmInvariance, PTL DEF Spec, ProcessedIsFinalUndisturbed
=============================================================================
