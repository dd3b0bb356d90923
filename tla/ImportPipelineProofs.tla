------------------------ MODULE ImportPipelineProofs ------------------------
(***************************************************************************)
(* Proofs about ImportPipeline for every set of uploads and workers, every *)
(* file length, chunk size, prefetch and bound on disruptions.             *)
(***************************************************************************)
EXTENDS ImportPipeline, TLAPS

LEMMA TypeStep == TypeOK /\ [Next]_vars => TypeOK'
<1> SUFFICES ASSUME TypeOK, [Next]_vars PROVE TypeOK'
  OBVIOUS
<1> USE ImportAssumption DEF TypeOK, InProgress, Statuses, Stages, At, Idle, Row, Moves, Disrupt,
        apiVars, workerVars, storeVars
<1>1. ASSUME NEW b \in Batches, CreateBatch(b) PROVE TypeOK'
  BY <1>1 DEF CreateBatch, NewBatch, NoBatch
<1>2. ASSUME NEW b \in Batches, ApiStep(b) PROVE TypeOK'
  <2>1. CASE UploadBlob(b)
    BY <2>1 DEF UploadBlob, BlobName
  <2>2. CASE SaveKey(b)
    BY <2>2 DEF SaveKey, WithKey, BlobName
  <2>3. CASE Publish(b)
    BY <2>3 DEF Publish
  <2>4. CASE PublishThrows(b)
    BY <2>4 DEF PublishThrows
  <2>5. CASE MarkRefused(b)
    BY <2>5 DEF MarkRefused, Refused
  <2>6. QED
    BY <1>2, <2>1, <2>2, <2>3, <2>4, <2>5 DEF ApiStep
<1>3. ASSUME NEW b \in Batches, ApiFault(b) PROVE TypeOK'
  <2>1. CASE CreateBatchFails(b)
    BY <2>1 DEF CreateBatchFails, NewBatch, NoBatch
  <2>2. CASE UploadBlobFails(b)
    BY <2>2 DEF UploadBlobFails, BlobName
  <2>3. CASE SaveKeyFails(b)
    BY <2>3 DEF SaveKeyFails, WithKey, BlobName
  <2>4. CASE PublishLost(b)
    BY <2>4 DEF PublishLost
  <2>5. CASE MarkRefusedFails(b)
    BY <2>5 DEF MarkRefusedFails, Refused
  <2>6. QED
    BY <1>3, <2>1, <2>2, <2>3, <2>4, <2>5 DEF ApiFault
<1>4. CASE ApiChannelCloses
  BY <1>4 DEF ApiChannelCloses
<1>5. CASE ApiRestarts
  BY <1>5 DEF ApiRestarts
<1>6. ASSUME NEW w \in Workers, Start(w) PROVE TypeOK'
  BY <1>6 DEF Start
<1>7. ASSUME NEW w \in Workers, CloseChannel(w) PROVE TypeOK'
  BY <1>7 DEF CloseChannel, InFlight
<1>8. ASSUME NEW w \in Workers, Exit(w) PROVE TypeOK'
  BY <1>8 DEF Exit
<1>9. ASSUME NEW w \in Workers, Crash(w) PROVE TypeOK'
  BY <1>9 DEF Crash, InFlight
<1>10. ASSUME NEW w \in Workers, NEW b \in Batches, Deliver(w, b) PROVE TypeOK'
  BY <1>10 DEF Deliver
<1>11. ASSUME NEW w \in Workers, NEW b \in Batches, TaskStep(w, b) PROVE TypeOK'
  <2>1. CASE FindBatch(w, b)
    BY <2>1 DEF FindBatch, Runs, Refused
  <2>2. CASE Download(w, b)
    BY <2>2 DEF Download, Runs
  <2>3. CASE InsertChunk(w, b)
    BY <2>3 DEF InsertChunk, HasChunk, Runs, Chunk, ChunkEnd
  <2>4. CASE ParseError(w, b)
    BY <2>4 DEF ParseError, Runs
  <2>5. CASE Complete(w, b)
    BY <2>5 DEF Complete, Runs, Processed
  <2>6. CASE MarkFailed(w, b)
    BY <2>6 DEF MarkFailed, Runs, Broken
  <2>7. CASE Ack(w, b)
    BY <2>7 DEF Ack, Runs
  <2>8. QED
    BY <1>11, <2>1, <2>2, <2>3, <2>4, <2>5, <2>6, <2>7 DEF TaskStep
<1>12. ASSUME NEW w \in Workers, NEW b \in Batches, TaskFault(w, b) PROVE TypeOK'
  <2>1. CASE FindOrDownloadFails(w, b)
    BY <2>1 DEF FindOrDownloadFails
  <2>2. CASE InsertChunkFails(w, b)
    BY <2>2 DEF InsertChunkFails, HasChunk, Runs, Chunk, ChunkEnd
  <2>3. CASE CompleteFails(w, b)
    BY <2>3 DEF CompleteFails, Runs, Processed
  <2>4. CASE MarkFailedFails(w, b)
    BY <2>4 DEF MarkFailedFails, Runs, Broken
  <2>5. QED
    BY <1>12, <2>1, <2>2, <2>3, <2>4 DEF TaskFault
<1>13. CASE UNCHANGED vars
  BY <1>13 DEF vars
<1>14. QED
  BY <1>1, <1>2, <1>3, <1>4, <1>5, <1>6, <1>7, <1>8, <1>9, <1>10, <1>11, <1>12, <1>13 DEF Next

-----------------------------------------------------------------------------
(* Rows are only ever added to a batch. *)
LEMMA RowsGrow ==
  ASSUME TypeOK, [Next]_vars
  PROVE  \A b \in Batches : rows[b] \subseteq rows'[b]
<1> USE DEF TypeOK, apiVars, workerVars, storeVars
<1>1. ASSUME NEW w \in Workers, NEW b \in Batches, InsertChunk(w, b) \/ InsertChunkFails(w, b)
      PROVE  \A c \in Batches : rows[c] \subseteq rows'[c]
  BY <1>1 DEF InsertChunk, InsertChunkFails
<1>2. CASE ~ \E w \in Workers, b \in Batches : InsertChunk(w, b) \/ InsertChunkFails(w, b)
  <2>1. rows' = rows
    BY <1>2 DEF Next, vars, ApiStep, ApiFault, TaskStep, TaskFault,
       CreateBatch, UploadBlob, SaveKey, Publish, PublishThrows, MarkRefused,
       CreateBatchFails, UploadBlobFails, SaveKeyFails, PublishLost, MarkRefusedFails,
       ApiChannelCloses, ApiRestarts, Start, CloseChannel, Exit, Crash, Deliver,
       FindBatch, Download, ParseError, Complete, MarkFailed, Ack,
       FindOrDownloadFails, CompleteFails, MarkFailedFails
  <2>2. QED
    BY <2>1
<1>3. QED
  BY <1>1, <1>2

(* A step that inserts nothing keeps the rows, and a handler that goes on  *)
(* in its loop is where it was.                                            *)
LEMMA QuietStep ==
  ASSUME TypeOK, [Next]_vars,
         ~ \E w \in Workers, b \in Batches : InsertChunk(w, b) \/ InsertChunkFails(w, b)
  PROVE  /\ rows' = rows
         /\ \A w \in Workers, b \in Batches :
              task'[w][b].flushed > 0 => task'[w][b] = task[w][b]
<1> USE DEF TypeOK, apiVars, workerVars, storeVars, At, Idle, Runs
<1>1. ASSUME NEW w \in Workers, NEW b \in Batches, TaskStep(w, b) \/ TaskFault(w, b)
      PROVE  /\ rows' = rows
             /\ \A v \in Workers, c \in Batches :
                  task'[v][c].flushed > 0 => task'[v][c] = task[v][c]
  <2>1. PICK to \in [pc : Stages, flushed : {0}] :
          rows' = rows /\ task' = [task EXCEPT ![w][b] = to]
    BY <1>1 DEF TaskStep, TaskFault, FindBatch, Download, ParseError, Complete, MarkFailed, Ack,
       FindOrDownloadFails, CompleteFails, MarkFailedFails, Stages
  <2>2. QED
    BY <2>1
<1>2. ASSUME NEW b \in Batches, CreateBatch(b) \/ ApiStep(b) \/ ApiFault(b)
      PROVE  rows' = rows /\ task' = task
  BY <1>2 DEF ApiStep, ApiFault, CreateBatch, UploadBlob, SaveKey, Publish, PublishThrows,
     MarkRefused, CreateBatchFails, UploadBlobFails, SaveKeyFails, PublishLost, MarkRefusedFails
<1>3. ASSUME NEW w \in Workers, Start(w) \/ CloseChannel(w) \/ Exit(w) \/ Crash(w)
      PROVE  /\ rows' = rows
             /\ \A v \in Workers, c \in Batches :
                  task'[v][c].flushed > 0 => task'[v][c] = task[v][c]
  BY <1>3 DEF Start, CloseChannel, Exit, Crash
<1>4. ASSUME NEW w \in Workers, NEW b \in Batches, Deliver(w, b)
      PROVE  /\ rows' = rows
             /\ \A v \in Workers, c \in Batches :
                  task'[v][c].flushed > 0 => task'[v][c] = task[v][c]
  BY <1>4 DEF Deliver
<1>5. CASE ApiChannelCloses \/ ApiRestarts \/ UNCHANGED vars
  BY <1>5 DEF ApiChannelCloses, ApiRestarts, vars
<1>6. QED
  BY <1>1, <1>2, <1>3, <1>4, <1>5 DEF Next

(* A chunk that meets no stored row starts right after the stored ones.    *)
LEMMA ChunkFits ==
  ASSUME TypeOK, RowsInv, NEW w \in Workers, NEW b \in Batches,
         HasChunk(b, task[w][b].flushed), Chunk(w, b) \cap rows[b] = {}
  PROVE  LET last == ChunkEnd(b, task[w][b].flushed)
         IN  /\ last \in 1 .. Rows[b]
             /\ task[w][b].flushed < last
             /\ FirstRows(b, task[w][b].flushed)
             /\ rows[b] \cup Chunk(w, b) = 1 .. last
<1> DEFINE n == task[w][b].flushed
           last == ChunkEnd(b, n)
<1>1. n \in Nat /\ last \in n + 1 .. Rows[b]
  BY ImportAssumption DEF TypeOK, HasChunk, ChunkEnd
<1>2. FirstRows(b, n)
  <2>1. CASE n > 0
    BY <2>1 DEF RowsInv, WriterAtEnd
  <2>2. CASE n = 0
    <3>1. PICK m \in 0 .. Rows[b] : rows[b] = 1 .. m
      BY DEF RowsInv, RowsInOrder, FirstRows
    <3>2. 1 \in Chunk(w, b)
      BY <1>1, <2>2 DEF Chunk
    <3>3. m = 0
      <4>1. m \in Nat /\ 1 \notin 1 .. m
        BY <1>1, <3>1, <3>2, ImportAssumption
      <4>2. QED
        BY <4>1
    <3>4. QED
      BY <2>2, <3>1, <3>3 DEF FirstRows
  <2>3. QED
    BY <1>1, <2>1, <2>2
<1>3. rows[b] \cup Chunk(w, b) = 1 .. last
  BY <1>1, <1>2, ImportAssumption DEF FirstRows, Chunk, TypeOK
<1>4. QED
  BY <1>1, <1>2, <1>3, ImportAssumption DEF TypeOK

LEMMA RowsStep == TypeOK /\ RowsInv /\ [Next]_vars => RowsInv'
<1> SUFFICES ASSUME TypeOK, RowsInv, [Next]_vars PROVE RowsInv'
  OBVIOUS
<1>1. CASE ~ \E w \in Workers, b \in Batches : InsertChunk(w, b) \/ InsertChunkFails(w, b)
  <2>1. /\ rows' = rows
        /\ \A w \in Workers, b \in Batches :
             task'[w][b].flushed > 0 => task'[w][b] = task[w][b]
    BY <1>1, QuietStep
  <2>2. RowsInOrder'
    BY <2>1 DEF RowsInv, RowsInOrder, FirstRows
  <2>3. WriterAtEnd'
    BY <2>1 DEF RowsInv, WriterAtEnd, FirstRows
  <2>4. OneWriter'
    BY <2>1 DEF RowsInv, OneWriter
  <2>5. QED
    BY <2>2, <2>3, <2>4 DEF RowsInv
<1>2. ASSUME NEW w \in Workers, NEW b \in Batches, InsertChunk(w, b) \/ InsertChunkFails(w, b)
      PROVE  RowsInv'
  <2> DEFINE last == ChunkEnd(b, task[w][b].flushed)
  <2>1. HasChunk(b, task[w][b].flushed)
    BY <1>2 DEF InsertChunk, InsertChunkFails
  <2>2. task' = [task EXCEPT ![w][b] = At("failing")]
          \/ /\ Chunk(w, b) \cap rows[b] = {}
             /\ task' = [task EXCEPT ![w][b] = [pc |-> "stream", flushed |-> last]]
             /\ rows' = [rows EXCEPT ![b] = @ \cup Chunk(w, b)]
    BY <1>2 DEF InsertChunk, InsertChunkFails, Runs
  <2>3. \/ rows' = rows
        \/ /\ Chunk(w, b) \cap rows[b] = {}
           /\ rows' = [rows EXCEPT ![b] = @ \cup Chunk(w, b)]
    <3>1. CASE InsertChunk(w, b)
      BY <3>1 DEF InsertChunk
    <3>2. CASE InsertChunkFails(w, b)
      BY <3>2 DEF InsertChunkFails
    <3>3. QED
      BY <1>2, <3>1, <3>2
  <2>4. Chunk(w, b) \cap rows[b] = {} =>
          /\ last \in 1 .. Rows[b]
          /\ task[w][b].flushed < last
          /\ FirstRows(b, task[w][b].flushed)
          /\ rows[b] \cup Chunk(w, b) = 1 .. last
    BY <2>1, ChunkFits
  <2>5. RowsInOrder'
    <3>1. CASE rows' = rows
      BY <3>1 DEF RowsInv, RowsInOrder, FirstRows
    <3>2. CASE /\ Chunk(w, b) \cap rows[b] = {}
               /\ rows' = [rows EXCEPT ![b] = @ \cup Chunk(w, b)]
      <4>1. last \in 0 .. Rows[b] /\ rows'[b] = 1 .. last
        BY <2>4, <3>2, ImportAssumption DEF TypeOK
      <4>2. \A c \in Batches : c # b => rows'[c] = rows[c]
        BY <3>2 DEF TypeOK
      <4>3. QED
        BY <4>1, <4>2 DEF RowsInv, RowsInOrder, FirstRows
    <3>3. QED
      BY <2>3, <3>1, <3>2
  <2>6. \A v \in Workers : Chunk(w, b) \cap rows[b] = {} /\ task[v][b].flushed > 0 => v = w
    <3> SUFFICES ASSUME NEW v \in Workers, Chunk(w, b) \cap rows[b] = {}, task[v][b].flushed > 0
                 PROVE  v = w
      OBVIOUS
    <3>1. 1 .. task[v][b].flushed = 1 .. task[w][b].flushed
      BY <2>4 DEF RowsInv, WriterAtEnd, FirstRows
    <3>2. task[w][b].flushed > 0
      BY <3>1 DEF TypeOK
    <3>3. QED
      BY <3>2 DEF RowsInv, OneWriter
  <2>7. WriterAtEnd'
    <3> SUFFICES ASSUME NEW v \in Workers, NEW c \in Batches, task'[v][c].flushed > 0
                 PROVE  task'[v][c].pc = "stream" /\ rows'[c] = 1 .. task'[v][c].flushed
      BY DEF WriterAtEnd, FirstRows
    <3>1. CASE v = w /\ c = b
      <4>1. task' # [task EXCEPT ![w][b] = At("failing")]
        BY <3>1 DEF TypeOK, At
      <4>2. task'[w][b] = [pc |-> "stream", flushed |-> last]
        BY <2>2, <4>1 DEF TypeOK
      <4>3. rows'[b] = 1 .. last
        BY <2>2, <2>4, <4>1 DEF TypeOK
      <4>4. QED
        BY <3>1, <4>2, <4>3
    <3>2. CASE ~(v = w /\ c = b)
      <4>1. task'[v][c] = task[v][c]
        BY <2>2, <3>2 DEF TypeOK
      <4>2. rows'[c] = rows[c]
        BY <2>3, <2>6, <3>2, <4>1 DEF TypeOK
      <4>3. QED
        BY <4>1, <4>2 DEF RowsInv, WriterAtEnd, FirstRows
    <3>3. QED
      BY <3>1, <3>2
  <2>8. OneWriter'
    <3>1. \A v \in Workers, c \in Batches : ~(v = w /\ c = b) => task'[v][c] = task[v][c]
      BY <2>2 DEF TypeOK
    <3>2. task'[w][b].flushed > 0 => Chunk(w, b) \cap rows[b] = {}
      BY <2>2 DEF TypeOK, At
    <3>3. QED
      BY <2>6, <3>1, <3>2 DEF RowsInv, OneWriter
  <2>9. QED
    BY <2>5, <2>7, <2>8 DEF RowsInv
<1>3. QED
  BY <1>1, <1>2

-----------------------------------------------------------------------------
(* What a step that announces no batch may do to one. *)
Announced(c) == /\ batch'[c].status = batch[c].status
                /\ batch'[c].rowCount = batch[c].rowCount
                /\ batch'[c].errorCount = batch[c].errorCount
Demoted(c)   == /\ batch'[c].status # "processed"
                /\ batch'[c].rowCount \in {0, batch[c].rowCount}

(* Only the last update of processBatch announces a batch or counts rows.  *)
LEMMA UnannouncedStep ==
  ASSUME TypeOK, [Next]_vars,
         ~ \E w \in Workers, b \in Batches : Complete(w, b) \/ CompleteFails(w, b)
  PROVE  \A c \in Batches : Announced(c) \/ Demoted(c)
<1> USE DEF TypeOK, apiVars, workerVars, storeVars, Row, Announced, Demoted
<1>1. ASSUME batch' = batch PROVE \A c \in Batches : Announced(c) \/ Demoted(c)
  BY <1>1
<1>2. ASSUME NEW b \in Batches,
             \/ batch' = [batch EXCEPT ![b] = NewBatch]
             \/ batch' = WithKey(b)
             \/ batch' = Refused(b)
             \/ batch' = Broken(b)
      PROVE  \A c \in Batches : Announced(c) \/ Demoted(c)
  <2>1. \A c \in Batches \ {b} : batch'[c] = batch[c]
    BY <1>2 DEF NewBatch, WithKey, Refused, Broken
  <2>2. Announced(b) \/ Demoted(b)
    BY <1>2 DEF NewBatch, WithKey, Refused, Broken
  <2>3. QED
    BY <2>1, <2>2
<1>3. ASSUME NEW b \in Batches, CreateBatch(b) \/ ApiStep(b) \/ ApiFault(b)
      PROVE  \A c \in Batches : Announced(c) \/ Demoted(c)
  <2>1. \/ batch' = batch
        \/ batch' = [batch EXCEPT ![b] = NewBatch]
        \/ batch' = WithKey(b)
        \/ batch' = Refused(b)
    BY <1>3 DEF ApiStep, ApiFault, CreateBatch, UploadBlob, SaveKey, Publish, PublishThrows,
       MarkRefused, CreateBatchFails, UploadBlobFails, SaveKeyFails, PublishLost,
       MarkRefusedFails
  <2>2. QED
    BY <1>1, <1>2, <2>1
<1>4. ASSUME NEW w \in Workers, NEW b \in Batches,
             TaskStep(w, b) \/ TaskFault(w, b), ~Complete(w, b), ~CompleteFails(w, b)
      PROVE  \A c \in Batches : Announced(c) \/ Demoted(c)
  <2>1. \/ batch' = batch
        \/ batch' = Refused(b)
        \/ batch' = Broken(b)
    BY <1>4 DEF TaskStep, TaskFault, FindBatch, Download, InsertChunk, ParseError, MarkFailed,
       Ack, FindOrDownloadFails, InsertChunkFails, MarkFailedFails
  <2>2. QED
    BY <1>1, <1>2, <2>1
<1>5. CASE \/ \E w \in Workers : Start(w) \/ CloseChannel(w) \/ Exit(w) \/ Crash(w)
           \/ \E w \in Workers, b \in Batches : Deliver(w, b)
           \/ ApiChannelCloses \/ ApiRestarts \/ UNCHANGED vars
  <2>1. batch' = batch
    BY <1>5 DEF Start, CloseChannel, Exit, Crash, Deliver, ApiChannelCloses, ApiRestarts, vars
  <2>2. QED
    BY <1>1, <2>1
<1>6. QED
  BY <1>3, <1>4, <1>5 DEF Next

(* At the end of the loop every row of the file is stored. *)
LEMMA FlushedIsStored ==
  ASSUME TypeOK, RowsInv, NEW w \in Workers, NEW b \in Batches, AllFlushed(w, b)
  PROVE  b \notin Malformed /\ FirstRows(b, Rows[b])
<1>1. CASE Rows[b] = 0
  BY <1>1 DEF AllFlushed, RowsInv, RowsInOrder, FirstRows
<1>2. CASE Rows[b] > 0
  BY <1>2 DEF AllFlushed, RowsInv, WriterAtEnd
<1>3. QED
  BY <1>1, <1>2, ImportAssumption DEF AllFlushed

LEMMA CountStep == TypeOK /\ RowsInv /\ CountInv /\ [Next]_vars => CountInv'
<1> SUFFICES ASSUME TypeOK, RowsInv, CountInv, [Next]_vars PROVE CountInv'
  OBVIOUS
<1>1. \A c \in Batches : FirstRows(c, Rows[c]) => FirstRows(c, Rows[c])'
  BY RowsGrow, TypeStep DEF TypeOK, FirstRows
<1>2. CASE ~ \E w \in Workers, b \in Batches : Complete(w, b) \/ CompleteFails(w, b)
  <2>1. \A c \in Batches : Announced(c) \/ Demoted(c)
    BY <1>2, UnannouncedStep
  <2>2. ProcessedIsComplete'
    BY <1>1, <2>1 DEF CountInv, ProcessedIsComplete, Announced, Demoted
  <2>3. CountedIsComplete'
    BY <1>1, <2>1 DEF CountInv, CountedIsComplete, Announced, Demoted
  <2>4. QED
    BY <2>2, <2>3 DEF CountInv
<1>3. ASSUME NEW w \in Workers, NEW b \in Batches, Complete(w, b) \/ CompleteFails(w, b)
      PROVE  CountInv'
  <2>1. b \notin Malformed /\ FirstRows(b, Rows[b])'
    BY <1>1, <1>3, FlushedIsStored DEF Complete, CompleteFails
  <2>2. batch' = batch \/ batch' = [batch EXCEPT ![b] = Row("processed", @.storageKey, Rows[b], 0)]
    BY <1>3 DEF Complete, CompleteFails, Processed
  <2>3. \A c \in Batches :
          \/ batch'[c] = batch[c]
          \/ /\ c = b
             /\ batch'[c].status = "processed"
             /\ batch'[c].rowCount = Rows[b]
             /\ batch'[c].errorCount = 0
    <3>1. \A c \in Batches \ {b} : batch'[c] = batch[c]
      BY <2>2 DEF TypeOK
    <3>2. \/ batch'[b] = batch[b]
          \/ batch'[b] = Row("processed", batch[b].storageKey, Rows[b], 0)
      BY <2>2 DEF TypeOK
    <3>3. QED
      BY <3>1, <3>2 DEF Row
  <2>4. ProcessedIsComplete'
    BY <1>1, <2>1, <2>3 DEF CountInv, ProcessedIsComplete
  <2>5. CountedIsComplete'
    BY <1>1, <2>1, <2>3 DEF CountInv, CountedIsComplete
  <2>6. QED
    BY <2>4, <2>5 DEF CountInv
<1>4. QED
  BY <1>2, <1>3

-----------------------------------------------------------------------------
(* A worker's step leaves the requests, the blobs and the keys alone, gives *)
(* no batch its first status, and stores rows only for a job at hand.       *)
WorkerEffect ==
  /\ request' = request
  /\ blobs' = blobs
  /\ \A c \in Batches :
       /\ batch'[c].storageKey = batch[c].storageKey
       /\ HasJob(c)' => HasJob(c)
       /\ rows'[c] # {} => HasJob(c) \/ rows[c] # {}
       /\ IF HasJob(c) THEN batch[c].status # "none" => batch'[c].status # "none"
                       ELSE batch'[c] = batch[c]

LEMMA TaskEffect ==
  ASSUME TypeOK, NEW w \in Workers, NEW b \in Batches, TaskStep(w, b) \/ TaskFault(w, b)
  PROVE  WorkerEffect
<1> USE DEF apiVars, workerVars, storeVars
<1>1. task[w][b].pc # "idle"
  BY DEF TaskStep, TaskFault, FindBatch, Download, InsertChunk, ParseError, Complete, MarkFailed,
     Ack, FindOrDownloadFails, InsertChunkFails, CompleteFails, MarkFailedFails, Runs
<1>2. HasJob(b)
  BY <1>1 DEF HasJob, Held
<1>3. request' = request /\ blobs' = blobs /\ ready' = ready
  BY DEF TaskStep, TaskFault, FindBatch, Download, InsertChunk, ParseError, Complete, MarkFailed,
     Ack, FindOrDownloadFails, InsertChunkFails, CompleteFails, MarkFailedFails
<1>4. \E to : task' = [task EXCEPT ![w][b] = to]
  BY DEF TaskStep, TaskFault, FindBatch, Download, InsertChunk, ParseError, Complete, MarkFailed,
     Ack, FindOrDownloadFails, InsertChunkFails, CompleteFails, MarkFailedFails, Runs
<1>5. \A c \in Batches \ {b} : HasJob(c)' => HasJob(c)
  BY <1>3, <1>4 DEF HasJob, Held, TypeOK
<1>6. \/ batch' = batch
      \/ batch' = Refused(b)
      \/ batch' = Processed(b)
      \/ batch' = Broken(b)
  BY DEF TaskStep, TaskFault, FindBatch, Download, InsertChunk, ParseError, Complete, MarkFailed,
     Ack, FindOrDownloadFails, InsertChunkFails, CompleteFails, MarkFailedFails
<1>7. /\ \A c \in Batches \ {b} : batch'[c] = batch[c]
      /\ batch'[b].storageKey = batch[b].storageKey
      /\ batch'[b].status # "none" \/ batch' = batch
  BY <1>6 DEF Refused, Processed, Broken, Row, TypeOK
<1>8. rows' = rows \/ rows' = [rows EXCEPT ![b] = @ \cup Chunk(w, b)]
  BY DEF TaskStep, TaskFault, FindBatch, Download, InsertChunk, ParseError, Complete, MarkFailed,
     Ack, FindOrDownloadFails, InsertChunkFails, CompleteFails, MarkFailedFails
<1>9. \A c \in Batches \ {b} : rows'[c] = rows[c]
  BY <1>8 DEF TypeOK
<1>10. QED
  BY <1>2, <1>3, <1>5, <1>7, <1>9 DEF WorkerEffect

LEMMA ProcessEffect ==
  ASSUME TypeOK, NEW w \in Workers,
         \/ Start(w) \/ CloseChannel(w) \/ Exit(w) \/ Crash(w)
         \/ \E b \in Batches : Deliver(w, b)
  PROVE  WorkerEffect
<1> USE DEF apiVars, workerVars, storeVars
<1>1. request' = request /\ blobs' = blobs /\ batch' = batch /\ rows' = rows
  BY DEF Start, CloseChannel, Exit, Crash, Deliver
<1>2. \A c \in Batches : HasJob(c)' => HasJob(c)
  <2>1. CASE Start(w)
    BY <2>1 DEF Start, HasJob, Held
  <2>2. CASE CloseChannel(w)
    BY <2>2 DEF CloseChannel, InFlight, HasJob, Held
  <2>3. CASE Exit(w)
    BY <2>3 DEF Exit, HasJob, Held, Idle, TypeOK
  <2>4. CASE Crash(w)
    BY <2>4 DEF Crash, InFlight, HasJob, Held, Idle, TypeOK
  <2>5. ASSUME NEW b \in Batches, Deliver(w, b) PROVE \A c \in Batches : HasJob(c)' => HasJob(c)
    BY <2>5 DEF Deliver, HasJob, Held, TypeOK
  <2>6. QED
    BY <2>1, <2>2, <2>3, <2>4, <2>5
<1>3. QED
  BY <1>1, <1>2 DEF WorkerEffect

(* An API step changes neither the rows nor the handlers, and adds a job   *)
(* only for a batch whose row, blob and key are written.                   *)
LEMMA ApiJobStep ==
  ASSUME TypeOK, JobInv, NEW b \in Batches, CreateBatch(b) \/ ApiStep(b) \/ ApiFault(b)
  PROVE  JobInv'
<1> USE DEF apiVars, workerVars, storeVars, Moves
<1>1. rows' = rows /\ task' = task /\ blobs \subseteq blobs'
  BY DEF ApiStep, ApiFault, CreateBatch, UploadBlob, SaveKey, Publish, PublishThrows,
     MarkRefused, CreateBatchFails, UploadBlobFails, SaveKeyFails, PublishLost, MarkRefusedFails
<1>2. request[b] # "replied"
  BY DEF ApiStep, ApiFault, CreateBatch, UploadBlob, SaveKey, Publish, PublishThrows,
     MarkRefused, CreateBatchFails, UploadBlobFails, SaveKeyFails, PublishLost, MarkRefusedFails
<1>3. \/ ready' = ready
      \/ ready' = ready \cup {b} /\ request[b] = "keyed" /\ request'[b] = "replied" /\ batch' = batch
  BY DEF ApiStep, ApiFault, CreateBatch, UploadBlob, SaveKey, Publish, PublishThrows,
     MarkRefused, CreateBatchFails, UploadBlobFails, SaveKeyFails, PublishLost,
     MarkRefusedFails, TypeOK
<1>4. \A c \in Batches \ {b} : /\ request'[c] = request[c]
                               /\ batch'[c] = batch[c]
                               /\ HasJob(c)' = HasJob(c)
  <2>1. \A c \in Batches \ {b} : request'[c] = request[c] /\ batch'[c] = batch[c]
    BY DEF ApiStep, ApiFault, CreateBatch, UploadBlob, SaveKey, Publish, PublishThrows,
       MarkRefused, CreateBatchFails, UploadBlobFails, SaveKeyFails, PublishLost,
       MarkRefusedFails, TypeOK, NewBatch, WithKey, Refused
  <2>2. QED
    BY <1>1, <1>3, <2>1 DEF HasJob, Held
<1>5. ~HasJob(b) /\ rows[b] = {}
  BY <1>2 DEF JobInv, JobOrigin
<1>6. HasJob(b)' => request[b] = "keyed" /\ request'[b] = "replied" /\ batch' = batch
  BY <1>1, <1>3, <1>5 DEF HasJob, Held
<1>7. /\ request'[b] = "new" => batch'[b].status = "none"
      /\ request'[b] \in InProgress => batch'[b].status # "none"
      /\ request'[b] \in {"stored", "keyed"} => b \in blobs'
      /\ request'[b] = "keyed" => batch'[b].storageKey = b
  <2> USE DEF JobInv, RequestOrder, TypeOK, InProgress, Row, BlobName
  <2>1. CASE CreateBatch(b)
    BY <2>1 DEF CreateBatch, NewBatch
  <2>2. CASE ApiStep(b)
    <3>1. CASE UploadBlob(b)
      BY <3>1 DEF UploadBlob
    <3>2. CASE SaveKey(b)
      BY <3>2 DEF SaveKey, WithKey
    <3>3. CASE Publish(b) \/ PublishThrows(b) \/ MarkRefused(b)
      BY <3>3 DEF Publish, PublishThrows, MarkRefused
    <3>4. QED
      BY <2>2, <3>1, <3>2, <3>3 DEF ApiStep
  <2>3. CASE ApiFault(b)
    <3>1. CASE UploadBlobFails(b)
      BY <3>1 DEF UploadBlobFails
    <3>2. CASE SaveKeyFails(b)
      BY <3>2 DEF SaveKeyFails, WithKey
    <3>3. CASE CreateBatchFails(b) \/ PublishLost(b) \/ MarkRefusedFails(b)
      BY <3>3 DEF CreateBatchFails, PublishLost, MarkRefusedFails
    <3>4. QED
      BY <2>3, <3>1, <3>2, <3>3 DEF ApiFault
  <2>4. QED
    BY <2>1, <2>2, <2>3
<1>8. RequestOrder'
  BY <1>1, <1>4, <1>7 DEF JobInv, RequestOrder
<1>9. JobOrigin'
  BY <1>1, <1>4, <1>5, <1>6 DEF JobInv, JobOrigin
<1>10. JobIsDownloadable'
  <2>1. HasJob(b)' => b \in blobs /\ batch'[b].storageKey = b /\ batch'[b].status # "none"
    BY <1>6 DEF JobInv, RequestOrder, InProgress
  <2>2. QED
    BY <1>1, <1>4, <2>1 DEF JobInv, JobIsDownloadable
<1>11. QED
  BY <1>8, <1>9, <1>10 DEF JobInv

LEMMA JobStep == TypeOK /\ JobInv /\ [Next]_vars => JobInv'
<1> SUFFICES ASSUME TypeOK, JobInv, [Next]_vars PROVE JobInv'
  OBVIOUS
<1>1. ASSUME WorkerEffect PROVE JobInv'
  <2>1. \A c \in Batches : batch[c].status = "none" => batch'[c].status = "none"
    BY <1>1 DEF WorkerEffect, JobInv, JobIsDownloadable
  <2>2. \A c \in Batches : batch[c].status # "none" => batch'[c].status # "none"
    BY <1>1 DEF WorkerEffect
  <2>3. RequestOrder'
    BY <1>1, <2>1, <2>2 DEF WorkerEffect, JobInv, RequestOrder
  <2>4. JobOrigin'
    BY <1>1 DEF WorkerEffect, JobInv, JobOrigin
  <2>5. JobIsDownloadable'
    BY <1>1, <2>2 DEF WorkerEffect, JobInv, JobIsDownloadable
  <2>6. QED
    BY <2>3, <2>4, <2>5 DEF JobInv
<1>2. CASE ApiChannelCloses \/ ApiRestarts
  <2>1. blobs' = blobs /\ batch' = batch /\ rows' = rows /\ ready' = ready /\ task' = task
    BY <1>2 DEF ApiChannelCloses, ApiRestarts, storeVars, workerVars
  <2>2. \A c \in Batches :
          request'[c] = request[c] \/ (request[c] \in InProgress /\ request'[c] = "abandoned")
    BY <1>2 DEF ApiChannelCloses, ApiRestarts, TypeOK
  <2>3. \A c \in Batches : HasJob(c)' = HasJob(c)
    BY <2>1 DEF HasJob, Held
  <2>4. RequestOrder'
    BY <2>1, <2>2 DEF JobInv, RequestOrder, InProgress
  <2>5. JobOrigin' /\ JobIsDownloadable'
    BY <2>1, <2>2, <2>3 DEF JobInv, JobOrigin, JobIsDownloadable, InProgress
  <2>6. QED
    BY <2>4, <2>5 DEF JobInv
<1>3. CASE UNCHANGED vars
  BY <1>3 DEF vars, JobInv, RequestOrder, JobOrigin, JobIsDownloadable, HasJob, Held
<1>4. QED
  BY <1>1, <1>2, <1>3, ApiJobStep, TaskEffect, ProcessEffect DEF Next

-----------------------------------------------------------------------------
LEMMA InitIInv == Init => IInv
<1> SUFFICES ASSUME Init PROVE IInv
  OBVIOUS
<1>1. TypeOK
  BY ImportAssumption DEF Init, TypeOK, InProgress, Statuses, Stages, NoBatch, Row, Idle
<1>2. RowsInv
  BY ImportAssumption DEF Init, RowsInv, RowsInOrder, FirstRows, WriterAtEnd, OneWriter, Idle
<1>3. CountInv
  BY DEF Init, CountInv, ProcessedIsComplete, CountedIsComplete, NoBatch, Row
<1>4. JobInv
  BY DEF Init, JobInv, RequestOrder, JobOrigin, JobIsDownloadable, HasJob, Held, InProgress,
     NoBatch, Row, Idle
<1>5. QED
  BY <1>1, <1>2, <1>3, <1>4 DEF IInv

(* Every state the pipeline reaches, under any interleaving and any number *)
(* of failures, crashes and redeliveries, satisfies the invariant.         *)
THEOREM Invariance == Spec => []IInv
<1>1. IInv /\ [Next]_vars => IInv'
  BY TypeStep, RowsStep, CountStep, JobStep DEF IInv
<1>2. QED
  BY InitIInv, <1>1, PTL DEF Spec

(* Every variable keeps its type. *)
THEOREM TypeCorrect == Spec => []TypeOK
<1>1. IInv => TypeOK
  BY DEF IInv
<1>2. QED
  BY Invariance, <1>1, PTL

(* The stored rows of a batch are always the first ones of its file.       *)
THEOREM NoGaps == Spec => []RowsInOrder
<1>1. IInv => RowsInOrder
  BY DEF IInv, RowsInv
<1>2. QED
  BY Invariance, <1>1, PTL

(* A batch announced as processed is complete and counted.                 *)
THEOREM ProcessedComplete == Spec => []ProcessedIsComplete
<1>1. IInv => ProcessedIsComplete
  BY DEF IInv, CountInv
<1>2. QED
  BY Invariance, <1>1, PTL

(* Of two handlers of one job at most one gets rows stored.                *)
THEOREM SingleWriter == Spec => []OneWriter
<1>1. IInv => OneWriter
  BY DEF IInv, RowsInv
<1>2. QED
  BY Invariance, <1>1, PTL

(* A worker finds the batch, the blob and the key of every job it is given. *)
THEOREM JobsDownloadable == Spec => []JobIsDownloadable
<1>1. IInv => JobIsDownloadable
  BY DEF IInv, JobInv
<1>2. QED
  BY Invariance, <1>1, PTL

(* An upload answered with an error is never imported.                     *)
THEOREM RefusedUnpublished == Spec => []RefusedIsUnpublished
<1>1. IInv => RefusedIsUnpublished
  BY DEF IInv, JobInv, JobOrigin, RefusedIsUnpublished
<1>2. QED
  BY Invariance, <1>1, PTL

-----------------------------------------------------------------------------
(* The refinement: which step of the ledger each step of the pipeline is.  *)

LEMMA KeepsLedger ==
  ASSUME batch' = batch, rows' = rows
  PROVE  UNCHANGED Ledger!ledger
BY DEF Ledger!ledger

LEMMA RegisterStep ==
  ASSUME IInv, NEW b \in Batches, request[b] = "new",
         batch' = [batch EXCEPT ![b] = NewBatch], rows' = rows
  PROVE  Ledger!Register(b)
<1> USE DEF IInv, TypeOK
<1>1. batch[b].status = "none" /\ rows[b] = {}
  BY DEF JobInv, RequestOrder, JobOrigin
<1>2. batch[b].rowCount = 0
  <2>1. CASE batch[b].rowCount # 0
    <3>1. batch[b].rowCount = Rows[b] /\ rows[b] = 1 .. Rows[b] /\ Rows[b] \in Nat
      BY <2>1, ImportAssumption DEF CountInv, CountedIsComplete, FirstRows
    <3>2. 1 \in rows[b]
      BY <2>1, <3>1
    <3>3. QED
      BY <1>1, <3>2
  <2>2. QED
    BY <2>1
<1>3. batch' = [batch EXCEPT ![b] = Row("uploaded", NoKey, 0, 0)]
  BY DEF NewBatch
<1>4. [c \in Batches |-> batch'[c].status]
        = [[c \in Batches |-> batch[c].status] EXCEPT ![b] = "uploaded"]
  <2>1. \A c \in Batches \ {b} : batch'[c] = batch[c]
    BY <1>3
  <2>2. batch'[b].status = "uploaded"
    BY <1>3 DEF Row
  <2>3. QED
    BY <2>1, <2>2
<1>5. [c \in Batches |-> batch'[c].rowCount] = [c \in Batches |-> batch[c].rowCount]
  BY <1>2, <1>3 DEF Row
<1>6. QED
  BY <1>1, <1>4, <1>5 DEF Ledger!Register

LEMMA RejectStep ==
  ASSUME IInv, NEW b \in Batches, batch[b].status # "none",
         batch' = Refused(b) \/ batch' = Broken(b), rows' = rows
  PROVE  Ledger!Reject(b)
<1> USE DEF IInv, TypeOK
<1>1. PICK errors :
        batch' = [batch EXCEPT ![b] = Row("failed", batch[b].storageKey, batch[b].rowCount, errors)]
  BY DEF Refused, Broken
<1>2. batch[b].rowCount \in Nat /\ "failed" \in Statuses
  BY DEF Statuses
<1>3. [c \in Batches |-> batch'[c].status]
        = [[c \in Batches |-> batch[c].status] EXCEPT ![b] = "failed"]
  BY <1>1, <1>2 DEF Row
<1>4. [c \in Batches |-> batch'[c].rowCount] = [c \in Batches |-> batch[c].rowCount]
  BY <1>1, <1>2 DEF Row
<1>5. QED
  BY <1>3, <1>4 DEF Ledger!Reject

LEMMA KeyStep ==
  ASSUME IInv, NEW b \in Batches, batch' = WithKey(b), rows' = rows
  PROVE  UNCHANGED Ledger!ledger
BY DEF IInv, TypeOK, WithKey, Row, Ledger!ledger

LEMMA AnnounceStep ==
  ASSUME IInv, NEW w \in Workers, NEW b \in Batches, batch[b].status # "none",
         AllFlushed(w, b), batch' = Processed(b), rows' = rows
  PROVE  Ledger!Announce(b)
<1> USE DEF IInv, TypeOK
<1>1. b \notin Malformed /\ rows[b] = 1 .. Rows[b]
  BY FlushedIsStored DEF FirstRows
<1>2. batch' = [batch EXCEPT ![b] = Row("processed", batch[b].storageKey, Rows[b], 0)]
  BY DEF Processed
<1>3. Rows[b] \in Nat /\ "processed" \in Statuses
  BY ImportAssumption DEF Statuses
<1>4. /\ [c \in Batches |-> batch'[c].status]
           = [[c \in Batches |-> batch[c].status] EXCEPT ![b] = "processed"]
      /\ [c \in Batches |-> batch'[c].rowCount]
           = [[c \in Batches |-> batch[c].rowCount] EXCEPT ![b] = Rows[b]]
  <2>1. \A c \in Batches \ {b} : batch'[c] = batch[c]
    BY <1>2
  <2>2. batch'[b].status = "processed" /\ batch'[b].rowCount = Rows[b]
    BY <1>2 DEF Row
  <2>3. QED
    BY <2>1, <2>2
<1>5. QED
  BY <1>1, <1>4 DEF Ledger!Announce

LEMMA AppendStep ==
  ASSUME IInv, NEW w \in Workers, NEW b \in Batches, batch[b].status # "none", batch' = batch,
         HasChunk(b, task[w][b].flushed), Chunk(w, b) \cap rows[b] = {},
         rows' = [rows EXCEPT ![b] = @ \cup Chunk(w, b)]
  PROVE  Ledger!Append(b)
<1> DEFINE m == task[w][b].flushed
           n == ChunkEnd(b, m)
<1>1. n \in 1 .. Rows[b] /\ m < n /\ rows[b] = 1 .. m /\ rows[b] \cup Chunk(w, b) = 1 .. n
  BY ChunkFits DEF IInv, FirstRows
<1>2. m \in 0 .. Rows[b] /\ n \in m + 1 .. Rows[b]
  BY <1>1, ImportAssumption DEF IInv, TypeOK
<1>3. rows' = [rows EXCEPT ![b] = 1 .. n]
  BY <1>1
<1> HIDE DEF m, n
<1>4. QED
  BY <1>1, <1>2, <1>3 DEF Ledger!Append

LEMMA LedgerStep == IInv /\ [Next]_vars => [Ledger!Next]_(Ledger!ledger)
<1> SUFFICES ASSUME IInv, [Next]_vars
             PROVE  Ledger!Next \/ UNCHANGED Ledger!ledger
  OBVIOUS
<1> USE DEF apiVars, workerVars, storeVars, Ledger!Next
<1>1. ASSUME NEW b \in Batches, CreateBatch(b) \/ ApiStep(b) \/ ApiFault(b)
      PROVE  Ledger!Next \/ UNCHANGED Ledger!ledger
  <2>1. rows' = rows
    BY <1>1 DEF ApiStep, ApiFault, CreateBatch, UploadBlob, SaveKey, Publish, PublishThrows,
       MarkRefused, CreateBatchFails, UploadBlobFails, SaveKeyFails, PublishLost, MarkRefusedFails
  <2>2. \/ batch' = batch
        \/ batch' = [batch EXCEPT ![b] = NewBatch] /\ request[b] = "new"
        \/ batch' = WithKey(b)
        \/ batch' = Refused(b) /\ request[b] = "failing"
    BY <1>1 DEF ApiStep, ApiFault, CreateBatch, UploadBlob, SaveKey, Publish, PublishThrows,
       MarkRefused, CreateBatchFails, UploadBlobFails, SaveKeyFails, PublishLost,
       MarkRefusedFails, Moves
  <2>3. request[b] = "failing" => batch[b].status # "none"
    BY DEF IInv, JobInv, RequestOrder, InProgress
  <2>4. QED
    BY <2>1, <2>2, <2>3, KeepsLedger, RegisterStep, KeyStep, RejectStep
<1>2. ASSUME NEW w \in Workers, NEW b \in Batches, TaskStep(w, b) \/ TaskFault(w, b)
      PROVE  Ledger!Next \/ UNCHANGED Ledger!ledger
  <2>1. batch[b].status # "none"
    <3>1. task[w][b].pc # "idle"
      BY <1>2 DEF TaskStep, TaskFault, FindBatch, Download, InsertChunk, ParseError, Complete,
         MarkFailed, Ack, FindOrDownloadFails, InsertChunkFails, CompleteFails, MarkFailedFails,
         Runs
    <3>2. QED
      BY <3>1 DEF IInv, JobInv, JobIsDownloadable, HasJob, Held
  <2>2. \/ batch' = batch /\ rows' = rows
        \/ (batch' = Refused(b) \/ batch' = Broken(b)) /\ rows' = rows
        \/ AllFlushed(w, b) /\ batch' = Processed(b) /\ rows' = rows
        \/ /\ HasChunk(b, task[w][b].flushed)
           /\ Chunk(w, b) \cap rows[b] = {}
           /\ batch' = batch
           /\ rows' = [rows EXCEPT ![b] = @ \cup Chunk(w, b)]
    <3>1. CASE InsertChunk(w, b) \/ InsertChunkFails(w, b)
      BY <3>1 DEF InsertChunk, InsertChunkFails
    <3>2. CASE ~(InsertChunk(w, b) \/ InsertChunkFails(w, b))
      BY <1>2, <3>2 DEF TaskStep, TaskFault, FindBatch, Download, ParseError, Complete,
         MarkFailed, Ack, FindOrDownloadFails, CompleteFails, MarkFailedFails
    <3>3. QED
      BY <3>1, <3>2
  <2>3. QED
    BY <2>1, <2>2, KeepsLedger, RejectStep, AnnounceStep, AppendStep
<1>3. CASE \/ \E w \in Workers : Start(w) \/ CloseChannel(w) \/ Exit(w) \/ Crash(w)
           \/ \E w \in Workers, b \in Batches : Deliver(w, b)
           \/ ApiChannelCloses \/ ApiRestarts \/ UNCHANGED vars
  <2>1. batch' = batch /\ rows' = rows
    BY <1>3 DEF Start, CloseChannel, Exit, Crash, Deliver, ApiChannelCloses, ApiRestarts, vars
  <2>2. QED
    BY <2>1, KeepsLedger
<1>4. QED
  BY <1>1, <1>2, <1>3 DEF Next

(* The pipeline implements the ledger: whatever fails, the tables change   *)
(* only as ImportLedger allows.                                            *)
THEOREM Implements == Spec => ImplementsLedger
<1>1. Init => Ledger!Init
  BY DEF Init, Ledger!Init, NoBatch, Row
<1>2. QED
  BY <1>1, Invariance, LedgerStep, PTL DEF Spec, ImplementsLedger, Ledger!Spec
=============================================================================
