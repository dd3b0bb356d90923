--------------------------- MODULE ImportPipeline ---------------------------
(***************************************************************************)
(* The CSV import pipeline: the API handler that takes an upload           *)
(* (finance.service.ts, createCsvImport), the RabbitMQ queue that carries  *)
(* one job per batch, and the worker processes that consume it             *)
(* (import-worker.ts).  They meet in four shared places: the blob          *)
(* container, the queue, and the tables import_batches and import_rows.    *)
(*                                                                         *)
(* A step is what runs between two awaits that reach one of those places.  *)
(* A failed remote call is an action of its own, whose effect may or may   *)
(* not have been applied; these, the crashes and the closed channels are   *)
(* the disruptions, and MaxDisruptions bounds how many a behaviour has.    *)
(***************************************************************************)
EXTENDS Integers, FiniteSets

CONSTANTS
  Batches,        \* one accepted upload each; also names its batch row and blob
  Workers,        \* the import-worker processes
  Rows,           \* Rows[b]: records csv-parse yields before the end or an error
  Malformed,      \* uploads whose text makes csv-parse raise an error
  BatchSize,      \* IMPORT_BATCH_SIZE
  Prefetch,       \* IMPORT_PREFETCH
  NoKey,          \* the null storageKey
  MaxDisruptions  \* bound on failures, crashes and closed channels

ASSUME ImportAssumption ==
  /\ Rows \in [Batches -> Nat]
  /\ Malformed \subseteq Batches
  /\ BatchSize \in Nat \ {0}
  /\ Prefetch \in Nat \ {0}
  /\ NoKey \notin Batches
  /\ MaxDisruptions \in Nat

VARIABLES
  request,     \* request[b]: where createCsvImport stands for upload b
  channel,     \* the API's cached amqplib channel: open or closed
  blobs,       \* the blobs in the container
  batch,       \* batch[b]: the row of import_batches
  rows,        \* rows[b]: the rowIndex values stored in import_rows for b
  ready,       \* the jobs waiting in the queue
  worker,      \* worker[w]: the state of the process and its channel
  task,        \* task[w][b]: the handler of job b running in worker w
  disruptions  \* the disruptions so far

apiVars    == <<request, channel>>
workerVars == <<worker, task>>
storeVars  == <<blobs, batch, rows>>
vars       == <<request, channel, blobs, batch, rows, ready, worker, task, disruptions>>

-----------------------------------------------------------------------------
Statuses   == {"none", "uploaded", "processed", "failed"}   \* none: no row yet
InProgress == {"saved", "stored", "keyed", "failing"}
Stages     == {"idle", "find", "download", "stream", "failing", "ack"}

Idle == [pc |-> "idle", flushed |-> 0]
At(pc) == [pc |-> pc, flushed |-> 0]

(* The blob's name holds the batch id, so no two batches share one. *)
BlobName(b) == b

(* The storageKey publishImportJob puts in the message of batch b. *)
JobKey(b) == BlobName(b)

(* A row of import_batches; headers and processedAt say no more than this. *)
Row(status, key, count, errors) ==
  [status |-> status, storageKey |-> key, rowCount |-> count, errorCount |-> errors]

NoBatch  == Row("none", NoKey, 0, 0)
NewBatch == Row("uploaded", NoKey, 0, 0)

(* The jobs a worker's handlers are running, and the end of the next chunk *)
(* of a file whose first n records are inserted.                           *)
InFlight(w) == {b \in Batches : task[w][b].pc # "idle"}
ChunkEndUnclamped(b, n) == n + BatchSize   \* mutant
ChunkEnd(b, n) == IF n + BatchSize <= Rows[b] THEN n + BatchSize ELSE Rows[b]

(* A full buffer is flushed at once; a partial one only after the loop, so *)
(* never when the parser raises an error.                                  *)
HasChunk(b, n) == /\ n < Rows[b]
                  /\ b \in Malformed => n + BatchSize <= Rows[b]

Disrupt == /\ disruptions < MaxDisruptions
           /\ disruptions' = disruptions + 1

TypeOK ==
  /\ request \in [Batches -> {"new", "replied", "refused", "abandoned"} \cup InProgress]
  /\ channel \in {"open", "closed"}
  /\ blobs \subseteq Batches
  /\ batch \in [Batches -> [status : Statuses, storageKey : Batches \cup {NoKey},
                            rowCount : Nat, errorCount : {0, 1}]]
  /\ rows \in [Batches -> SUBSET Nat]
  /\ \A b \in Batches : rows[b] \subseteq 1 .. Rows[b]
  /\ ready \subseteq Batches
  /\ worker \in [Workers -> {"down", "up", "draining"}]
  /\ task \in [Workers -> [Batches -> [pc : Stages, flushed : Nat]]]
  /\ \A w \in Workers, b \in Batches : task[w][b].flushed <= Rows[b]
  /\ disruptions \in 0 .. MaxDisruptions

Init ==
  /\ request = [b \in Batches |-> "new"]
  /\ channel = "open"
  /\ blobs = {}
  /\ batch = [b \in Batches |-> NoBatch]
  /\ rows = [b \in Batches |-> {}]
  /\ ready = {}
  /\ worker = [w \in Workers |-> "down"]
  /\ task = [w \in Workers |-> [b \in Batches |-> Idle]]
  /\ disruptions = 0

-----------------------------------------------------------------------------
(* The API handler createCsvImport, one await at a time.  The access and   *)
(* file checks come first and change nothing.                              *)

Moves(b, from, to) == /\ request[b] = from
                      /\ request' = [request EXCEPT ![b] = to]

CreateBatch(b) ==
  /\ Moves(b, "new", "saved")
  /\ batch' = [batch EXCEPT ![b] = NewBatch]
  /\ UNCHANGED <<channel, blobs, rows, ready, workerVars, disruptions>>

(* The save is outside the try: its failure leaves the request unanswered  *)
(* by the catch, with or without a row.                                    *)
CreateBatchFails(b) ==
  /\ Disrupt
  /\ Moves(b, "new", "abandoned")
  /\ \E applied \in BOOLEAN : batch' = IF applied THEN [batch EXCEPT ![b] = NewBatch] ELSE batch
  /\ UNCHANGED <<channel, blobs, rows, ready, workerVars>>

UploadBlobUnawaited(b) ==   \* mutant: the upload is not awaited
  /\ Moves(b, "saved", "stored")
  /\ \E done \in BOOLEAN : blobs' = IF done THEN blobs \cup {BlobName(b)} ELSE blobs
  /\ UNCHANGED <<channel, batch, rows, ready, workerVars, disruptions>>

UploadBlob(b) ==
  /\ Moves(b, "saved", "stored")
  /\ blobs' = blobs \cup {BlobName(b)}
  /\ UNCHANGED <<channel, batch, rows, ready, workerVars, disruptions>>

UploadBlobFails(b) ==
  /\ Disrupt
  /\ Moves(b, "saved", "failing")
  /\ \E applied \in BOOLEAN : blobs' = IF applied THEN blobs \cup {BlobName(b)} ELSE blobs
  /\ UNCHANGED <<channel, batch, rows, ready, workerVars>>

WithKey(b) ==
  [batch EXCEPT ![b] = Row(@.status, BlobName(b), @.rowCount, @.errorCount)]

SaveKey(b) ==
  /\ Moves(b, "stored", "keyed")
  /\ batch' = WithKey(b)
  /\ UNCHANGED <<channel, blobs, rows, ready, workerVars, disruptions>>

SaveKeyFails(b) ==
  /\ Disrupt
  /\ Moves(b, "stored", "failing")
  /\ \E applied \in BOOLEAN : batch' = IF applied THEN WithKey(b) ELSE batch
  /\ UNCHANGED <<channel, blobs, rows, ready, workerVars>>

PublishThenThrows(b) ==   \* mutant: a later call inside the try may throw
  /\ channel = "open"
  /\ \E to \in {"replied", "failing"} : Moves(b, "keyed", to)
  /\ ready' = ready \cup {b}
  /\ UNCHANGED <<channel, storeVars, workerVars, disruptions>>

(* sendToQueue returns once the message is buffered, and the reply follows *)
(* without an await.                                                       *)
Publish(b) ==
  /\ channel = "open"
  /\ Moves(b, "keyed", "replied")
  /\ ready' = ready \cup {b}
  /\ UNCHANGED <<channel, storeVars, workerVars, disruptions>>

(* The channel field is never reset, so a closed channel is used again and *)
(* sendToQueue throws.                                                     *)
PublishThrows(b) ==
  /\ channel = "closed"
  /\ Moves(b, "keyed", "failing")
  /\ UNCHANGED <<channel, storeVars, ready, workerVars, disruptions>>

(* No publisher confirm: a message buffered when the connection goes down  *)
(* is lost, and the handler replies as if it were queued.                  *)
PublishLost(b) ==
  /\ Disrupt
  /\ channel = "open"
  /\ Moves(b, "keyed", "replied")
  /\ channel' = "closed"
  /\ UNCHANGED <<storeVars, ready, workerVars>>

Refused(b) ==
  [batch EXCEPT ![b] = Row("failed", @.storageKey, @.rowCount, @.errorCount)]

MarkRefused(b) ==
  /\ Moves(b, "failing", "refused")
  /\ batch' = Refused(b)
  /\ UNCHANGED <<channel, blobs, rows, ready, workerVars, disruptions>>

MarkRefusedFails(b) ==
  /\ Disrupt
  /\ Moves(b, "failing", "abandoned")
  /\ \E applied \in BOOLEAN : batch' = IF applied THEN Refused(b) ELSE batch
  /\ UNCHANGED <<channel, blobs, rows, ready, workerVars>>

(* The broker closes the API's connection (operator, maintenance): amqplib *)
(* emits only 'close' and the cached channel stays in place.               *)
ApiChannelCloses ==
  /\ Disrupt
  /\ channel = "open"
  /\ channel' = "closed"
  /\ UNCHANGED <<request, storeVars, ready, workerVars>>

(* The API process dies and is started again: onModuleInit opens a new     *)
(* channel, the handlers that were running are gone.                       *)
ApiRestarts ==
  /\ Disrupt
  /\ request' = [b \in Batches |-> IF request[b] \in InProgress THEN "abandoned" ELSE request[b]]
  /\ channel' = "open"
  /\ UNCHANGED <<storeVars, ready, workerVars>>

-----------------------------------------------------------------------------
(* A worker process: start, the consumer's deliveries, shutdown, crash.    *)

Start(w) ==
  /\ worker[w] = "down"
  /\ worker' = [worker EXCEPT ![w] = "up"]
  /\ UNCHANGED <<apiVars, storeVars, ready, task, disruptions>>

(* The queue's order is left open: a requeued job may come back anywhere.  *)
Deliver(w, b) ==
  /\ worker[w] = "up"
  /\ b \in ready
  /\ Cardinality(InFlight(w)) < Prefetch
  /\ ready' = ready \ {b}
  /\ task' = [task EXCEPT ![w][b] = At("find")]
  /\ UNCHANGED <<apiVars, storeVars, worker, disruptions>>

(* The channel closes (the shutdown handler, or the broker) and the broker *)
(* requeues every unacknowledged job, while the handlers of those jobs     *)
(* keep running until the process exits.                                   *)
CloseChannel(w) ==
  /\ Disrupt
  /\ worker[w] = "up"
  /\ worker' = [worker EXCEPT ![w] = "draining"]
  /\ ready' = ready \cup InFlight(w)
  /\ UNCHANGED <<apiVars, storeVars, task>>

(* process.exit, or the rejection of an ack on the closed channel.         *)
Exit(w) ==
  /\ worker[w] = "draining"
  /\ worker' = [worker EXCEPT ![w] = "down"]
  /\ task' = [task EXCEPT ![w] = [b \in Batches |-> Idle]]
  /\ UNCHANGED <<apiVars, storeVars, ready, disruptions>>

Crash(w) ==
  /\ Disrupt
  /\ worker[w] = "up"
  /\ worker' = [worker EXCEPT ![w] = "down"]
  /\ ready' = ready \cup InFlight(w)
  /\ task' = [task EXCEPT ![w] = [b \in Batches |-> Idle]]
  /\ UNCHANGED <<apiVars, storeVars>>

-----------------------------------------------------------------------------
(* The handler of one job, processBatch and the ack around it.             *)

Runs(w, b, from, to) == /\ task[w][b].pc = from
                        /\ task' = [task EXCEPT ![w][b] = to]

(* findOne, then the key of the message or else of the row. *)
StorageKey(b) == IF JobKey(b) # NoKey THEN JobKey(b) ELSE batch[b].storageKey

FindBatch(w, b) ==
  LET found == batch[b].status # "none"
      keyed == StorageKey(b) # NoKey
  IN  /\ Runs(w, b, "find", IF found /\ keyed THEN At("download") ELSE At("ack"))
      /\ batch' = IF found /\ ~keyed THEN Refused(b) ELSE batch
      /\ UNCHANGED <<apiVars, blobs, rows, ready, worker, disruptions>>

Download(w, b) ==
  /\ Runs(w, b, "download", IF StorageKey(b) \in blobs THEN At("stream") ELSE At("ack"))
  /\ UNCHANGED <<apiVars, storeVars, ready, worker, disruptions>>

(* Both calls precede the try: their error reaches the consumer, which     *)
(* acknowledges the job and leaves the batch as it was.                    *)
FindOrDownloadFails(w, b) ==
  /\ Disrupt
  /\ task[w][b].pc \in {"find", "download"}
  /\ task' = [task EXCEPT ![w][b] = At("ack")]
  /\ UNCHANGED <<apiVars, storeVars, ready, worker>>

Chunk(w, b) == task[w][b].flushed + 1 .. ChunkEnd(b, task[w][b].flushed)

InsertChunkUnindexed(w, b) ==   \* mutant: no unique index
  /\ HasChunk(b, task[w][b].flushed)
  /\ Runs(w, b, "stream", [pc |-> "stream", flushed |-> ChunkEnd(b, task[w][b].flushed)])
  /\ rows' = [rows EXCEPT ![b] = @ \cup Chunk(w, b)]
  /\ UNCHANGED <<apiVars, blobs, batch, ready, worker, disruptions>>

(* One multi-row INSERT: the unique index on (batchId, rowIndex) rejects   *)
(* all of it when one of its rows is there already.                        *)
InsertChunk(w, b) ==
  LET clash == Chunk(w, b) \cap rows[b] # {}
  IN  /\ HasChunk(b, task[w][b].flushed)
      /\ Runs(w, b, "stream",
              IF clash THEN At("failing")
              ELSE [pc |-> "stream", flushed |-> ChunkEnd(b, task[w][b].flushed)])
      /\ rows' = IF clash THEN rows ELSE [rows EXCEPT ![b] = @ \cup Chunk(w, b)]
      /\ UNCHANGED <<apiVars, blobs, batch, ready, worker, disruptions>>

InsertChunkFailsSilently(w, b) ==   \* mutant: the insert is not awaited
  /\ Disrupt
  /\ HasChunk(b, task[w][b].flushed)
  /\ Runs(w, b, "stream", [pc |-> "stream", flushed |-> ChunkEnd(b, task[w][b].flushed)])
  /\ UNCHANGED <<apiVars, storeVars, ready, worker>>

(* The INSERT is refused, or its answer is lost after it was committed.    *)
InsertChunkFails(w, b) ==
  /\ Disrupt
  /\ HasChunk(b, task[w][b].flushed)
  /\ Runs(w, b, "stream", At("failing"))
  /\ \E applied \in BOOLEAN :
       rows' = IF applied /\ Chunk(w, b) \cap rows[b] = {}
               THEN [rows EXCEPT ![b] = @ \cup Chunk(w, b)]
               ELSE rows
  /\ UNCHANGED <<apiVars, blobs, batch, ready, worker>>

ParseErrorUnhandled(w, b) ==   \* mutant: the loop is outside the try
  /\ b \in Malformed
  /\ Runs(w, b, "stream", At("ack"))
  /\ UNCHANGED <<apiVars, storeVars, ready, worker, disruptions>>

(* The parser's error ends the loop at once, dropping records it had ready. *)
ParseError(w, b) ==
  /\ b \in Malformed
  /\ Runs(w, b, "stream", At("failing"))
  /\ UNCHANGED <<apiVars, storeVars, ready, worker, disruptions>>

Processed(b) ==
  [batch EXCEPT ![b] = Row("processed", @.storageKey, Rows[b], 0)]

LoopEnded(w, b) ==   \* mutant: no flush after the loop
  b \notin Malformed /\ task[w][b].flushed + BatchSize > Rows[b]

AllFlushed(w, b) == b \notin Malformed /\ task[w][b].flushed = Rows[b]

Complete(w, b) ==
  /\ AllFlushed(w, b)
  /\ Runs(w, b, "stream", At("ack"))
  /\ batch' = Processed(b)
  /\ UNCHANGED <<apiVars, blobs, rows, ready, worker, disruptions>>

CompleteFails(w, b) ==
  /\ Disrupt
  /\ AllFlushed(w, b)
  /\ Runs(w, b, "stream", At("failing"))
  /\ \E applied \in BOOLEAN : batch' = IF applied THEN Processed(b) ELSE batch
  /\ UNCHANGED <<apiVars, blobs, rows, ready, worker>>

BrokenUncounted(b) ==   \* mutant: the catch also writes its rowCount
  [batch EXCEPT ![b] = Row("failed", @.storageKey, 0, 1)]

(* The catch of processBatch; errorCount starts at 0 in every run. *)
Broken(b) ==
  [batch EXCEPT ![b] = Row("failed", @.storageKey, @.rowCount, 1)]

MarkFailedForgotten(w, b) ==   \* mutant: the catch only rethrows
  /\ Runs(w, b, "failing", At("ack"))
  /\ UNCHANGED <<apiVars, storeVars, ready, worker, disruptions>>

MarkFailed(w, b) ==
  /\ Runs(w, b, "failing", At("ack"))
  /\ batch' = Broken(b)
  /\ UNCHANGED <<apiVars, blobs, rows, ready, worker, disruptions>>

MarkFailedFails(w, b) ==
  /\ Disrupt
  /\ Runs(w, b, "failing", At("ack"))
  /\ \E applied \in BOOLEAN : batch' = IF applied THEN Broken(b) ELSE batch
  /\ UNCHANGED <<apiVars, blobs, rows, ready, worker>>

AckRequeues(w, b) ==   \* mutant: nack with requeue
  /\ worker[w] = "up"
  /\ Runs(w, b, "ack", Idle)
  /\ ready' = ready \cup {b}
  /\ UNCHANGED <<apiVars, storeVars, worker, disruptions>>

(* The consumer acknowledges after success and after an error alike. *)
Ack(w, b) ==
  /\ worker[w] = "up"
  /\ Runs(w, b, "ack", Idle)
  /\ UNCHANGED <<apiVars, storeVars, ready, worker, disruptions>>

-----------------------------------------------------------------------------
ApiStep(b) ==
  \/ UploadBlob(b) \/ SaveKey(b) \/ Publish(b) \/ PublishThrows(b) \/ MarkRefused(b)

ApiFault(b) ==
  \/ CreateBatchFails(b) \/ UploadBlobFails(b) \/ SaveKeyFails(b)
  \/ PublishLost(b) \/ MarkRefusedFails(b)

TaskStep(w, b) ==
  \/ FindBatch(w, b) \/ Download(w, b) \/ InsertChunk(w, b)
  \/ ParseError(w, b) \/ Complete(w, b) \/ MarkFailed(w, b) \/ Ack(w, b)

TaskFault(w, b) ==
  \/ FindOrDownloadFails(w, b) \/ InsertChunkFails(w, b)
  \/ CompleteFails(w, b) \/ MarkFailedFails(w, b)

Next ==
  \/ \E b \in Batches : CreateBatch(b) \/ ApiStep(b) \/ ApiFault(b)
  \/ ApiChannelCloses
  \/ ApiRestarts
  \/ \E w \in Workers : Start(w) \/ CloseChannel(w) \/ Exit(w) \/ Crash(w)
  \/ \E w \in Workers, b \in Batches : Deliver(w, b) \/ TaskStep(w, b) \/ TaskFault(w, b)

(* A handler that was called runs on; a process that stopped is started    *)
(* again; a waiting job is offered to a worker with room.  Nothing obliges *)
(* a user to upload or a disruption to happen.                             *)
Fairness ==
  /\ \A b \in Batches : WF_vars(ApiStep(b))
  /\ \A w \in Workers : WF_vars(Start(w)) /\ WF_vars(Exit(w))
  /\ \A w \in Workers, b \in Batches : WF_vars(Deliver(w, b)) /\ WF_vars(TaskStep(w, b))

Spec == Init /\ [][Next]_vars
FairSpec == Spec /\ Fairness

-----------------------------------------------------------------------------
Held(b) == \E w \in Workers : task[w][b].pc # "idle"
HasJob(b) == b \in ready \/ Held(b)
FirstRows(b, n) == rows[b] = 1 .. n

(* Whatever fails, import_rows never has a gap: the rows of a batch are    *)
(* always the first ones of its file.                                      *)
RowsInOrder ==
  \A b \in Batches : \E n \in 0 .. Rows[b] : FirstRows(b, n)

(* A batch shown as processed has every row of a file that parsed to its   *)
(* end, and its rowCount and errorCount say so, also after redeliveries.   *)
ProcessedIsComplete ==
  \A b \in Batches : batch[b].status = "processed" =>
    /\ b \notin Malformed
    /\ FirstRows(b, Rows[b])
    /\ batch[b].rowCount = Rows[b]
    /\ batch[b].errorCount = 0

(* A redelivered job may run beside the handler that still runs the first  *)
(* delivery, yet only one of them ever gets rows of the batch stored.      *)
OneWriter ==
  \A b \in Batches, v, w \in Workers :
    (task[v][b].flushed > 0 /\ task[w][b].flushed > 0) => v = w

(* A worker never meets a job whose batch, blob or key is not there yet:   *)
(* the handler publishes last.                                             *)
JobIsDownloadable ==
  \A b \in Batches : HasJob(b) =>
    /\ b \in blobs
    /\ batch[b].storageKey = b
    /\ batch[b].status # "none"

(* When the handler reports an error, no worker imports the file later.    *)
RefusedIsUnpublished ==
  \A b \in Batches : request[b] \in {"failing", "refused"} => ~HasJob(b) /\ rows[b] = {}

Settled(b) == batch[b].status = IF b \in Malformed THEN "failed" ELSE "processed"

(* With no disruption, a job that has left the queue has settled its       *)
(* batch: failed when the file is malformed, processed otherwise.          *)
UndisturbedImportSettles ==
  disruptions = 0 =>
    \A b \in Batches : (request[b] = "replied" /\ ~HasJob(b)) => Settled(b)

(* A processed batch is turned into a failed one only by a redelivery,     *)
(* which takes a disruption.                                               *)
ProcessedIsFinalUndisturbed ==
  [][\A b \in Batches :
       (batch[b].status = "processed" /\ batch'[b].status # "processed") => disruptions > 0]_vars

(* Why the properties above hold, step by step: the inductive invariant.   *)

(* The order of createCsvImport: row, blob, key, job. *)
RequestOrder ==
  \A b \in Batches :
    /\ request[b] = "new" => batch[b].status = "none"
    /\ request[b] \in InProgress => batch[b].status # "none"
    /\ request[b] \in {"stored", "keyed"} => b \in blobs
    /\ request[b] = "keyed" => batch[b].storageKey = b

(* Jobs and rows exist only once the request was answered. *)
JobOrigin ==
  \A b \in Batches : (HasJob(b) \/ rows[b] # {}) => request[b] = "replied"

(* A handler that has inserted something is still in its loop, right after *)
(* the last stored row.                                                    *)
WriterAtEnd ==
  \A w \in Workers, b \in Batches :
    task[w][b].flushed > 0 => task[w][b].pc = "stream" /\ FirstRows(b, task[w][b].flushed)

(* A rowCount was written over a complete set of rows. *)
CountedIsComplete ==
  \A b \in Batches : batch[b].rowCount # 0 =>
    batch[b].rowCount = Rows[b] /\ FirstRows(b, Rows[b])

RowsInv  == RowsInOrder /\ WriterAtEnd /\ OneWriter
CountInv == ProcessedIsComplete /\ CountedIsComplete
JobInv   == RequestOrder /\ JobOrigin /\ JobIsDownloadable

IInv == TypeOK /\ RowsInv /\ CountInv /\ JobInv

(* What holds while nothing has gone wrong: a job is in one place, and how *)
(* far its handler is tells what the tables hold.                          *)
Fresh(b) == batch[b].status = "uploaded" /\ rows[b] = {}

HeldOnce ==
  \A w \in Workers, b \in Batches : task[w][b].pc # "idle" =>
    /\ b \notin ready
    /\ \A v \in Workers : task[v][b].pc # "idle" => v = w

Accounted(b) ==
  /\ request[b] # "failing"
  /\ (request[b] \in InProgress \/ b \in ready) => Fresh(b)
  /\ (request[b] = "replied" /\ ~HasJob(b)) => Settled(b)

OnTrack(w, b) ==
  /\ task[w][b].pc \in {"find", "download"} => Fresh(b)
  /\ task[w][b].pc = "stream" =>
       batch[b].status = "uploaded" /\ FirstRows(b, task[w][b].flushed)
  /\ task[w][b].pc = "failing" => b \in Malformed
  /\ task[w][b].pc = "ack" => Settled(b)

Calm ==
  /\ channel = "open"
  /\ \A w \in Workers : worker[w] # "draining"
  /\ HeldOnce
  /\ \A b \in Batches : Accounted(b)
  /\ \A w \in Workers, b \in Batches : OnTrack(w, b)

CalmInv == disruptions = 0 => Calm

(* What the pages that read the tables rely on; see ImportLedger. *)
Ledger == INSTANCE ImportLedger WITH
  status  <- [b \in Batches |-> batch[b].status],
  stored  <- rows,
  counted <- [b \in Batches |-> batch[b].rowCount]

(* Every step of API, queue and worker is a step of the ledger or changes  *)
(* nothing it sees: rows only grow as a prefix, and a batch is announced   *)
(* only when they are all there.                                           *)
ImplementsLedger == Ledger!Spec

(* The acknowledgement of a job ends its import: README.md says that the   *)
(* batch's status is updated.  The code acknowledges without it when the   *)
(* row lookup or the download fails.                                       *)
AckedJobIsSettled ==
  \A w \in Workers, b \in Batches : task[w][b].pc = "ack" => batch[b].status # "uploaded"

(* Every job leaves the queue, however often it is delivered again.        *)
JobsDrain == \A b \in Batches : HasJob(b) ~> ~HasJob(b)

(* With no disruption, every upload that reached import_batches ends as    *)
(* processed or failed: none is left uploaded, waiting for a worker that   *)
(* forgot it.                                                              *)
UndisturbedImportEnds ==
  [](disruptions = 0) =>
    \A b \in Batches : (request[b] = "saved") ~> (batch[b].status \in {"processed", "failed"})
=============================================================================
