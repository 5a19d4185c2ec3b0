--------------------------- MODULE ImportPipeline ---------------------------
(***************************************************************************)
(* One CSV import call: FinanceHandler.ImportTransactionsCsv, which runs   *)
(* ImportService.ImportWithOptions, which starts parseTransactionsStream.  *)
(*                                                                         *)
(* Goroutines:                                                             *)
(*   - the caller, which creates the file and job rows, ranges over the    *)
(*     results channel, writes batches of transactions and finishes the    *)
(*     job;                                                                *)
(*   - the producer, which reads CSV records and sends them on the jobs    *)
(*     channel;                                                            *)
(*   - the workers, which parse records and send the outcome on results;   *)
(*   - the closer, which waits for the workers and closes results.         *)
(*                                                                         *)
(* Every statement sent to PostgreSQL is a step of its own. It may fail    *)
(* before or after the server applied it, and fails whenever the request   *)
(* context is already cancelled. A crash of the process is a behaviour     *)
(* that stops: only liveness assumes fairness.                             *)
(*                                                                         *)
(* A data record is reduced to the external id generateExternalID computes *)
(* for it, or BadRow when parseRow rejects it.                             *)
(***************************************************************************)
EXTENDS Naturals, Sequences, FiniteSets

CONSTANTS
  Keys,             \* the external ids rows hash to
  BadRow,           \* a record parseRow rejects
  Files,            \* the data records of the files a user may upload
  Workers,          \* the parse goroutines, GOMAXPROCS of them
  ChanCap,          \* capacity of jobs and of results: workerCount*4
  BatchSize,        \* importBatchSize
  ProgressEvery,    \* importProgressUpdateEvery
  StatementRows,    \* batchSize of BulkInsertTransactions
  Disturbances      \* what the environment does in this instance

Statements == {"file", "job", "insert", "progress", "finish"}

\* A statement's name: the database may fail it. "cancel": the client may
\* cancel the request. "import", "delete": other requests of the user run.
AllDisturbances == Statements \cup {"cancel", "import", "delete"}

ASSUME PipelineAssumption ==
  /\ BadRow \notin Keys
  /\ Files \subseteq Seq(Keys \cup {BadRow})
  /\ IsFiniteSet(Workers) /\ Workers # {}
  /\ ChanCap \in Nat \ {0}
  /\ BatchSize \in Nat \ {0}
  /\ ProgressEvery \in Nat \ {0}
  /\ StatementRows \in Nat \ {0}
  /\ Disturbances \subseteq AllDisturbances

VARIABLES
  file,         \* the data records, in file order
  noDataRows,   \* skipping the header already met the end of the file
  ctxDone,      \* the request context is cancelled
  cancelled,    \* the caller called cancel() on parseCtx
  producer,     \* "off", "reading", "sending" (holds record sent+1), "done"
  sent,         \* records 1..sent were sent on jobs, in that order
  taken,        \* records 1..taken were received from jobs
  hand,         \* the record a worker holds, 0 for none
  exited,       \* the workers that returned
  results,      \* the results channel: record numbers
  resultsClosed,
  pc,           \* where the caller is
  inLoop,       \* the caller is inside "for result := range results"
  batch,        \* the records of the batch being filled
  at,           \* records of the batch BulkInsertTransactions is past
  totalInserted,
  rowsImported, rowsFailed, progressSinceUpdate, insertErr,
  job,          \* the row of import_jobs
  table,        \* who owns the row of transactions with this external id
  fate,         \* history: what became of each record
  reply         \* what the handler answers

input    == <<file, noDataRows>>
context  == <<ctxDone, cancelled>>
feed     == <<producer, sent>>
pool     == <<taken, hand, exited>>
channel  == <<results, resultsClosed>>
stream   == <<feed, pool, channel>>
flush    == <<batch, at, totalInserted>>
counters == <<rowsImported, rowsFailed, progressSinceUpdate, insertErr>>
control  == <<pc, inLoop>>
database == <<job, table, fate>>
caller   == <<input, context, control, flush, counters, database, reply>>
vars     == <<stream, caller>>

-----------------------------------------------------------------------------
(* Channels, the parse context and database statements.                    *)

Lines == DOMAIN file

\* The jobs channel has one sender, so it holds records taken+1..sent.
JobsLen    == sent - taken
JobsClosed == producer = "done"

\* Mutant: the jobs channel grows without bound.
JobsAlwaysHasRoom == TRUE
JobsHasRoom       == JobsLen < ChanCap

\* parseCtx is a child of the request context.
ParseCtxDone == ctxDone \/ cancelled

PreErrors == IF noDataRows THEN 1 ELSE 0

\* How a statement can end: applied and answered; not applied, with an
\* error; or applied with its answer lost, because the connection broke or
\* because the request was cancelled while it ran.
Exec(kind, applied, ok) ==
  \/ /\ ~ctxDone /\ applied /\ ok
     /\ UNCHANGED ctxDone
  \/ /\ ~applied /\ ~ok
     /\ ctxDone \/ kind \in Disturbances
     /\ UNCHANGED ctxDone
  \/ /\ ~ctxDone /\ applied /\ ~ok
     /\ \/ kind \in Disturbances /\ UNCHANGED ctxDone
        \/ "cancel" \in Disturbances /\ ctxDone' = TRUE

-----------------------------------------------------------------------------
(* The producer goroutine.                                                 *)

\* One turn of the read loop up to the select: a cancelled context or the
\* end of the file ends it (its deferred close closes jobs).
ProducerRead ==
  /\ producer = "reading"
  /\ producer' = IF ParseCtxDone \/ sent = Len(file) THEN "done" ELSE "sending"
  /\ UNCHANGED <<sent, pool, channel, caller>>

ProducerSend ==
  /\ producer = "sending"
  /\ JobsHasRoom
  /\ sent' = sent + 1
  /\ producer' = "reading"
  /\ UNCHANGED <<pool, channel, caller>>

\* Mutant: a plain send, without the select on ctx.Done.
ProducerStaysBlocked == producer = "sending" /\ ParseCtxDone /\ UNCHANGED vars

\* The select may prefer ctx.Done even when jobs has room.
ProducerAbort ==
  /\ producer = "sending"
  /\ ParseCtxDone
  /\ producer' = "done"
  /\ UNCHANGED <<sent, pool, channel, caller>>

-----------------------------------------------------------------------------
(* The worker goroutines and the closer.                                   *)

Idle(w) == producer # "off" /\ w \notin exited /\ hand[w] = 0

\* Receiving a job: the worker parses it, or returns and drops it when the
\* context is done by then.
WorkerTake(w) ==
  /\ Idle(w)
  /\ JobsLen > 0
  /\ taken' = taken + 1
  /\ IF ParseCtxDone
       THEN exited' = exited \cup {w} /\ UNCHANGED hand
       ELSE hand' = [hand EXCEPT ![w] = taken + 1] /\ UNCHANGED exited
  /\ UNCHANGED <<feed, channel, caller>>

\* "range jobs" ends once jobs is closed and drained.
\* Mutant: it ends as soon as jobs is closed.
JobsEndEarly == JobsClosed
JobsEnd      == JobsClosed /\ JobsLen = 0

WorkerExit(w) ==
  /\ Idle(w)
  /\ JobsEnd
  /\ exited' = exited \cup {w}
  /\ UNCHANGED <<feed, taken, hand, channel, caller>>

\* Mutant: the worker keeps the record it sent.
WorkerSendKeeps(w) ==
  /\ hand[w] # 0
  /\ Len(results) < ChanCap
  /\ results' = Append(results, hand[w])
  /\ UNCHANGED <<feed, pool, resultsClosed, caller>>

WorkerSend(w) ==
  /\ hand[w] # 0
  /\ Len(results) < ChanCap
  /\ results' = Append(results, hand[w])
  /\ hand' = [hand EXCEPT ![w] = 0]
  /\ UNCHANGED <<feed, taken, exited, resultsClosed, caller>>

\* Mutant: a send that gives up when the channel is full.
GivesUpWhenFull == ParseCtxDone \/ Len(results) = ChanCap
GivesUp         == ParseCtxDone

WorkerAbort(w) ==
  /\ hand[w] # 0
  /\ GivesUp
  /\ hand' = [hand EXCEPT ![w] = 0]
  /\ exited' = exited \cup {w}
  /\ UNCHANGED <<feed, taken, channel, caller>>

\* wg.Wait. Mutant: waiting for the producer instead.
ProducerFinished == producer = "done"
WorkersFinished  == exited = Workers

CloseResults ==
  /\ producer # "off"
  /\ WorkersFinished
  /\ ~resultsClosed
  /\ resultsClosed' = TRUE
  /\ UNCHANGED <<feed, pool, results, caller>>

-----------------------------------------------------------------------------
(* The caller: rows created before the stream starts.                      *)

NoReply    == [kind |-> "none", imported |-> 0, duplicates |-> 0]
ErrorReply == [NoReply EXCEPT !.kind = "error"]

\* An error return before the stream: nothing is running, nothing to undo.
FailEarly ==
  /\ pc' = "returned"
  /\ reply' = ErrorReply

CreateUserFile ==
  /\ pc = "file"
  /\ \E applied, ok \in BOOLEAN :
       /\ Exec("file", applied, ok)
       /\ IF ok THEN pc' = "job" /\ UNCHANGED reply ELSE FailEarly
  /\ UNCHANGED <<input, cancelled, stream, inLoop, flush, counters, database>>

\* parseTransactionsStream: skip the header, then start the goroutines. A
\* file that ends within the skipped records yields a closed channel and one
\* error instead.
StartStream ==
  /\ pc' = "receive"
  /\ inLoop' = TRUE
  /\ rowsFailed' = PreErrors
  /\ progressSinceUpdate' = PreErrors
  /\ producer' = IF noDataRows THEN "off" ELSE "reading"
  /\ resultsClosed' = noDataRows
  /\ UNCHANGED reply

CreateImportJob ==
  /\ pc = "job"
  /\ \E applied, ok \in BOOLEAN :
       /\ Exec("job", applied, ok)
       /\ job' = IF applied THEN [job EXCEPT !.status = "running"] ELSE job
       /\ IF ok
            THEN StartStream
            ELSE FailEarly /\ UNCHANGED <<inLoop, rowsFailed, producer,
                                  progressSinceUpdate, resultsClosed>>
  /\ UNCHANGED <<input, cancelled, sent, pool, results, flush, rowsImported,
                 insertErr, table, fate>>

-----------------------------------------------------------------------------
(* The caller: the loop over results.                                      *)

\* After an insert error the loop only drains the channel.
Drain ==
  /\ insertErr
  /\ UNCHANGED <<pc, batch, rowsFailed, progressSinceUpdate, fate>>

CountParseError(l) ==
  /\ ~insertErr
  /\ file[l] = BadRow
  /\ rowsFailed' = rowsFailed + 1
  /\ progressSinceUpdate' = progressSinceUpdate + 1
  /\ pc' = IF progressSinceUpdate + 1 >= ProgressEvery THEN "progress" ELSE pc
  /\ fate' = [fate EXCEPT ![l] = "failed"]
  /\ UNCHANGED batch

AddToBatch(l) ==
  /\ ~insertErr
  /\ file[l] # BadRow
  /\ batch' = Append(batch, l)
  /\ pc' = IF Len(batch) + 1 >= BatchSize THEN "insert" ELSE pc
  /\ UNCHANGED <<rowsFailed, progressSinceUpdate, fate>>

Receive ==
  /\ pc = "receive" /\ inLoop
  /\ results # <<>>
  /\ results' = Tail(results)
  /\ LET l == Head(results) IN
       Drain \/ CountParseError(l) \/ AddToBatch(l)
  /\ UNCHANGED <<input, context, feed, pool, resultsClosed, inLoop, at, totalInserted, rowsImported,
                 insertErr, job, table, reply>>

\* What follows the loop: the final flush unless an insert failed, then a
\* last progress update if parse errors are unreported.
\* Mutant: a failed import returns without finishing its job.
AfterLoopReturns ==
  IF insertErr THEN "returned" ELSE IF batch # <<>> THEN "insert" ELSE "finish"
AfterLoop ==
  IF insertErr THEN "finish"
  ELSE IF batch # <<>> THEN "insert"
  ELSE IF progressSinceUpdate > 0 THEN "progress"
  ELSE "finish"

EndOfResults ==
  /\ pc = "receive" /\ inLoop
  /\ results = <<>> /\ resultsClosed
  /\ inLoop' = FALSE
  /\ pc' = AfterLoop
  /\ UNCHANGED <<input, context, stream, flush, counters, database, reply>>

-----------------------------------------------------------------------------
(* The caller: flushBatch and BulkInsertTransactions.                      *)

\* The records of the next INSERT, by their place in the batch.
StatementPlaces == {i \in 1..Len(batch) : at < i /\ i <= at + StatementRows}

StatementLines == {batch[i] : i \in StatementPlaces}

\* ON CONFLICT (user_id, source, external_id) DO NOTHING: a row goes in
\* unless the table has its external id, or a row before it in the statement.
FreshLines ==
  {batch[i] : i \in {p \in StatementPlaces :
     /\ table[file[batch[p]]] = "nobody"
     /\ \A q \in StatementPlaces : q < p => file[batch[q]] # file[batch[p]]}}

ApplyInsert ==
  /\ table' = [k \in Keys |->
                 IF k \in {file[l] : l \in FreshLines} THEN "job" ELSE table[k]]
  /\ fate' = [l \in Lines |-> IF l \in FreshLines THEN "inserted"
                              ELSE IF l \in StatementLines THEN "duplicate"
                              ELSE fate[l]]

\* RowsAffected of the statement. Mutant: the rows sent are counted.
RowsSent     == Cardinality(StatementLines)
RowsAffected == Cardinality(FreshLines)

\* RowsAffected is added up; the last statement of the batch hands the sum
\* to flushBatch, which empties the batch and reports progress.
StatementDone ==
  LET inserted == totalInserted + RowsAffected
      last     == at + StatementRows >= Len(batch)
  IN /\ at' = IF last THEN 0 ELSE at + StatementRows
     /\ totalInserted' = IF last THEN 0 ELSE inserted
     /\ rowsImported' = IF last THEN rowsImported + inserted ELSE rowsImported
     /\ batch' = IF last THEN <<>> ELSE batch
     /\ pc' = IF last THEN "progress" ELSE pc
     /\ UNCHANGED <<insertErr, cancelled>>

\* Mutant: the error of the final flush is dropped.
ErrorInLoopOnly == inLoop
ErrorKept       == TRUE

\* An error drops the count of the statements before it. Inside the loop it
\* cancels parseCtx, which stops the goroutines.
StatementFailed ==
  /\ insertErr' = ErrorKept
  /\ cancelled' = (cancelled \/ inLoop)
  /\ pc' = IF inLoop THEN "receive" ELSE "finish"
  /\ UNCHANGED <<at, totalInserted, rowsImported, batch>>

InsertStatement ==
  /\ pc = "insert"
  /\ \E applied, ok \in BOOLEAN :
       /\ Exec("insert", applied, ok)
       /\ IF applied THEN ApplyInsert ELSE UNCHANGED <<table, fate>>
       /\ IF ok THEN StatementDone ELSE StatementFailed
  /\ UNCHANGED <<input, stream, inLoop, rowsFailed, progressSinceUpdate, job,
                 reply>>

\* Mutant: rows waiting in the batch are reported as imported.
RowsPlanned  == rowsImported + Len(batch)
RowsReported == rowsImported

\* updateProgress: an error is only logged.
UpdateProgress ==
  /\ pc = "progress"
  /\ \E applied, ok \in BOOLEAN :
       /\ Exec("progress", applied, ok)
       /\ job' = IF applied
                   THEN [job EXCEPT !.imported = RowsReported,
                                    !.failed = rowsFailed]
                   ELSE job
  /\ progressSinceUpdate' = 0
  /\ pc' = IF inLoop THEN "receive" ELSE "finish"
  /\ UNCHANGED <<input, cancelled, stream, inLoop, flush, rowsImported,
                 rowsFailed, insertErr, table, fate, reply>>

-----------------------------------------------------------------------------
(* The caller: finishing the job, and the handler's answer.                *)

\* ImportResult.RowsTotal.
RowsTotal == rowsImported + rowsFailed

\* The handler's subtraction, clamped at zero.
Duplicates == IF RowsTotal >= rowsImported + rowsFailed
                THEN RowsTotal - rowsImported - rowsFailed
                ELSE 0

\* An import that stored nothing and met errors is turned into an error.
Answer ==
  IF insertErr THEN ErrorReply
  ELSE IF rowsImported = 0 /\ rowsFailed > 0
         THEN [NoReply EXCEPT !.kind = "rejected"]
         ELSE [kind |-> "ok", imported |-> rowsImported,
               duplicates |-> Duplicates]

\* Mutant: the job is marked succeeded whatever happened.
AlwaysSucceeded == "succeeded"
FinalStatus     == IF insertErr THEN "failed" ELSE "succeeded"

\* FinishImportJob, whose error is ignored or only logged; returning runs
\* the deferred cancel.
FinishImport ==
  /\ pc = "finish"
  /\ \E applied, ok \in BOOLEAN :
       /\ Exec("finish", applied, ok)
       /\ job' = IF applied
                   THEN [status   |-> FinalStatus,
                         imported |-> rowsImported,
                         failed   |-> rowsFailed,
                         total    |-> rowsImported + rowsFailed]
                   ELSE job
  /\ cancelled' = TRUE
  /\ pc' = "returned"
  /\ reply' = Answer
  /\ UNCHANGED <<input, stream, inLoop, flush, counters, table, fate>>

-----------------------------------------------------------------------------
(* Everybody else.                                                         *)

\* The client disconnects or its deadline passes.
CancelRequest ==
  /\ "cancel" \in Disturbances
  /\ ~ctxDone
  /\ pc # "returned"
  /\ ctxDone' = TRUE
  /\ UNCHANGED <<input, cancelled, stream, control, flush, counters, database,
                 reply>>

\* Another import of the same user stores a row first.
OtherImport(k) ==
  /\ "import" \in Disturbances
  /\ table[k] = "nobody"
  /\ table' = [table EXCEPT ![k] = "other"]
  /\ UNCHANGED <<input, context, stream, control, flush, counters, job, fate,
                 reply>>

\* DeleteImportBatch of this job, or of the other one, at any time.
DeleteBatch(owner) ==
  /\ "delete" \in Disturbances
  /\ \E k \in Keys : table[k] = owner
  /\ table' = [k \in Keys |-> IF table[k] = owner THEN "nobody" ELSE table[k]]
  /\ UNCHANGED <<input, context, stream, control, flush, counters, job, fate,
                 reply>>

-----------------------------------------------------------------------------
Init ==
  /\ file \in Files
  /\ noDataRows \in BOOLEAN /\ (noDataRows => file = <<>>)
  /\ ctxDone = FALSE /\ cancelled = FALSE
  /\ producer = "off" /\ sent = 0 /\ taken = 0
  /\ hand = [w \in Workers |-> 0] /\ exited = {}
  /\ results = <<>> /\ resultsClosed = FALSE
  /\ pc = "file" /\ inLoop = FALSE
  /\ batch = <<>> /\ at = 0 /\ totalInserted = 0
  /\ rowsImported = 0 /\ rowsFailed = 0 /\ progressSinceUpdate = 0
  /\ insertErr = FALSE
  /\ job = [status |-> "absent", imported |-> 0, failed |-> 0, total |-> 0]
  /\ table \in [Keys -> {"nobody", "other"}]
  /\ fate = [l \in Lines |-> "pending"]
  /\ reply = NoReply

Caller ==
  \/ CreateUserFile \/ CreateImportJob
  \/ Receive \/ EndOfResults
  \/ InsertStatement \/ UpdateProgress \/ FinishImport

Producer == ProducerRead \/ ProducerSend \/ ProducerAbort

Worker(w) == WorkerTake(w) \/ WorkerExit(w) \/ WorkerSend(w) \/ WorkerAbort(w)

Environment ==
  \/ CancelRequest
  \/ \E k \in Keys : OtherImport(k)
  \/ \E owner \in {"job", "other"} : DeleteBatch(owner)

\* The call has returned and left no goroutine behind.
Quiescent ==
  /\ pc = "returned"
  /\ producer # "off" => producer = "done" /\ exited = Workers /\ resultsClosed

\* Stopping there is no deadlock; stopping anywhere else is one.
Terminated == Quiescent /\ UNCHANGED vars

Next ==
  \/ Caller
  \/ Producer
  \/ \E w \in Workers : Worker(w)
  \/ CloseResults
  \/ Environment
  \/ Terminated

\* The Go scheduler runs every goroutine that is not blocked, and a channel
\* serves its waiters; nothing is assumed about the client or other requests.
Fairness ==
  /\ WF_vars(Caller)
  /\ WF_vars(Producer)
  /\ \A w \in Workers : WF_vars(Worker(w))
  /\ WF_vars(CloseResults)

Spec == Init /\ [][Next]_vars
FairSpec == Spec /\ Fairness

-----------------------------------------------------------------------------
(* Properties.                                                             *)

LinesWith(f) == {l \in Lines : fate[l] = f}

InputType ==
  /\ file \in Files
  /\ noDataRows \in BOOLEAN
  /\ ctxDone \in BOOLEAN /\ cancelled \in BOOLEAN

StreamType ==
  /\ producer \in {"off", "reading", "sending", "done"}
  /\ sent \in 0..Len(file) /\ taken \in 0..sent /\ JobsLen <= ChanCap
  /\ hand \in [Workers -> 0..Len(file)]
  /\ exited \subseteq Workers
  /\ results \in Seq(Lines) /\ Len(results) <= ChanCap
  /\ resultsClosed \in BOOLEAN

CallerType ==
  /\ pc \in {"file", "job", "receive", "insert", "progress", "finish",
             "returned"}
  /\ inLoop \in BOOLEAN
  /\ batch \in Seq(Lines) /\ Len(batch) <= BatchSize
  /\ at \in Nat /\ (at > 0 => at < Len(batch))
  /\ totalInserted \in Nat
  /\ rowsImported \in Nat /\ rowsFailed \in Nat /\ progressSinceUpdate \in Nat
  /\ insertErr \in BOOLEAN
  /\ reply \in [kind : {"none", "error", "rejected", "ok"},
                imported : Nat, duplicates : Nat]

DatabaseType ==
  /\ job \in [status : {"absent", "running", "succeeded", "failed"},
              imported : Nat, failed : Nat, total : Nat]
  /\ table \in [Keys -> {"nobody", "job", "other"}]
  /\ fate \in [Lines -> {"pending", "failed", "inserted", "duplicate"}]

\* The values of the variables: the batch never outgrows importBatchSize, no
\* channel its capacity, and no statement its batch.
TypeOK == InputType /\ StreamType /\ CallerType /\ DatabaseType

\* No worker can send on results once the closer closed it: a send on a
\* closed channel would panic the server. Cancellation makes workers return
\* at different moments, with and without a record in hand.
NoSendOnClosedChannel ==
  resultsClosed => \A w \in Workers : hand[w] = 0 /\ (producer # "off" => w \in exited)

\* The records received from jobs and not yet dealt with.
Held      == {hand[w] : w \in Workers} \ {0}
InResults == {results[i] : i \in 1..Len(results)}
InBatch   == {batch[i] : i \in 1..Len(batch)}
Unstored  == {batch[i] : i \in at + 1..Len(batch)}

Distinct(s) == \A i, j \in 1..Len(s) : s[i] = s[j] => i = j

\* No record is handled twice: the workers' hands, the results channel and
\* the batch never repeat a record and never share one, and what is on its
\* way to the caller or to the database has no fate yet.
HandledOnce ==
  /\ Held \cup InResults \cup InBatch \subseteq 1..taken
  /\ \A v, w \in Workers : hand[v] = hand[w] /\ hand[v] # 0 => v = w
  /\ Distinct(results) /\ Distinct(batch)
  /\ Held \cap InResults = {}
  /\ InBatch \cap (Held \cup InResults) = {}
  /\ Held \cup InResults \subseteq LinesWith("pending")
  /\ ~insertErr => Unstored \subseteq LinesWith("pending")

\* No record is lost: while parseCtx is alive, every record the producer
\* sent is queued, held by a worker, waiting for the caller, in the batch,
\* or has its fate. Only a cancellation may drop records.
NothingLost ==
  ~ParseCtxDone /\ ~insertErr =>
    LinesWith("pending") \cap 1..taken \subseteq
      Held \cup InResults \cup Unstored

\* A job recorded as succeeded accounts for every record of the file: each
\* was stored, was a duplicate, or was counted as failed, and the counters in
\* the row are the true ones, whatever failed or was cancelled on the way.
SucceededIsComplete ==
  job.status = "succeeded" =>
    /\ LinesWith("pending") = {}
    /\ job.imported = Cardinality(LinesWith("inserted"))
    /\ job.failed = Cardinality(LinesWith("failed")) + PreErrors
    /\ job.total = job.imported + job.failed

\* As long as nobody deletes transactions, a succeeded job means that every
\* row that parsed is in the table, stored by this import or by another.
SucceededRowsStored ==
  job.status = "succeeded" /\ "delete" \notin Disturbances =>
    \A l \in Lines : file[l] # BadRow => table[file[l]] # "nobody"

\* The row of import_jobs never claims a transaction this job did not store,
\* even when an insert fails between two statements of one batch, when its
\* answer is lost, or when updates fail.
CountersNeverOverstate ==
  /\ job.imported <= Cardinality(LinesWith("inserted"))
  /\ job.failed <= Cardinality(LinesWith("failed")) + PreErrors

\* The handler answers success only for what happened: the imported count is
\* the number of rows stored, and every record was dealt with unless the
\* request was cancelled before the answer.
AnswerIsTrue ==
  reply.kind = "ok" =>
    /\ reply.imported = Cardinality(LinesWith("inserted"))
    /\ ctxDone \/ LinesWith("pending") = {}

\* The error handling leaves a job "running" for ever only when the request
\* context died (FinishImportJob is called with that same context) or the
\* statement creating or finishing the job failed.
StuckRunningOnlyAfterCancel ==
  pc = "returned" /\ Disturbances \cap {"job", "finish"} = {} =>
    ctxDone \/ job.status # "running"

\* "Calculate duplicates: parsed rows minus rows that were actually inserted"
\* (finance_handler.go:89): the duplicate count in the answer is the number
\* of rows that the database skipped.
DuplicatesReported ==
  reply.kind = "ok" /\ ~ctxDone =>
    reply.duplicates = Cardinality(LinesWith("duplicate"))

\* Every call returns and leaves no goroutine behind, also when inserts fail
\* while both channels are full, or the request is cancelled at any point.
ReturnsWithoutLeak == <>Quiescent

\* What the job row and the records promise, whatever the goroutines do.
Contract == INSTANCE ImportJob
  WITH Total <- Len(file), unread <- PreErrors, status <- job.status,
       imported <- job.imported, failed <- job.failed
JobContract == Contract!Spec
=============================================================================
