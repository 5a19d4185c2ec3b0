----------------------- MODULE ImportPipelineProofs -----------------------
(***************************************************************************)
(* Proofs about ImportPipeline, for every file, number of workers, channel *)
(* capacity, batch size and choice of disturbances.                        *)
(***************************************************************************)
EXTENDS ImportPipeline, FiniteSetTheorems, TLAPS

(* The inductive invariant. Its parts follow the goroutines.               *)

\* Where the caller can be, and what its locals hold there.
CallerInv ==
  /\ pc \in {"file", "job"} => producer = "off" /\ ~resultsClosed
  /\ pc = "receive" => inLoop
  /\ pc \in {"file", "job"} => ~inLoop
  /\ pc \in {"insert", "progress", "finish"} /\ ~inLoop =>
       results = <<>> /\ resultsClosed
  /\ pc = "finish" => ~inLoop
  /\ pc \in {"progress", "finish"} /\ ~inLoop /\ ~insertErr => batch = <<>>
  /\ pc = "insert" => ~insertErr /\ at < Len(batch)
  /\ pc = "progress" => ~insertErr
  /\ pc # "insert" /\ ~insertErr => at = 0 /\ totalInserted = 0
  /\ pc \in {"file", "job", "receive", "progress"} /\ ~insertErr =>
       Len(batch) < BatchSize
  /\ pc \in {"file", "job"} => ~insertErr /\ batch = <<>>
  /\ cancelled => insertErr \/ pc = "returned"
  /\ job.status \in {"succeeded", "failed"} => pc = "returned"

\* What the stream's goroutines keep true.
StreamInv ==
  /\ noDataRows => file = <<>>
  /\ producer = "off" => /\ sent = 0 /\ results = <<>> /\ exited = {}
                         /\ resultsClosed => noDataRows
  /\ producer = "sending" => sent < Len(file)
  /\ producer = "done" => ParseCtxDone \/ sent = Len(file)
  /\ producer = "off" => \A w \in Workers : hand[w] = 0
  /\ \A w \in exited : hand[w] = 0
  /\ exited # {} => ParseCtxDone \/ (JobsClosed /\ JobsLen = 0)
  /\ resultsClosed /\ producer # "off" => exited = Workers

\* Records that were not received from jobs have no fate.
FutureOpen == \A l \in Lines : l > taken => fate[l] = "pending"

\* The counters against the fates.
CountsInv ==
  /\ rowsImported + totalInserted <= Cardinality(LinesWith("inserted"))
  /\ ~insertErr =>
       rowsImported + totalInserted = Cardinality(LinesWith("inserted"))
  /\ pc \in {"file", "job"} => rowsFailed = 0 /\ LinesWith("failed") = {}
  /\ rowsFailed <= Cardinality(LinesWith("failed")) + PreErrors
  /\ pc \notin {"file", "job", "returned"} =>
       rowsFailed = Cardinality(LinesWith("failed")) + PreErrors

IInv ==
  /\ TypeOK /\ CallerInv /\ StreamInv
  /\ HandledOnce /\ NothingLost /\ FutureOpen
  /\ CountsInv /\ SucceededIsComplete /\ CountersNeverOverstate

-----------------------------------------------------------------------------
(* Facts about files, fates and channels used throughout.                  *)
LEMMA FileFacts ==
  ASSUME file \in Files
  PROVE  Len(file) \in Nat /\ Lines = 1..Len(file)
         /\ file \in [Lines -> Keys \cup {BadRow}]
BY PipelineAssumption DEF Lines

LEMMA PreErrorsNat == PreErrors \in {0, 1}
BY DEF PreErrors

LEMMA InitIInv == Init => IInv
<1> SUFFICES ASSUME Init PROVE IInv
  OBVIOUS
<1> USE PipelineAssumption DEF Init
<1>a. file \in Files /\ Len(file) \in Nat
  BY FileFacts
<1>b. InputType /\ StreamType
  <2>1. hand \in [Workers -> 0..Len(file)] /\ exited \subseteq Workers
    BY <1>a
  <2>2. sent \in 0..Len(file) /\ taken \in 0..sent /\ JobsLen <= ChanCap
    BY <1>a DEF JobsLen
  <2>3. results \in Seq(Lines) /\ Len(results) <= ChanCap
    OBVIOUS
  <2>4. QED
    BY <2>1, <2>2, <2>3, <1>a DEF InputType, StreamType
<1>c. CallerType
  <2>1. batch \in Seq(Lines) /\ Len(batch) <= BatchSize
    OBVIOUS
  <2>2. reply \in [kind : {"none", "error", "rejected", "ok"},
                  imported : Nat, duplicates : Nat]
    BY DEF NoReply
  <2>3. QED
    BY <2>1, <2>2 DEF CallerType
<1>d. DatabaseType
  BY DEF DatabaseType
<1>1. TypeOK
  BY <1>b, <1>c, <1>d DEF TypeOK
<1>2. CallerInv /\ StreamInv
  BY DEF CallerInv, StreamInv, ParseCtxDone, JobsClosed, JobsLen
<1>3. HandledOnce /\ NothingLost /\ FutureOpen
  BY DEF HandledOnce, NothingLost, FutureOpen, Held, InResults, InBatch,
         Unstored, Distinct, LinesWith, ParseCtxDone
<1>4. LinesWith("inserted") = {} /\ LinesWith("failed") = {}
  BY DEF LinesWith
<1>5. CountsInv /\ SucceededIsComplete /\ CountersNeverOverstate
  <2>1. Cardinality(LinesWith("inserted")) = 0
        /\ Cardinality(LinesWith("failed")) = 0
    BY <1>4, FS_EmptySet
  <2>2. QED
    BY <1>4, <2>1, PreErrorsNat
       DEF CountsInv, SucceededIsComplete, CountersNeverOverstate
<1>6. QED
  BY <1>1, <1>2, <1>3, <1>5 DEF IInv

-----------------------------------------------------------------------------
(* Steps of the stream. They leave the caller's variables alone, and with  *)
(* them every part of IInv that speaks of the caller and the database.     *)

StreamPart == StreamType /\ StreamInv /\ HandledOnce /\ NothingLost

LEMMA StreamFacts ==
  ASSUME IInv
  PROVE  /\ file \in Files /\ Len(file) \in Nat /\ Lines = 1..Len(file)
         /\ sent \in Nat /\ taken \in Nat /\ taken <= sent /\ sent <= Len(file)
         /\ ctxDone \in BOOLEAN /\ cancelled \in BOOLEAN
         /\ resultsClosed \in BOOLEAN /\ insertErr \in BOOLEAN
         /\ inLoop \in BOOLEAN
BY FileFacts DEF IInv, TypeOK, InputType, StreamType, CallerType

LEMMA CallerUnchanged ==
  ASSUME IInv, UNCHANGED caller, producer' = "off" <=> producer = "off",
         resultsClosed => resultsClosed' /\ results' = results,
         taken \in Nat, taken' \in Nat, taken' >= taken,
         producer = "off" => resultsClosed' = resultsClosed,
         StreamPart'
  PROVE  IInv'
<1> USE DEF caller, input, context, control, flush, counters, database
<1>1. LinesWith("inserted")' = LinesWith("inserted")
      /\ LinesWith("failed")' = LinesWith("failed")
      /\ LinesWith("pending")' = LinesWith("pending")
      /\ PreErrors' = PreErrors
  BY DEF LinesWith, Lines, PreErrors
<1>2. InputType' /\ CallerType' /\ DatabaseType'
  BY DEF IInv, TypeOK, InputType, CallerType, DatabaseType, Lines
<1>3. CallerInv'
  BY DEF CallerInv, IInv
<1>4. FutureOpen'
  BY StreamFacts DEF FutureOpen, Lines, IInv
<1>5. CountsInv' /\ SucceededIsComplete' /\ CountersNeverOverstate'
  BY <1>1 DEF CountsInv, SucceededIsComplete, CountersNeverOverstate, IInv
<1>6. QED
  BY <1>2, <1>3, <1>4, <1>5 DEF IInv, TypeOK, StreamPart

LEMMA ProducerStep == ASSUME IInv, Producer PROVE IInv'
<1> USE PipelineAssumption, StreamFacts
    DEF caller, input, context, control, flush, counters, database,
        pool, channel
<1>1. UNCHANGED <<caller, pool, channel>> /\ producer' # "off"
      /\ producer # "off"
  BY DEF Producer, ProducerRead, ProducerSend, ProducerAbort
<1>2. HandledOnce' /\ NothingLost'
  <2>1. Held' = Held /\ InResults' = InResults /\ InBatch' = InBatch
        /\ Unstored' = Unstored
        /\ LinesWith("pending")' = LinesWith("pending")
    BY <1>1 DEF Held, InResults, InBatch, Unstored, LinesWith, Lines
  <2>2. QED
    BY <1>1, <2>1 DEF IInv, HandledOnce, NothingLost, Distinct, ParseCtxDone
<1>3. StreamType' /\ StreamInv'
  <2>1. CASE ProducerRead
    BY <2>1 DEF IInv, TypeOK, StreamType, StreamInv, ProducerRead,
                ParseCtxDone, JobsClosed, JobsLen, Lines
  <2>2. CASE ProducerSend
    BY <2>2 DEF IInv, TypeOK, StreamType, StreamInv, ProducerSend,
                ParseCtxDone, JobsClosed, JobsLen, JobsHasRoom, Lines
  <2>3. CASE ProducerAbort
    BY <2>3 DEF IInv, TypeOK, StreamType, StreamInv, ProducerAbort,
                ParseCtxDone, JobsClosed, JobsLen, Lines
  <2>4. QED
    BY <2>1, <2>2, <2>3 DEF Producer
<1>4. QED
  BY <1>1, <1>2, <1>3, CallerUnchanged DEF StreamPart

\* A worker that takes a record, or gives one up, changes Held by just that.
LEMMA HandFilled ==
  ASSUME IInv, NEW w \in Workers, NEW l \in 1..Len(file), hand[w] = 0,
         hand' = [hand EXCEPT ![w] = l]
  PROVE  Held' = Held \cup {l}
<1>1. hand \in [Workers -> 0..Len(file)] /\ Len(file) \in Nat
  BY StreamFacts DEF IInv, TypeOK, StreamType
<1>2. hand'[w] = l /\ \A v \in Workers \ {w} : hand'[v] = hand[v]
  BY <1>1
<1>3. QED
  BY <1>1, <1>2 DEF Held

LEMMA HandCleared ==
  ASSUME IInv, NEW w \in Workers, hand[w] # 0,
         hand' = [hand EXCEPT ![w] = 0]
  PROVE  Held' = Held \ {hand[w]} /\ hand[w] \in Held
<1>1. hand \in [Workers -> 0..Len(file)] /\ Len(file) \in Nat
  BY StreamFacts DEF IInv, TypeOK, StreamType
<1>2. hand'[w] = 0 /\ \A v \in Workers \ {w} : hand'[v] = hand[v]
  BY <1>1
<1>3. \A v \in Workers \ {w} : hand[v] # hand[w]
  BY DEF IInv, HandledOnce
<1>4. QED
  BY <1>1, <1>2, <1>3 DEF Held

LEMMA WorkerStep == ASSUME IInv, NEW w \in Workers, Worker(w) PROVE IInv'
<1> USE PipelineAssumption, StreamFacts
    DEF caller, input, context, control, flush, counters, database, feed,
        channel
<1>a. w \notin exited
  BY DEF Worker, WorkerTake, WorkerExit, WorkerSend, WorkerAbort, Idle,
         IInv, StreamInv
<1>b. UNCHANGED caller /\ UNCHANGED feed /\ resultsClosed' = resultsClosed
  BY DEF Worker, WorkerTake, WorkerExit, WorkerSend, WorkerAbort
<1>c. producer # "off"
  <2>1. producer = "off" => hand[w] = 0
    BY DEF IInv, StreamInv
  <2>2. QED
    BY <2>1 DEF Worker, WorkerTake, WorkerExit, WorkerSend, WorkerAbort, Idle
<1>d. ~resultsClosed
  BY <1>a, <1>c DEF IInv, StreamInv
<1>e. LinesWith("pending")' = LinesWith("pending") /\ InBatch' = InBatch
      /\ Unstored' = Unstored /\ ParseCtxDone' = ParseCtxDone
      /\ Distinct(batch)' /\ insertErr' = insertErr
  BY <1>b DEF LinesWith, Lines, InBatch, Unstored, ParseCtxDone, Distinct,
              IInv, HandledOnce
<1>f. hand \in [Workers -> 0..Len(file)]
  BY DEF IInv, TypeOK, StreamType
<1>1. CASE WorkerTake(w)
  <2>1. taken' = taken + 1 /\ taken + 1 <= sent /\ taken + 1 \in 1..Len(file)
        /\ results' = results /\ InResults' = InResults /\ sent' = sent
        /\ Distinct(results)'
    BY <1>1 DEF WorkerTake, JobsLen, InResults, Distinct, IInv, HandledOnce
  <2>2. fate[taken + 1] = "pending" /\ taken + 1 \in LinesWith("pending")
        /\ taken + 1 \notin Held \cup InResults \cup InBatch
    BY <2>1 DEF IInv, FutureOpen, HandledOnce, LinesWith
  <2>3. CASE ParseCtxDone
    <3>1. hand' = hand /\ Held' = Held /\ exited' = exited \cup {w}
      BY <1>1, <2>3 DEF WorkerTake, Held
    <3>2. StreamType' /\ StreamInv'
      BY <1>1, <1>b, <1>c, <1>d, <1>e, <2>1, <2>3, <3>1
         DEF IInv, TypeOK, StreamType, StreamInv, WorkerTake, Idle, JobsLen,
             JobsClosed, Lines
    <3>3. HandledOnce' /\ NothingLost'
      BY <1>b, <1>e, <2>1, <2>3, <3>1 DEF IInv, HandledOnce, NothingLost
    <3>4. QED
      BY <1>b, <1>c, <1>d, <2>1, <3>2, <3>3, CallerUnchanged DEF StreamPart
  <2>4. CASE ~ParseCtxDone
    <3>1. hand[w] = 0 /\ hand' = [hand EXCEPT ![w] = taken + 1]
          /\ exited' = exited
      BY <1>1, <2>4 DEF WorkerTake, Idle
    <3>2. Held' = Held \cup {taken + 1}
      BY <2>1, <3>1, HandFilled
    <3>3. StreamType' /\ StreamInv'
      BY <1>a, <1>b, <1>c, <1>d, <1>e, <1>f, <2>1, <2>4, <3>1
         DEF IInv, TypeOK, StreamType, StreamInv, JobsLen, JobsClosed, Lines
    <3>4. \A u, v \in Workers : hand'[u] = hand'[v] /\ hand'[u] # 0 => u = v
      <4>1. \A v \in Workers : hand[v] # taken + 1
        BY <1>f, <2>1, <2>2 DEF Held
      <4>2. QED
        BY <1>f, <3>1, <4>1 DEF IInv, HandledOnce
    <3>5. HandledOnce'
      BY <1>e, <2>1, <2>2, <3>2, <3>4 DEF IInv, HandledOnce
    <3>6. NothingLost'
      BY <1>e, <2>1, <3>2 DEF IInv, NothingLost, LinesWith
    <3>7. QED
      BY <1>b, <1>c, <1>d, <2>1, <3>3, <3>5, <3>6, CallerUnchanged
         DEF StreamPart
  <2>5. QED
    BY <2>3, <2>4
<1>2. CASE WorkerExit(w)
  <2>1. UNCHANGED <<taken, hand, results>> /\ exited' = exited \cup {w}
        /\ hand[w] = 0 /\ Held' = Held /\ InResults' = InResults
        /\ sent' = sent /\ JobsClosed /\ JobsLen = 0
    BY <1>2 DEF WorkerExit, Idle, JobsEnd, Held, InResults
  <2>2. StreamType' /\ StreamInv'
    BY <1>b, <1>c, <1>d, <1>e, <2>1
       DEF IInv, TypeOK, StreamType, StreamInv, JobsLen, JobsClosed, Lines
  <2>3. HandledOnce' /\ NothingLost'
    BY <1>e, <2>1 DEF IInv, HandledOnce, NothingLost, Distinct
  <2>4. QED
    BY <1>b, <1>c, <1>d, <2>1, <2>2, <2>3, CallerUnchanged DEF StreamPart
<1>3. CASE WorkerSend(w)
  <2>1. UNCHANGED <<taken, exited>> /\ hand[w] # 0 /\ sent' = sent
        /\ hand' = [hand EXCEPT ![w] = 0]
        /\ results' = Append(results, hand[w]) /\ Len(results) < ChanCap
    BY <1>3 DEF WorkerSend
  <2>2. Held' = Held \ {hand[w]} /\ hand[w] \in Held /\ hand[w] \in Lines
    <3>1. hand[w] \in Lines
      BY <1>f, <2>1
    <3>2. QED
      BY <2>1, <3>1, HandCleared
  <2>3. results \in Seq(Lines)
    BY DEF IInv, TypeOK, StreamType
  <2>4. InResults' = InResults \cup {hand[w]}
    BY <2>1, <2>2, <2>3 DEF InResults
  <2>5. Distinct(results)'
    <3>1. \A i \in 1..Len(results) : results[i] # hand[w]
      BY <2>2 DEF IInv, HandledOnce, InResults
    <3>2. QED
      BY <2>1, <2>2, <2>3, <3>1 DEF IInv, HandledOnce, Distinct
  <2>6. StreamType' /\ StreamInv'
    BY <1>a, <1>b, <1>c, <1>d, <1>e, <1>f, <2>1, <2>2, <2>3
       DEF IInv, TypeOK, StreamType, StreamInv, JobsLen, JobsClosed, Lines
  <2>7. HandledOnce' /\ NothingLost'
    BY <1>e, <1>f, <2>1, <2>2, <2>4, <2>5 DEF IInv, HandledOnce, NothingLost
  <2>8. QED
    BY <1>b, <1>c, <1>d, <2>1, <2>6, <2>7, CallerUnchanged DEF StreamPart
<1>4. CASE WorkerAbort(w)
  <2>1. UNCHANGED <<taken, results>> /\ hand[w] # 0 /\ sent' = sent
        /\ hand' = [hand EXCEPT ![w] = 0] /\ exited' = exited \cup {w}
        /\ ParseCtxDone /\ InResults' = InResults
    BY <1>4 DEF WorkerAbort, GivesUp, InResults
  <2>2. Held' = Held \ {hand[w]}
    BY <2>1, HandCleared
  <2>3. StreamType' /\ StreamInv'
    BY <1>a, <1>b, <1>c, <1>d, <1>e, <1>f, <2>1
       DEF IInv, TypeOK, StreamType, StreamInv, JobsLen, JobsClosed, Lines
  <2>4. HandledOnce' /\ NothingLost'
    BY <1>e, <1>f, <2>1, <2>2 DEF IInv, HandledOnce, NothingLost, Distinct
  <2>5. QED
    BY <1>b, <1>c, <1>d, <2>1, <2>3, <2>4, CallerUnchanged DEF StreamPart
<1>5. QED
  BY <1>1, <1>2, <1>3, <1>4 DEF Worker

LEMMA CloseStep == ASSUME IInv, CloseResults PROVE IInv'
<1> USE StreamFacts
    DEF caller, input, context, control, flush, counters, database, feed, pool
<1>1. UNCHANGED <<caller, feed, pool, results>> /\ producer # "off"
      /\ exited = Workers /\ resultsClosed' = TRUE
  BY DEF CloseResults, WorkersFinished
<1>2. StreamType' /\ StreamInv'
  BY <1>1 DEF IInv, TypeOK, StreamType, StreamInv, JobsLen, JobsClosed,
              ParseCtxDone, Lines
<1>3. Held' = Held /\ InResults' = InResults /\ InBatch' = InBatch
      /\ Unstored' = Unstored /\ LinesWith("pending")' = LinesWith("pending")
  BY <1>1 DEF Held, InResults, InBatch, Unstored, LinesWith, Lines
<1>4. HandledOnce' /\ NothingLost'
  BY <1>1, <1>3 DEF IInv, HandledOnce, NothingLost, Distinct, ParseCtxDone
<1>5. taken' >= taken /\ taken' \in Nat /\ (producer' = "off" <=> producer = "off")
      /\ (resultsClosed => resultsClosed' /\ results' = results)
  BY <1>1
<1>6. QED
  BY <1>1, <1>2, <1>4, <1>5, CallerUnchanged DEF StreamPart

-----------------------------------------------------------------------------
(* Steps of the caller and of the environment.                             *)

\* What the outcome of a statement tells about the request context.
LEMMA ExecFacts ==
  ASSUME NEW kind, NEW applied \in BOOLEAN, NEW ok \in BOOLEAN,
         ctxDone \in BOOLEAN, Exec(kind, applied, ok)
  PROVE  /\ ctxDone' \in BOOLEAN
         /\ ctxDone => ctxDone'
         /\ applied => ~ctxDone
         /\ ok => applied
BY DEF Exec

\* Steps that move no record keep the parts of IInv about records.
LEMMA RecordsUnchanged ==
  ASSUME IInv, UNCHANGED <<file, noDataRows, taken, hand, results, batch, at,
                           fate, insertErr>>,
         ParseCtxDone => ParseCtxDone'
  PROVE  /\ HandledOnce' /\ NothingLost' /\ FutureOpen'
         /\ \A f \in {"pending", "failed", "inserted"} :
              LinesWith(f)' = LinesWith(f)
         /\ PreErrors' = PreErrors
<1>1. Held' = Held /\ InResults' = InResults /\ InBatch' = InBatch
      /\ Unstored' = Unstored /\ PreErrors' = PreErrors
  BY DEF Held, InResults, InBatch, Unstored, PreErrors
<1>2. \A f \in {"pending", "failed", "inserted"} : LinesWith(f)' = LinesWith(f)
  BY DEF LinesWith, Lines
<1>3. HandledOnce'
  BY <1>1, <1>2 DEF IInv, HandledOnce, Distinct
<1>4. NothingLost'
  BY <1>1, <1>2 DEF IInv, NothingLost
<1>5. FutureOpen'
  BY DEF IInv, FutureOpen, Lines
<1>6. QED
  BY <1>1, <1>2, <1>3, <1>4, <1>5

\* The numbers of lines with each fate are numbers.
LEMMA CardinalityFacts ==
  ASSUME IInv, NEW f
  PROVE  IsFiniteSet(LinesWith(f)) /\ Cardinality(LinesWith(f)) \in Nat
<1>1. Lines = 1..Len(file) /\ Len(file) \in Nat
  BY StreamFacts
<1>2. IsFiniteSet(Lines)
  BY <1>1, FS_Interval
<1>3. LinesWith(f) \subseteq Lines
  BY DEF LinesWith
<1>4. IsFiniteSet(LinesWith(f))
  BY <1>2, <1>3, FS_Subset
<1>5. QED
  BY <1>4, FS_CardinalityType

LEMMA CreateUserFileStep == ASSUME IInv, CreateUserFile PROVE IInv'
<1> USE StreamFacts, CardinalityFacts DEF input, stream, feed, pool, channel,
        flush, counters, database
<1>1. PICK applied \in BOOLEAN, ok \in BOOLEAN :
        /\ Exec("file", applied, ok)
        /\ IF ok THEN pc' = "job" /\ UNCHANGED reply ELSE FailEarly
  BY DEF CreateUserFile
<1>2. pc = "file" /\ UNCHANGED <<input, cancelled, stream, inLoop, flush,
                                 counters, database>>
  BY DEF CreateUserFile
<1>3. ctxDone' \in BOOLEAN /\ (ctxDone => ctxDone')
  BY <1>1, ExecFacts
<1>4. pc' \in {"job", "returned"}
      /\ reply' \in [kind : {"none", "error", "rejected", "ok"},
                     imported : Nat, duplicates : Nat]
  BY <1>1 DEF FailEarly, ErrorReply, NoReply, IInv, TypeOK, CallerType
<1>5. TypeOK'
  BY <1>2, <1>3, <1>4 DEF IInv, TypeOK, InputType, StreamType, CallerType,
                          DatabaseType, Lines, JobsLen
<1>6. CallerInv' /\ StreamInv'
  BY <1>2, <1>3, <1>4 DEF IInv, CallerInv, StreamInv, ParseCtxDone,
                          JobsClosed, JobsLen
<1>7. ParseCtxDone => ParseCtxDone'
  BY <1>2, <1>3 DEF ParseCtxDone
<1>8. HandledOnce' /\ NothingLost' /\ FutureOpen' /\ PreErrors' = PreErrors
      /\ \A f \in {"pending", "failed", "inserted"} :
           LinesWith(f)' = LinesWith(f)
  BY <1>2, <1>7, RecordsUnchanged
<1>9. CountsInv' /\ SucceededIsComplete' /\ CountersNeverOverstate'
  BY <1>2, <1>4, <1>8, PreErrorsNat
     DEF IInv, CallerInv, CountsInv, SucceededIsComplete,
         CountersNeverOverstate
<1>10. QED
  BY <1>5, <1>6, <1>8, <1>9 DEF IInv

LEMMA CreateImportJobStep == ASSUME IInv, CreateImportJob PROVE IInv'
<1> USE PipelineAssumption, StreamFacts, CardinalityFacts
    DEF input, pool, channel, flush
<1>1. PICK applied \in BOOLEAN, ok \in BOOLEAN :
        /\ Exec("job", applied, ok)
        /\ job' = IF applied THEN [job EXCEPT !.status = "running"] ELSE job
        /\ IF ok
             THEN StartStream
             ELSE FailEarly /\ UNCHANGED <<inLoop, rowsFailed, producer,
                                   progressSinceUpdate, resultsClosed>>
  BY DEF CreateImportJob
<1>2. pc = "job" /\ UNCHANGED <<input, cancelled, sent, pool, results, flush,
                                rowsImported, insertErr, table, fate>>
  BY DEF CreateImportJob
<1>3. ctxDone' \in BOOLEAN /\ (ctxDone => ctxDone')
  BY <1>1, ExecFacts
<1>4. /\ producer = "off" /\ ~resultsClosed /\ ~inLoop /\ ~insertErr
      /\ batch = <<>> /\ at = 0 /\ totalInserted = 0 /\ results = <<>>
      /\ sent = 0 /\ taken = 0 /\ exited = {} /\ rowsFailed = 0
      /\ LinesWith("failed") = {} /\ job.status \notin {"succeeded", "failed"}
      /\ ~cancelled
  BY <1>2 DEF IInv, CallerInv, StreamInv, CountsInv
<1>5. \/ pc' = "receive" /\ inLoop' /\ rowsFailed' = PreErrors
         /\ progressSinceUpdate' = PreErrors /\ reply' = reply
         /\ producer' = (IF noDataRows THEN "off" ELSE "reading")
         /\ resultsClosed' = noDataRows
      \/ pc' = "returned" /\ reply' = ErrorReply
         /\ UNCHANGED <<inLoop, rowsFailed, producer, progressSinceUpdate,
                        resultsClosed>>
  BY <1>1 DEF StartStream, FailEarly
<1>6. job' \in [status : {"absent", "running", "succeeded", "failed"},
                imported : Nat, failed : Nat, total : Nat]
      /\ job'.imported = job.imported /\ job'.failed = job.failed
      /\ job'.status \notin {"succeeded", "failed"}
  BY <1>1, <1>4 DEF IInv, TypeOK, DatabaseType
<1>7. TypeOK'
  <2>1. InputType' /\ StreamType'
    BY <1>2, <1>3, <1>4, <1>5
       DEF IInv, TypeOK, InputType, StreamType, Lines, JobsLen
  <2>2. CallerType'
    <3>1. pc' \in {"receive", "returned"} /\ inLoop' \in BOOLEAN
      BY <1>4, <1>5
    <3>2. reply' \in [kind : {"none", "error", "rejected", "ok"},
                      imported : Nat, duplicates : Nat]
      BY <1>5 DEF IInv, TypeOK, CallerType, ErrorReply, NoReply
    <3>3. rowsFailed' \in Nat /\ progressSinceUpdate' \in Nat
      BY <1>5, PreErrorsNat DEF IInv, TypeOK, CallerType
    <3>4. QED
      BY <1>2, <3>1, <3>2, <3>3 DEF IInv, TypeOK, CallerType, Lines
  <2>3. DatabaseType'
    BY <1>2, <1>6 DEF IInv, TypeOK, DatabaseType, Lines
  <2>4. QED
    BY <2>1, <2>2, <2>3 DEF TypeOK
<1>8. CallerInv' /\ StreamInv'
  BY <1>2, <1>4, <1>5, <1>6
     DEF IInv, CallerInv, StreamInv, ParseCtxDone, JobsClosed, JobsLen
<1>9. ParseCtxDone => ParseCtxDone'
  BY <1>2, <1>3 DEF ParseCtxDone
<1>10. HandledOnce' /\ NothingLost' /\ FutureOpen' /\ PreErrors' = PreErrors
      /\ \A f \in {"pending", "failed", "inserted"} :
           LinesWith(f)' = LinesWith(f)
  BY <1>2, <1>9, RecordsUnchanged
<1>11. Cardinality(LinesWith("failed")) = 0
  BY <1>4, FS_EmptySet
<1>12. CountsInv' /\ SucceededIsComplete' /\ CountersNeverOverstate'
  BY <1>2, <1>4, <1>5, <1>6, <1>10, <1>11, PreErrorsNat
     DEF IInv, CountsInv, SucceededIsComplete, CountersNeverOverstate
<1>13. QED
  BY <1>7, <1>8, <1>10, <1>12 DEF IInv

LEMMA EndOfResultsStep == ASSUME IInv, EndOfResults PROVE IInv'
<1> USE PipelineAssumption, StreamFacts, CardinalityFacts
    DEF input, context, stream, feed, pool, channel, flush, counters, database
<1>1. /\ pc = "receive" /\ inLoop /\ results = <<>> /\ resultsClosed
      /\ ~inLoop' /\ inLoop' \in BOOLEAN /\ pc' = AfterLoop
      /\ UNCHANGED <<input, context, stream, flush, counters, database, reply>>
  BY DEF EndOfResults
<1>2. pc' \in {"insert", "progress", "finish"}
      /\ (pc' = "insert" => ~insertErr /\ batch # <<>>)
      /\ (pc' = "progress" => ~insertErr)
      /\ (pc' \in {"progress", "finish"} /\ ~insertErr => batch = <<>>)
  BY <1>1 DEF AfterLoop
<1>3. TypeOK'
  BY <1>1, <1>2 DEF IInv, TypeOK, InputType, StreamType, CallerType,
                    DatabaseType, Lines, JobsLen
<1>4. CallerInv' /\ StreamInv'
  <2>1. batch \in Seq(Lines)
    BY DEF IInv, TypeOK, CallerType
  <2>2. pc' = "insert" => at < Len(batch)
    BY <1>1, <1>2, <2>1 DEF IInv, CallerInv
  <2>3. CallerInv'
    BY <1>1, <1>2, <2>2 DEF IInv, CallerInv
  <2>4. QED
    BY <1>1, <2>3 DEF IInv, StreamInv, ParseCtxDone, JobsClosed, JobsLen
<1>5. HandledOnce' /\ NothingLost' /\ FutureOpen' /\ PreErrors' = PreErrors
      /\ \A f \in {"pending", "failed", "inserted"} :
           LinesWith(f)' = LinesWith(f)
  BY <1>1, RecordsUnchanged DEF ParseCtxDone
<1>6. CountsInv' /\ SucceededIsComplete' /\ CountersNeverOverstate'
  BY <1>1, <1>2, <1>5
     DEF IInv, CallerInv, CountsInv, SucceededIsComplete,
         CountersNeverOverstate
<1>7. QED
  BY <1>3, <1>4, <1>5, <1>6 DEF IInv

LEMMA UpdateProgressStep == ASSUME IInv, UpdateProgress PROVE IInv'
<1> USE PipelineAssumption, StreamFacts, CardinalityFacts
    DEF input, stream, feed, pool, channel, flush
<1>1. PICK applied \in BOOLEAN, ok \in BOOLEAN :
        /\ Exec("progress", applied, ok)
        /\ job' = IF applied
                    THEN [job EXCEPT !.imported = RowsReported,
                                     !.failed = rowsFailed]
                    ELSE job
  BY DEF UpdateProgress
<1>2. /\ pc = "progress" /\ progressSinceUpdate' = 0
      /\ pc' = (IF inLoop THEN "receive" ELSE "finish")
      /\ UNCHANGED <<input, cancelled, stream, inLoop, flush, rowsImported,
                     rowsFailed, insertErr, table, fate, reply>>
  BY DEF UpdateProgress
<1>3. ctxDone' \in BOOLEAN /\ (ctxDone => ctxDone')
  BY <1>1, ExecFacts
<1>4. rowsImported \in Nat /\ rowsFailed \in Nat /\ totalInserted \in Nat
  BY DEF IInv, TypeOK, CallerType
<1>5. /\ job' \in [status : {"absent", "running", "succeeded", "failed"},
                   imported : Nat, failed : Nat, total : Nat]
      /\ job'.status = job.status
      /\ \/ job'.imported = job.imported /\ job'.failed = job.failed
         \/ job'.imported = rowsImported /\ job'.failed = rowsFailed
  BY <1>1, <1>4 DEF IInv, TypeOK, DatabaseType, RowsReported
<1>6. TypeOK'
  BY <1>2, <1>3, <1>5 DEF IInv, TypeOK, InputType, StreamType, CallerType,
                          DatabaseType, Lines, JobsLen
<1>7. CallerInv' /\ StreamInv'
  BY <1>2, <1>3, <1>5 DEF IInv, CallerInv, StreamInv, ParseCtxDone,
                          JobsClosed, JobsLen
<1>8. ParseCtxDone => ParseCtxDone'
  BY <1>2, <1>3 DEF ParseCtxDone
<1>9. HandledOnce' /\ NothingLost' /\ FutureOpen' /\ PreErrors' = PreErrors
      /\ \A f \in {"pending", "failed", "inserted"} :
           LinesWith(f)' = LinesWith(f)
  BY <1>2, <1>8, RecordsUnchanged
<1>10. CountsInv' /\ SucceededIsComplete' /\ CountersNeverOverstate'
  BY <1>2, <1>4, <1>5, <1>9, PreErrorsNat
     DEF IInv, CallerInv, CountsInv, SucceededIsComplete,
         CountersNeverOverstate
<1>11. QED
  BY <1>6, <1>7, <1>9, <1>10 DEF IInv

\* When the caller gets to finish with no error and a live context, every
\* record of the file has its fate: the stream ended because the file did.
LEMMA AllSettled ==
  ASSUME IInv, pc = "finish", ~insertErr, ~ctxDone
  PROVE  LinesWith("pending") = {}
<1> USE PipelineAssumption, StreamFacts
<1>1. ~ParseCtxDone /\ results = <<>> /\ resultsClosed /\ batch = <<>>
  BY DEF IInv, CallerInv, ParseCtxDone
<1>2. InResults = {} /\ Unstored = {}
  BY <1>1 DEF InResults, Unstored, IInv, CallerInv
<1>3. Lines = 1..taken /\ Held = {}
  <2>1. CASE producer = "off"
    <3>1. file = <<>> /\ sent = 0 /\ \A w \in Workers : hand[w] = 0
      BY <1>1, <2>1 DEF IInv, StreamInv
    <3>2. Len(file) = 0 /\ taken = 0
      BY <3>1
    <3>3. Held = {}
      BY <3>1 DEF Held
    <3>4. QED
      BY <3>2, <3>3
  <2>2. CASE producer # "off"
    <3>1. exited = Workers
      BY <1>1, <2>2 DEF IInv, StreamInv
    <3>2. JobsClosed /\ JobsLen = 0 /\ sent = Len(file)
      BY <1>1, <3>1 DEF IInv, StreamInv, JobsClosed
    <3>3. \A w \in Workers : hand[w] = 0
      BY <3>1 DEF IInv, StreamInv
    <3>4. QED
      BY <3>2, <3>3 DEF JobsLen, Held
  <2>3. QED
    BY <2>1, <2>2
<1>4. LinesWith("pending") \cap 1..taken \subseteq Held \cup InResults \cup Unstored
  BY <1>1 DEF IInv, NothingLost
<1>5. QED
  BY <1>2, <1>3, <1>4 DEF LinesWith

LEMMA FinishStep == ASSUME IInv, FinishImport PROVE IInv'
<1> USE PipelineAssumption, StreamFacts, CardinalityFacts
    DEF input, stream, feed, pool, channel, flush, counters
<1>1. PICK applied \in BOOLEAN, ok \in BOOLEAN :
        /\ Exec("finish", applied, ok)
        /\ job' = IF applied
                    THEN [status   |-> FinalStatus,
                          imported |-> rowsImported,
                          failed   |-> rowsFailed,
                          total    |-> rowsImported + rowsFailed]
                    ELSE job
  BY DEF FinishImport
<1>2. /\ pc = "finish" /\ cancelled' = TRUE /\ pc' = "returned"
      /\ reply' = Answer
      /\ UNCHANGED <<input, stream, inLoop, flush, counters, table, fate>>
  BY DEF FinishImport
<1>3. ctxDone' \in BOOLEAN /\ (ctxDone => ctxDone') /\ (applied => ~ctxDone)
  BY <1>1, ExecFacts
<1>4. rowsImported \in Nat /\ rowsFailed \in Nat /\ totalInserted \in Nat
  BY DEF IInv, TypeOK, CallerType
<1>5. job' \in [status : {"absent", "running", "succeeded", "failed"},
                imported : Nat, failed : Nat, total : Nat]
  BY <1>1, <1>4 DEF IInv, TypeOK, DatabaseType, FinalStatus
<1>6. TypeOK'
  <2>1. reply' \in [kind : {"none", "error", "rejected", "ok"},
                    imported : Nat, duplicates : Nat]
    BY <1>2, <1>4 DEF Answer, ErrorReply, NoReply, Duplicates, RowsTotal
  <2>2. CallerType'
    BY <1>2, <2>1 DEF IInv, TypeOK, CallerType, Lines
  <2>3. InputType' /\ StreamType' /\ DatabaseType'
    BY <1>2, <1>3, <1>5 DEF IInv, TypeOK, InputType, StreamType,
                            DatabaseType, Lines, JobsLen
  <2>4. QED
    BY <2>2, <2>3 DEF TypeOK
<1>7. CallerInv' /\ StreamInv'
  BY <1>2, <1>3 DEF IInv, CallerInv, StreamInv, ParseCtxDone,
                    JobsClosed, JobsLen
<1>8. HandledOnce' /\ NothingLost' /\ FutureOpen' /\ PreErrors' = PreErrors
      /\ \A f \in {"pending", "failed", "inserted"} :
           LinesWith(f)' = LinesWith(f)
  BY <1>2, <1>3, RecordsUnchanged DEF ParseCtxDone
<1>9. CountsInv' /\ CountersNeverOverstate'
  BY <1>1, <1>2, <1>4, <1>8, PreErrorsNat
     DEF IInv, CountsInv, CountersNeverOverstate
<1>10. SucceededIsComplete'
  <2>1. CASE ~applied
    BY <1>1, <1>8, <2>1 DEF IInv, SucceededIsComplete
  <2>2. CASE applied
    <3>1. CASE insertErr
      BY <1>1, <2>2, <3>1 DEF SucceededIsComplete, FinalStatus
    <3>2. CASE ~insertErr
      <4>1. LinesWith("pending") = {} /\ totalInserted = 0
        BY <1>2, <1>3, <2>2, <3>2, AllSettled DEF IInv, CallerInv
      <4>2. rowsImported = Cardinality(LinesWith("inserted"))
            /\ rowsFailed = Cardinality(LinesWith("failed")) + PreErrors
        BY <1>2, <1>4, <3>2, <4>1 DEF IInv, CountsInv
      <4>3. QED
        BY <1>1, <1>8, <2>2, <4>1, <4>2 DEF SucceededIsComplete
    <3>3. QED
      BY <3>1, <3>2
  <2>3. QED
    BY <2>1, <2>2
<1>11. QED
  BY <1>6, <1>7, <1>8, <1>9, <1>10 DEF IInv

LEMMA ReceiveStep == ASSUME IInv, Receive PROVE IInv'
<1> USE PipelineAssumption, StreamFacts, CardinalityFacts
    DEF input, context, feed, pool
<1> DEFINE l == Head(results)
<1>1. /\ pc = "receive" /\ inLoop /\ results # <<>> /\ results' = Tail(results)
      /\ UNCHANGED <<input, context, feed, pool, resultsClosed, inLoop, at,
                     totalInserted, rowsImported, insertErr, job, table, reply>>
      /\ Drain \/ CountParseError(l) \/ AddToBatch(l)
  BY DEF Receive
<1>2. results \in Seq(Lines) /\ l \in Lines /\ results[1] = l
      /\ results' \in Seq(Lines) /\ Len(results') = Len(results) - 1
      /\ \A i \in 1..Len(results') : results'[i] = results[i + 1]
  BY <1>1 DEF IInv, TypeOK, StreamType
<1>3. InResults' = InResults \ {l} /\ Distinct(results)' /\ l \in InResults
  <2>1. Distinct(results)
    BY DEF IInv, HandledOnce
  <2>2. l \in InResults /\ InResults' \subseteq InResults
    BY <1>1, <1>2 DEF InResults
  <2>3. l \notin InResults'
    BY <1>1, <1>2, <2>1 DEF InResults, Distinct
  <2>4. \A i \in 2..Len(results) : results[i] \in InResults'
    <3>1. SUFFICES ASSUME NEW i \in 2..Len(results)
                   PROVE  results[i] \in InResults'
      OBVIOUS
    <3>2. i - 1 \in 1..Len(results') /\ results'[i - 1] = results[i]
      BY <1>2
    <3>3. QED
      BY <3>2 DEF InResults
  <2>5. InResults \subseteq InResults' \cup {l}
    <3>1. \A i \in 1..Len(results) : i = 1 \/ i \in 2..Len(results)
      BY <1>2
    <3>2. \A i \in 1..Len(results) : results[i] \in InResults' \cup {l}
      BY <1>2, <2>4, <3>1
    <3>3. QED
      BY <3>2 DEF InResults
  <2>6. Distinct(results)'
    BY <1>1, <1>2, <2>1 DEF Distinct
  <2>7. QED
    BY <2>2, <2>3, <2>5, <2>6
<1>4. l \in LinesWith("pending") /\ l \in 1..taken
      /\ l \notin Held \cup InBatch /\ fate[l] = "pending"
  BY <1>3 DEF IInv, HandledOnce, LinesWith
<1>5. Held' = Held /\ ParseCtxDone' = ParseCtxDone /\ PreErrors' = PreErrors
      /\ Lines' = Lines /\ job' = job /\ producer # "off"
      /\ job.status \notin {"succeeded", "failed"}
  BY <1>1 DEF Held, ParseCtxDone, PreErrors, Lines, IInv, StreamInv, CallerInv
<1>6. InputType' /\ StreamType' /\ StreamInv'
  BY <1>1, <1>2, <1>5
     DEF IInv, TypeOK, InputType, StreamType, StreamInv, JobsLen, JobsClosed
<1>7. batch \in Seq(Lines) /\ rowsFailed \in Nat /\ progressSinceUpdate \in Nat
      /\ fate \in [Lines -> {"pending", "failed", "inserted", "duplicate"}]
  BY DEF IInv, TypeOK, CallerType, DatabaseType
<1>8. CASE Drain
  <2>1. UNCHANGED <<pc, batch, rowsFailed, progressSinceUpdate, fate>>
        /\ insertErr
    BY <1>8 DEF Drain
  <2>2. InBatch' = InBatch /\ \A f \in {"pending", "failed", "inserted"} :
                                LinesWith(f)' = LinesWith(f)
    BY <1>5, <2>1 DEF InBatch, LinesWith
  <2>3. TypeOK' /\ CallerInv'
    BY <1>1, <1>5, <1>6, <2>1
       DEF IInv, TypeOK, CallerType, DatabaseType, CallerInv
  <2>4. HandledOnce'
    BY <1>1, <1>3, <1>5, <2>1, <2>2 DEF IInv, HandledOnce, Distinct
  <2>5. NothingLost' /\ FutureOpen'
    BY <1>1, <1>5, <2>1 DEF IInv, NothingLost, FutureOpen
  <2>6. CountsInv' /\ SucceededIsComplete' /\ CountersNeverOverstate'
    BY <1>1, <1>5, <2>1, <2>2
       DEF IInv, CountsInv, SucceededIsComplete, CountersNeverOverstate
  <2>7. QED
    BY <1>6, <2>3, <2>4, <2>5, <2>6 DEF IInv
<1>9. CASE CountParseError(l)
  <2>1. /\ ~insertErr /\ rowsFailed' = rowsFailed + 1 /\ batch' = batch
        /\ progressSinceUpdate' = progressSinceUpdate + 1
        /\ pc' \in {"receive", "progress"}
        /\ fate' = [fate EXCEPT ![l] = "failed"]
    BY <1>1, <1>9 DEF CountParseError
  <2>2. InBatch' = InBatch /\ Unstored' = Unstored /\ Distinct(batch)'
    BY <1>1, <2>1 DEF InBatch, Unstored, Distinct, IInv, HandledOnce
  <2>3. /\ LinesWith("pending")' = LinesWith("pending") \ {l}
        /\ LinesWith("failed")' = LinesWith("failed") \cup {l}
        /\ LinesWith("inserted")' = LinesWith("inserted")
        /\ l \notin LinesWith("failed")
    BY <1>2, <1>4, <1>5, <1>7, <2>1 DEF LinesWith
  <2>4. Cardinality(LinesWith("failed")') = Cardinality(LinesWith("failed")) + 1
    BY <2>3, FS_AddElement
  <2>5. TypeOK' /\ CallerInv'
    <3>1. CallerType'
      BY <1>1, <1>5, <1>7, <2>1 DEF IInv, TypeOK, CallerType
    <3>2. DatabaseType'
      BY <1>1, <1>5, <1>7, <2>1 DEF IInv, TypeOK, DatabaseType
    <3>3. CallerInv'
      BY <1>1, <1>5, <2>1 DEF IInv, CallerInv
    <3>4. QED
      BY <1>6, <3>1, <3>2, <3>3 DEF TypeOK
  <2>6. HandledOnce'
    <3>1. Unstored \subseteq InBatch
      BY <1>1, <1>7, <2>1 DEF Unstored, InBatch, IInv, CallerInv
    <3>2. QED
      BY <1>1, <1>3, <1>4, <1>5, <2>1, <2>2, <2>3, <3>1 DEF IInv, HandledOnce
  <2>7. NothingLost' /\ FutureOpen'
    <3>1. NothingLost'
      BY <1>1, <1>3, <1>5, <2>1, <2>2, <2>3 DEF IInv, NothingLost
    <3>2. FutureOpen'
      BY <1>1, <1>4, <1>5, <1>7, <2>1 DEF IInv, FutureOpen
    <3>3. QED
      BY <3>1, <3>2
  <2>8. CountsInv' /\ SucceededIsComplete' /\ CountersNeverOverstate'
    <3>1. CountsInv'
      BY <1>1, <1>5, <1>7, <2>1, <2>3, <2>4, PreErrorsNat DEF IInv, CountsInv
    <3>2. job.failed \in Nat
      BY DEF IInv, TypeOK, DatabaseType
    <3>3. QED
      BY <1>5, <2>3, <2>4, <3>1, <3>2, PreErrorsNat
         DEF IInv, SucceededIsComplete, CountersNeverOverstate
  <2>9. QED
    BY <1>6, <2>5, <2>6, <2>7, <2>8 DEF IInv
<1>10. CASE AddToBatch(l)
  <2>1. /\ ~insertErr /\ batch' = Append(batch, l)
        /\ pc' = (IF Len(batch) + 1 >= BatchSize THEN "insert" ELSE pc)
        /\ UNCHANGED <<rowsFailed, progressSinceUpdate, fate>>
    BY <1>10 DEF AddToBatch
  <2>2. at = 0 /\ at' = 0 /\ Len(batch) < BatchSize
    BY <1>1, <2>1 DEF IInv, CallerInv
  <2>3. Len(batch') = Len(batch) + 1 /\ batch'[Len(batch) + 1] = l
        /\ \A i \in 1..Len(batch) : batch'[i] = batch[i]
    BY <1>2, <1>7, <2>1
  <2>4. InBatch' = InBatch \cup {l}
    <3>1. \A i \in 1..Len(batch') : i \in 1..Len(batch) \/ i = Len(batch) + 1
      BY <1>7, <2>3
    <3>2. \A i \in 1..Len(batch) : i \in 1..Len(batch')
      BY <1>7, <2>3
    <3>3. Len(batch) + 1 \in 1..Len(batch')
      BY <1>7, <2>3
    <3>4. InBatch' \subseteq InBatch \cup {l}
      BY <2>3, <3>1 DEF InBatch
    <3>5. InBatch \subseteq InBatch' /\ l \in InBatch'
      BY <2>3, <3>2, <3>3 DEF InBatch
    <3>6. QED
      BY <3>4, <3>5
  <2>5. Unstored' = InBatch' /\ Unstored = InBatch
    BY <2>2 DEF Unstored, InBatch
  <2>6. Distinct(batch)'
    <3>1. \A i \in 1..Len(batch) : batch[i] # l
      BY <1>4 DEF InBatch
    <3>2. QED
      BY <1>7, <2>3, <3>1 DEF IInv, HandledOnce, Distinct
  <2>7. \A f \in {"pending", "failed", "inserted"} :
          LinesWith(f)' = LinesWith(f)
    BY <1>5, <2>1 DEF LinesWith
  <2>8. TypeOK' /\ CallerInv'
    <3>1. CallerType'
      BY <1>1, <1>2, <1>5, <1>7, <2>1, <2>2 DEF IInv, TypeOK, CallerType
    <3>2. DatabaseType'
      BY <1>1, <1>5, <2>1 DEF IInv, TypeOK, DatabaseType
    <3>3. CallerInv'
      BY <1>1, <1>5, <1>7, <2>1, <2>2, <2>3 DEF IInv, CallerInv
    <3>4. QED
      BY <1>6, <3>1, <3>2, <3>3 DEF TypeOK
  <2>9. HandledOnce'
    BY <1>1, <1>3, <1>4, <1>5, <2>1, <2>4, <2>5, <2>6, <2>7
       DEF IInv, HandledOnce
  <2>10. NothingLost' /\ FutureOpen'
    <3>1. NothingLost'
      BY <1>1, <1>3, <1>5, <2>1, <2>4, <2>5, <2>7 DEF IInv, NothingLost
    <3>2. FutureOpen'
      BY <1>1, <1>5, <2>1 DEF IInv, FutureOpen
    <3>3. QED
      BY <3>1, <3>2
  <2>11. CountsInv' /\ SucceededIsComplete' /\ CountersNeverOverstate'
    BY <1>1, <1>5, <2>1, <2>7
       DEF IInv, CountsInv, SucceededIsComplete, CountersNeverOverstate
  <2>12. QED
    BY <1>6, <2>8, <2>9, <2>10, <2>11 DEF IInv
<1>11. QED
  BY <1>1, <1>8, <1>9, <1>10

\* The rows of one INSERT come from the batch's records that have no fate,
\* and the rows that go in from these.
LEMMA StatementFacts ==
  ASSUME IInv, pc = "insert"
  PROVE  /\ FreshLines \subseteq StatementLines
         /\ StatementLines \subseteq Unstored
         /\ Unstored \subseteq InBatch
         /\ StatementLines \subseteq LinesWith("pending")
         /\ IsFiniteSet(FreshLines) /\ RowsAffected \in Nat
<1> USE StreamFacts
<1>1. batch \in Seq(Lines) /\ at \in Nat
  BY DEF IInv, TypeOK, CallerType
<1>2. FreshLines \subseteq StatementLines
  BY DEF FreshLines, StatementLines
<1>3. StatementLines \subseteq Unstored /\ Unstored \subseteq InBatch
  BY <1>1, PipelineAssumption
     DEF StatementLines, StatementPlaces, Unstored, InBatch
<1>4. StatementLines \subseteq LinesWith("pending")
  BY <1>3 DEF IInv, CallerInv, HandledOnce
<1>5. IsFiniteSet(FreshLines)
  BY <1>2, <1>4, CardinalityFacts, FS_Subset
<1>6. QED
  BY <1>2, <1>3, <1>4, <1>5, FS_CardinalityType DEF RowsAffected

\* What an INSERT that reached the database does to the fates.
LEMMA ApplyInsertFacts ==
  ASSUME IInv, pc = "insert", UNCHANGED file, ApplyInsert
  PROVE  /\ LinesWith("pending")' = LinesWith("pending") \ StatementLines
         /\ LinesWith("failed")' = LinesWith("failed")
         /\ Cardinality(LinesWith("inserted")')
              = Cardinality(LinesWith("inserted")) + RowsAffected
         /\ table' \in [Keys -> {"nobody", "job", "other"}]
         /\ fate' \in [Lines ->
                         {"pending", "failed", "inserted", "duplicate"}]
<1> USE StatementFacts DEF ApplyInsert
<1>1. Lines' = Lines
      /\ table \in [Keys -> {"nobody", "job", "other"}]
      /\ fate \in [Lines -> {"pending", "failed", "inserted", "duplicate"}]
  BY DEF Lines, IInv, TypeOK, DatabaseType
<1>2. StatementLines \subseteq Lines
      /\ \A l \in StatementLines : fate[l] = "pending"
  BY DEF LinesWith
<1>3. LinesWith("inserted")' = LinesWith("inserted") \cup FreshLines
      /\ LinesWith("inserted") \cap FreshLines = {}
  BY <1>1, <1>2 DEF LinesWith
<1>4. LinesWith("pending")' = LinesWith("pending") \ StatementLines
      /\ LinesWith("failed")' = LinesWith("failed")
  BY <1>1, <1>2 DEF LinesWith
<1>5. Cardinality(LinesWith("inserted") \cup FreshLines)
        = Cardinality(LinesWith("inserted")) + Cardinality(FreshLines)
          - Cardinality(LinesWith("inserted") \cap FreshLines)
  BY CardinalityFacts, FS_Union
<1>6. Cardinality(LinesWith("inserted") \cap FreshLines) = 0
  BY <1>3, FS_EmptySet
<1>7. Cardinality(LinesWith("inserted")) \in Nat
      /\ Cardinality(FreshLines) \in Nat
  BY CardinalityFacts, FS_CardinalityType
<1>8. Cardinality(LinesWith("inserted")')
        = Cardinality(LinesWith("inserted")) + RowsAffected
  <2>1. Cardinality(LinesWith("inserted")')
          = Cardinality(LinesWith("inserted") \cup FreshLines)
    BY <1>3
  <2>2. Cardinality(LinesWith("inserted") \cup FreshLines)
          = Cardinality(LinesWith("inserted")) + Cardinality(FreshLines)
    BY <1>5, <1>6, <1>7
  <2>3. QED
    BY <2>1, <2>2 DEF RowsAffected
<1>9. table' \in [Keys -> {"nobody", "job", "other"}]
  BY <1>1
<1>10. fate' \in [Lines -> {"pending", "failed", "inserted", "duplicate"}]
  BY <1>1
<1>11. QED
  BY <1>4, <1>8, <1>9, <1>10

LEMMA InsertStep == ASSUME IInv, InsertStatement PROVE IInv'
<1> USE PipelineAssumption, StreamFacts, CardinalityFacts
    DEF input, stream, feed, pool, channel
<1>1. PICK applied \in BOOLEAN, ok \in BOOLEAN :
        /\ Exec("insert", applied, ok)
        /\ IF applied THEN ApplyInsert ELSE UNCHANGED <<table, fate>>
        /\ IF ok THEN StatementDone ELSE StatementFailed
  BY DEF InsertStatement
<1>2. pc = "insert" /\ UNCHANGED <<input, stream, inLoop, rowsFailed,
                                   progressSinceUpdate, job, reply>>
  BY DEF InsertStatement
<1>3. /\ ctxDone' \in BOOLEAN /\ (ctxDone => ctxDone') /\ (ok => applied)
  BY <1>1, ExecFacts
<1>4. Lines' = Lines /\ Held' = Held /\ InResults' = InResults
      /\ PreErrors' = PreErrors /\ Distinct(results)'
  BY <1>2 DEF Lines, Held, InResults, PreErrors, Distinct, IInv, HandledOnce
<1>5. /\ batch \in Seq(Lines) /\ at \in Nat /\ at < Len(batch)
      /\ totalInserted \in Nat /\ rowsImported \in Nat /\ rowsFailed \in Nat
      /\ ~insertErr /\ job.status \notin {"succeeded", "failed"}
      /\ Len(batch) <= BatchSize
  BY <1>2 DEF IInv, TypeOK, CallerType, CallerInv
<1>6. /\ FreshLines \subseteq StatementLines
      /\ StatementLines \subseteq Unstored
      /\ Unstored \subseteq InBatch
      /\ StatementLines \subseteq LinesWith("pending")
      /\ RowsAffected \in Nat
  BY <1>2, StatementFacts
<1>7. /\ LinesWith("failed")' = LinesWith("failed")
      /\ table' \in [Keys -> {"nobody", "job", "other"}]
      /\ fate' \in [Lines ->
                      {"pending", "failed", "inserted", "duplicate"}]
      /\ LinesWith("pending") \ StatementLines \subseteq LinesWith("pending")'
      /\ Cardinality(LinesWith("inserted"))
           <= Cardinality(LinesWith("inserted")')
      /\ applied => /\ LinesWith("pending")'
                         = LinesWith("pending") \ StatementLines
                    /\ Cardinality(LinesWith("inserted")')
                         = Cardinality(LinesWith("inserted")) + RowsAffected
  <2>1. CASE applied
    <3>1. ApplyInsert /\ file' = file
      BY <1>1, <1>2, <2>1
    <3>2. QED
      BY <1>2, <1>6, <3>1, ApplyInsertFacts
  <2>2. CASE ~applied
    <3>1. table' = table /\ fate' = fate
      BY <1>1, <2>2
    <3>2. \A f : LinesWith(f)' = LinesWith(f)
      BY <1>4, <3>1 DEF LinesWith
    <3>3. QED
      BY <2>2, <3>1, <3>2 DEF IInv, TypeOK, DatabaseType
  <2>3. QED
    BY <2>1, <2>2
<1>8. InputType' /\ StreamType' /\ StreamInv' /\ DatabaseType' /\ FutureOpen'
  <2>1. cancelled' \in BOOLEAN /\ (ParseCtxDone => ParseCtxDone')
    BY <1>1, <1>3 DEF StatementDone, StatementFailed, ParseCtxDone
  <2>2. InputType' /\ StreamType' /\ StreamInv'
    BY <1>2, <1>3, <1>4, <2>1 DEF IInv, TypeOK, InputType, StreamType,
                                  StreamInv, JobsLen, JobsClosed
  <2>3. DatabaseType'
    BY <1>2, <1>4, <1>7 DEF IInv, TypeOK, DatabaseType
  <2>4. StatementLines \subseteq 1..taken
    BY <1>6 DEF IInv, HandledOnce
  <2>5. \A l \in Lines : l > taken => l \in LinesWith("pending")'
    BY <1>7, <2>4 DEF IInv, FutureOpen, LinesWith
  <2>6. FutureOpen'
    BY <1>2, <1>4, <2>5 DEF FutureOpen, LinesWith
  <2>7. QED
    BY <2>2, <2>3, <2>6
<1>9. SucceededIsComplete' /\ CountersNeverOverstate'
  <2>1. job.imported \in Nat /\ job.failed \in Nat
    BY DEF IInv, TypeOK, DatabaseType
  <2>2. Cardinality(LinesWith("inserted")') \in Nat
    <3>1. CASE applied
      BY <1>6, <1>7, <3>1
    <3>2. CASE ~applied
      <4>1. LinesWith("inserted")' = LinesWith("inserted")
        BY <1>1, <1>4, <3>2 DEF LinesWith
      <4>2. QED
        BY <4>1
    <3>3. QED
      BY <3>1, <3>2
  <2>3. QED
    BY <1>2, <1>4, <1>5, <1>7, <2>1, <2>2
       DEF IInv, SucceededIsComplete, CountersNeverOverstate
<1>10. CASE ok
  <2>1. applied /\ UNCHANGED <<insertErr, cancelled>>
    BY <1>1, <1>3, <1>10 DEF StatementDone
  <2>2. CASE at + StatementRows >= Len(batch)
    <3>1. /\ at' = 0 /\ totalInserted' = 0 /\ batch' = <<>> /\ pc' = "progress"
          /\ rowsImported' = rowsImported + (totalInserted + RowsAffected)
      BY <1>1, <1>10, <2>2 DEF StatementDone
    <3>2. CallerType' /\ CallerInv'
      BY <1>2, <1>4, <1>5, <1>6, <2>1, <3>1
         DEF IInv, TypeOK, CallerType, CallerInv
    <3>3. InBatch' = {} /\ Unstored' = {} /\ Distinct(batch)'
      BY <3>1 DEF InBatch, Unstored, Distinct
    <3>4. StatementLines = Unstored
      BY <1>5, <1>6, <2>2 DEF StatementLines, StatementPlaces, Unstored
    <3>5. HandledOnce'
      BY <1>2, <1>4, <1>6, <1>7, <3>3 DEF IInv, HandledOnce
    <3>6. NothingLost'
      BY <1>2, <1>3, <1>4, <1>5, <1>7, <2>1, <3>3, <3>4
         DEF IInv, NothingLost, ParseCtxDone
    <3>7. CountsInv'
      BY <1>2, <1>4, <1>5, <1>6, <1>7, <2>1, <3>1 DEF IInv, CountsInv
    <3>8. QED
      BY <1>8, <1>9, <3>2, <3>5, <3>6, <3>7 DEF IInv, TypeOK
  <2>3. CASE at + StatementRows < Len(batch)
    <3>1. /\ at' = at + StatementRows /\ batch' = batch /\ pc' = "insert"
          /\ totalInserted' = totalInserted + RowsAffected
          /\ rowsImported' = rowsImported
      BY <1>1, <1>2, <1>5, <1>10, <2>3 DEF StatementDone
    <3>2. CallerType' /\ CallerInv'
      BY <1>2, <1>4, <1>5, <1>6, <2>1, <2>3, <3>1
         DEF IInv, TypeOK, CallerType, CallerInv
    <3>3. InBatch' = InBatch /\ Distinct(batch)'
      BY <3>1 DEF InBatch, Distinct, IInv, HandledOnce
    <3>4. Unstored' = Unstored \ StatementLines
      <4>1. \A i \in 1..Len(batch) : \A p \in StatementPlaces :
              batch[i] = batch[p] => i = p
        BY DEF StatementPlaces, IInv, HandledOnce, Distinct
      <4>2. Unstored' = {batch[i] : i \in at + StatementRows + 1..Len(batch)}
        BY <3>1 DEF Unstored
      <4>3. \A i \in at + StatementRows + 1..Len(batch) :
              i \in at + 1..Len(batch) /\ i \notin StatementPlaces
        BY <1>5 DEF StatementPlaces
      <4>4. \A i \in at + 1..Len(batch) :
              i \in StatementPlaces \/ i \in at + StatementRows + 1..Len(batch)
        BY <1>5 DEF StatementPlaces
      <4>5. \A i \in at + 1..Len(batch) : i \in 1..Len(batch)
        BY <1>5
      <4>6. Unstored' \subseteq Unstored \ StatementLines
        BY <4>1, <4>2, <4>3, <4>5 DEF Unstored, StatementLines
      <4>7. Unstored \ StatementLines \subseteq Unstored'
        BY <4>2, <4>4 DEF Unstored, StatementLines
      <4>8. QED
        BY <4>6, <4>7
    <3>5. HandledOnce'
      <4>1. Unstored \subseteq LinesWith("pending")
        BY <1>5 DEF IInv, HandledOnce
      <4>2. QED
        BY <1>2, <1>4, <1>6, <1>7, <3>3, <3>4, <4>1 DEF IInv, HandledOnce
    <3>6. NothingLost'
      BY <1>2, <1>3, <1>4, <1>5, <1>7, <2>1, <3>3, <3>4
         DEF IInv, NothingLost, ParseCtxDone
    <3>7. CountsInv'
      BY <1>2, <1>4, <1>5, <1>6, <1>7, <2>1, <3>1 DEF IInv, CountsInv
    <3>8. QED
      BY <1>8, <1>9, <3>2, <3>5, <3>6, <3>7 DEF IInv, TypeOK
  <2>4. QED
    BY <1>5, <2>2, <2>3
<1>11. CASE ~ok
  <2>1. /\ insertErr' /\ insertErr' \in BOOLEAN
        /\ pc' = (IF inLoop THEN "receive" ELSE "finish")
        /\ UNCHANGED <<at, totalInserted, rowsImported, batch>>
    BY <1>1, <1>11 DEF StatementFailed, ErrorKept
  <2>2. CallerType' /\ CallerInv'
    BY <1>2, <1>4, <1>5, <2>1 DEF IInv, TypeOK, CallerType, CallerInv
  <2>3. InBatch' = InBatch /\ Distinct(batch)'
    BY <2>1 DEF InBatch, Distinct, IInv, HandledOnce
  <2>4. HandledOnce'
    BY <1>2, <1>4, <1>6, <1>7, <2>1, <2>3 DEF IInv, HandledOnce
  <2>5. NothingLost'
    BY <2>1 DEF NothingLost
  <2>6. CountsInv'
    BY <1>2, <1>4, <1>5, <1>6, <1>7, <2>1 DEF IInv, CountsInv
  <2>7. QED
    BY <1>8, <1>9, <2>2, <2>4, <2>5, <2>6 DEF IInv, TypeOK
<1>12. QED
  BY <1>10, <1>11

LEMMA EnvironmentStep == ASSUME IInv, Environment PROVE IInv'
<1> USE PipelineAssumption, StreamFacts, CardinalityFacts
    DEF input, context, stream, feed, pool, channel, control, flush, counters
<1>1. /\ UNCHANGED <<input, cancelled, stream, control, flush, counters, job,
                     fate, reply>>
      /\ table' \in [Keys -> {"nobody", "job", "other"}]
      /\ ctxDone' \in BOOLEAN /\ (ctxDone => ctxDone')
  <2>1. table \in [Keys -> {"nobody", "job", "other"}]
    BY DEF IInv, TypeOK, DatabaseType
  <2>2. QED
    <3>1. CASE CancelRequest
      BY <2>1, <3>1 DEF CancelRequest, database
    <3>2. CASE \E k \in Keys : OtherImport(k)
      BY <2>1, <3>2 DEF OtherImport
    <3>3. CASE \E owner \in {"job", "other"} : DeleteBatch(owner)
      BY <2>1, <3>3 DEF DeleteBatch
    <3>4. QED
      BY <3>1, <3>2, <3>3 DEF Environment
<1>2. TypeOK'
  BY <1>1 DEF IInv, TypeOK, InputType, StreamType, CallerType, DatabaseType,
              Lines, JobsLen
<1>3. CallerInv' /\ StreamInv'
  BY <1>1 DEF IInv, CallerInv, StreamInv, ParseCtxDone, JobsClosed, JobsLen
<1>4. HandledOnce' /\ NothingLost' /\ FutureOpen' /\ PreErrors' = PreErrors
      /\ \A f \in {"pending", "failed", "inserted"} :
           LinesWith(f)' = LinesWith(f)
  BY <1>1, RecordsUnchanged DEF ParseCtxDone
<1>5. CountsInv' /\ SucceededIsComplete' /\ CountersNeverOverstate'
  BY <1>1, <1>4
     DEF IInv, CountsInv, SucceededIsComplete, CountersNeverOverstate
<1>6. QED
  BY <1>2, <1>3, <1>4, <1>5 DEF IInv

LEMMA StutterStep == ASSUME IInv, UNCHANGED vars PROVE IInv'
<1> USE DEF vars, caller, input, context, stream, feed, pool, channel, control,
            flush, counters, database
<1>1. TypeOK'
  BY DEF IInv, TypeOK, InputType, StreamType, CallerType, DatabaseType, Lines,
         JobsLen
<1>2. CallerInv' /\ StreamInv'
  BY DEF IInv, CallerInv, StreamInv, ParseCtxDone, JobsClosed, JobsLen
<1>3. HandledOnce' /\ NothingLost' /\ FutureOpen' /\ PreErrors' = PreErrors
      /\ \A f \in {"pending", "failed", "inserted"} :
           LinesWith(f)' = LinesWith(f)
  BY RecordsUnchanged DEF ParseCtxDone
<1>4. CountsInv' /\ SucceededIsComplete' /\ CountersNeverOverstate'
  BY <1>3 DEF IInv, CountsInv, SucceededIsComplete, CountersNeverOverstate
<1>5. QED
  BY <1>1, <1>2, <1>3, <1>4 DEF IInv

-----------------------------------------------------------------------------
(* The theorems.                                                           *)

\* IInv holds in every reachable state, whatever the scheduler, the
\* database, the client and the user's other requests do.
THEOREM Inductive == Spec => []IInv
<1>1. IInv /\ [Next]_vars => IInv'
  <2> SUFFICES ASSUME IInv, [Next]_vars PROVE IInv'
    OBVIOUS
  <2>1. CASE Caller
    BY <2>1, CreateUserFileStep, CreateImportJobStep, ReceiveStep,
       EndOfResultsStep, InsertStep, UpdateProgressStep, FinishStep DEF Caller
  <2>2. CASE Producer
    BY <2>2, ProducerStep
  <2>3. CASE \E w \in Workers : Worker(w)
    BY <2>3, WorkerStep
  <2>4. CASE CloseResults
    BY <2>4, CloseStep
  <2>5. CASE Environment
    BY <2>5, EnvironmentStep
  <2>6. CASE Terminated
    BY <2>6, StutterStep DEF Terminated
  <2>7. CASE UNCHANGED vars
    BY <2>7, StutterStep
  <2>8. QED
    BY <2>1, <2>2, <2>3, <2>4, <2>5, <2>6, <2>7 DEF Next
<1>2. QED
  BY InitIInv, <1>1, PTL DEF Spec

\* Type correctness, with the bounds on channels, batches and statements.
THEOREM TypeCorrect == Spec => []TypeOK
<1>1. IInv => TypeOK
  BY DEF IInv
<1>2. QED
  BY <1>1, Inductive, PTL

\* No goroutine ever sends on the results channel after the closer closed
\* it (service.go:457-460), however cancellation interleaves with the workers.
THEOREM ClosedChannelSafe == Spec => []NoSendOnClosedChannel
<1>1. IInv => NoSendOnClosedChannel
  <2> SUFFICES ASSUME IInv, resultsClosed, NEW w \in Workers
               PROVE  hand[w] = 0 /\ (producer # "off" => w \in exited)
    BY DEF NoSendOnClosedChannel
  <2>1. CASE producer = "off"
    BY <2>1 DEF IInv, StreamInv
  <2>2. CASE producer # "off"
    BY <2>2 DEF IInv, StreamInv
  <2>3. QED
    BY <2>1, <2>2
<1>2. QED
  BY <1>1, Inductive, PTL

\* No record is parsed, queued or inserted twice (service.go:309-331).
THEOREM NoRecordTwice == Spec => []HandledOnce
<1>1. IInv => HandledOnce
  BY DEF IInv
<1>2. QED
  BY <1>1, Inductive, PTL

\* No record disappears between the goroutines while nobody cancelled.
THEOREM NoRecordLost == Spec => []NothingLost
<1>1. IInv => NothingLost
  BY DEF IInv
<1>2. QED
  BY <1>1, Inductive, PTL

\* A job marked succeeded has dealt with the whole file, and its counters
\* are exact (service.go:341-364).
THEOREM SucceededComplete == Spec => []SucceededIsComplete
<1>1. IInv => SucceededIsComplete
  BY DEF IInv
<1>2. QED
  BY <1>1, Inductive, PTL

\* The counters in import_jobs never claim more than was stored or failed.
THEOREM NoOverstatement == Spec => []CountersNeverOverstate
<1>1. IInv => CountersNeverOverstate
  BY DEF IInv
<1>2. QED
  BY <1>1, Inductive, PTL

-----------------------------------------------------------------------------
(* What the client is told. The answer is written by the caller's last step *)
(* and the fates are written by earlier steps of the caller only.           *)
AnswerInv ==
  /\ reply.kind = "ok" => pc = "returned"
  /\ AnswerIsTrue

\* The step that answers: outside an aborted import totalInserted is zero, so
\* CountsInv makes the counter exact; AllSettled does the rest.
LEMMA AnsweringStep ==
  ASSUME IInv, FinishImport
  PROVE  AnswerInv'
<1> USE PipelineAssumption
<1>1. PICK applied \in BOOLEAN, ok \in BOOLEAN : Exec("finish", applied, ok)
  BY DEF FinishImport
<1>2. /\ pc = "finish" /\ pc' = "returned" /\ reply' = Answer
      /\ fate' = fate /\ file' = file
  BY DEF FinishImport, input
<1>3. ctxDone => ctxDone'
  BY <1>1, ExecFacts DEF IInv, TypeOK, InputType
<1>4. \A f \in {"pending", "inserted"} : LinesWith(f)' = LinesWith(f)
  BY <1>2 DEF LinesWith, Lines
<1>5. SUFFICES ASSUME reply'.kind = "ok"
               PROVE  /\ reply'.imported = Cardinality(LinesWith("inserted"))
                      /\ ctxDone' \/ LinesWith("pending") = {}
  BY <1>2, <1>4 DEF AnswerInv, AnswerIsTrue
<1>6. ~insertErr /\ reply'.imported = rowsImported
  BY <1>2, <1>5 DEF Answer, ErrorReply, NoReply
<1>7. rowsImported = Cardinality(LinesWith("inserted"))
  <2>1. totalInserted = 0 /\ rowsImported \in Nat
    BY <1>2, <1>6 DEF IInv, CallerInv, TypeOK, CallerType
  <2>2. QED
    BY <1>6, <2>1 DEF IInv, CountsInv
<1>8. ctxDone' \/ LinesWith("pending") = {}
  BY <1>2, <1>3, <1>6, AllSettled
<1>9. QED
  BY <1>6, <1>7, <1>8

\* Steps that leave the answer and the fates alone.
LEMMA AnswerKept ==
  ASSUME AnswerInv, UNCHANGED <<file, fate, reply>>,
         ctxDone => ctxDone',
         pc = "returned" => pc' = "returned"
  PROVE  AnswerInv'
<1>1. \A f \in {"pending", "inserted"} : LinesWith(f)' = LinesWith(f)
  BY DEF LinesWith, Lines
<1>2. QED
  BY <1>1 DEF AnswerInv, AnswerIsTrue

\* Before the answer the caller leaves no "ok" behind.
LEMMA UnansweredStep ==
  ASSUME AnswerInv, Caller, ~FinishImport
  PROVE  reply'.kind # "ok"
<1>1. pc # "returned"
  BY DEF Caller, CreateUserFile, CreateImportJob, Receive, EndOfResults,
         InsertStatement, UpdateProgress
<1>2. reply.kind # "ok"
  BY <1>1 DEF AnswerInv
<1>3. reply' = reply \/ reply' = ErrorReply
  <2>1. CASE CreateUserFile
    BY <2>1 DEF CreateUserFile, FailEarly
  <2>2. CASE CreateImportJob
    BY <2>2 DEF CreateImportJob, StartStream, FailEarly
  <2>3. CASE Receive \/ EndOfResults \/ InsertStatement \/ UpdateProgress
    BY <2>3 DEF Receive, EndOfResults, InsertStatement, UpdateProgress
  <2>4. QED
    BY <2>1, <2>2, <2>3 DEF Caller
<1>4. QED
  BY <1>2, <1>3 DEF ErrorReply, NoReply

\* The import count the client is told is what was stored, and an answer
\* given while the request lived covers the whole file (service.go:366-376).
THEOREM AnswerTrue == Spec => []AnswerIsTrue
<1>1. Init => AnswerInv
  BY DEF Init, AnswerInv, AnswerIsTrue, NoReply
<1>2. IInv /\ AnswerInv /\ [Next]_vars => AnswerInv'
  <2> SUFFICES ASSUME IInv, AnswerInv, [Next]_vars PROVE AnswerInv'
    OBVIOUS
  <2>1. CASE FinishImport
    BY <2>1, AnsweringStep
  <2>2. CASE Caller /\ ~FinishImport
    BY <2>2, UnansweredStep DEF AnswerInv, AnswerIsTrue
  <2>3. CASE UNCHANGED caller
    <3>1. UNCHANGED <<file, fate, reply>> /\ ctxDone' = ctxDone /\ pc' = pc
      BY <2>3 DEF caller, input, context, control, database
    <3>2. QED
      BY <3>1, AnswerKept
  <2>4. CASE Environment
    <3>1. UNCHANGED <<file, fate, reply>> /\ pc' = pc /\ (ctxDone => ctxDone')
      <4>1. CASE CancelRequest
        BY <4>1 DEF CancelRequest, input, control, database
      <4>2. CASE \E k \in Keys : OtherImport(k)
        BY <4>2 DEF OtherImport, input, control, context
      <4>3. CASE \E owner \in {"job", "other"} : DeleteBatch(owner)
        BY <4>3 DEF DeleteBatch, input, control, context
      <4>4. QED
        BY <2>4, <4>1, <4>2, <4>3 DEF Environment
    <3>2. QED
      BY <3>1, AnswerKept
  <2>5. Producer \/ (\E w \in Workers : Worker(w)) \/ CloseResults =>
          UNCHANGED caller
    BY DEF Producer, ProducerRead, ProducerSend, ProducerAbort,
           Worker, WorkerTake, WorkerExit, WorkerSend, WorkerAbort, CloseResults
  <2>6. Terminated \/ UNCHANGED vars => UNCHANGED caller
    BY DEF Terminated, vars
  <2>7. QED
    BY <2>1, <2>2, <2>3, <2>4, <2>5, <2>6 DEF Next
<1>3. AnswerInv => AnswerIsTrue
  BY DEF AnswerInv
<1>4. QED
  BY <1>1, <1>2, <1>3, Inductive, PTL DEF Spec

-----------------------------------------------------------------------------
(* What a succeeded job promises about the rows themselves.                *)

\* A set of numbers has a least one.
LEMMA LeastNatural ==
  ASSUME NEW T, T \subseteq Nat, T # {}
  PROVE  \E x \in T : \A y \in T : x <= y
<1> DEFINE R == OpToRel(<, Nat)
<1>1. IsWellFoundedOn(R, Nat)
  BY NatLessThanWellFounded
<1>2. \A x, y \in Nat : y < x => <<y, x>> \in R
  BY DEF OpToRel
<1> HIDE DEF R
<1>3. PICK x \in T : \A y \in T : <<y, x>> \notin R
  BY <1>1, WFMin
<1>4. ASSUME NEW y \in T PROVE x <= y
  <2>1. ~(y < x) /\ x \in Nat /\ y \in Nat
    BY <1>2, <1>3
  <2>2. QED
    BY <2>1
<1>5. QED
  BY <1>3, <1>4

\* Only records that do not parse fail, only the others reach the batch, and
\* a record the database was given left its external id in the table.
StoredInv ==
  /\ \A l \in Lines : fate[l] = "failed" => file[l] = BadRow
  /\ \A i \in 1..Len(batch) : file[batch[i]] # BadRow
  /\ "delete" \notin Disturbances =>
       \A l \in Lines : fate[l] \in {"inserted", "duplicate"} =>
         file[l] # BadRow /\ table[file[l]] # "nobody"

\* After an INSERT the table has the external id of each of its rows: the
\* first row of the statement with that id went in, unless it was there.
LEMMA StatementStored ==
  ASSUME IInv, StoredInv, ApplyInsert, UNCHANGED file, NEW l \in StatementLines
  PROVE  l \in Lines /\ file[l] # BadRow /\ table'[file[l]] # "nobody"
<1>1. batch \in Seq(Lines) /\ at \in Nat /\ file \in [Lines -> Keys \cup {BadRow}]
  BY FileFacts DEF IInv, TypeOK, InputType, CallerType
<1>2. PICK i \in StatementPlaces : l = batch[i]
  BY DEF StatementLines
<1>3. StatementPlaces \subseteq 1..Len(batch)
  BY DEF StatementPlaces
<1>4. l \in Lines /\ file[l] \in Keys
  BY <1>1, <1>2, <1>3 DEF StoredInv
<1> DEFINE T == {p \in StatementPlaces : file[batch[p]] = file[l]}
<1>5. i \in T /\ T \subseteq Nat
  <2>1. StatementPlaces \subseteq Nat
    BY <1>1, <1>3
  <2>2. QED
    BY <1>2, <2>1
<1>6. PICK p \in T : \A q \in T : p <= q
  BY <1>5, LeastNatural
<1>7. \A q \in StatementPlaces : q < p => file[batch[q]] # file[batch[p]]
  BY <1>1, <1>3, <1>6
<1>8. CASE table[file[l]] = "nobody"
  <2>1. batch[p] \in FreshLines
    BY <1>6, <1>7, <1>8 DEF FreshLines
  <2>2. table'[file[l]] = "job"
    BY <1>4, <1>6, <2>1 DEF ApplyInsert
  <2>3. QED
    BY <1>4, <2>2, PipelineAssumption
<1>9. CASE table[file[l]] # "nobody"
  BY <1>4, <1>9, PipelineAssumption DEF ApplyInsert
<1>10. QED
  BY <1>8, <1>9

LEMMA InsertStored ==
  ASSUME IInv, StoredInv, InsertStatement
  PROVE  StoredInv'
<1>1. PICK applied \in BOOLEAN : IF applied THEN ApplyInsert ELSE UNCHANGED <<table, fate>>
  BY DEF InsertStatement
<1>2. file' = file /\ Lines' = Lines /\ (batch' = batch \/ batch' = <<>>)
  BY DEF InsertStatement, StatementDone, StatementFailed, input, Lines
<1>3. \A i \in 1..Len(batch') : file'[batch'[i]] # BadRow
  BY <1>2 DEF StoredInv
<1>4. CASE UNCHANGED <<table, fate>>
  BY <1>2, <1>3, <1>4 DEF StoredInv
<1>5. CASE ApplyInsert
  <2>1. \A l \in Lines : fate'[l] = (IF l \in FreshLines THEN "inserted"
                                     ELSE IF l \in StatementLines THEN "duplicate" ELSE fate[l])
    BY <1>5 DEF ApplyInsert
  <2>2. FreshLines \subseteq StatementLines
    BY DEF FreshLines, StatementLines
  <2>3. \A l \in Lines : fate'[l] = "failed" => file[l] = BadRow
    BY <2>1 DEF StoredInv
  <2>4. file \in [Lines -> Keys \cup {BadRow}]
    BY FileFacts DEF IInv, TypeOK, InputType
  <2>5. \A k \in Keys : table[k] # "nobody" => table'[k] # "nobody"
    BY <1>5 DEF ApplyInsert
  <2>6. ASSUME "delete" \notin Disturbances, NEW l \in Lines,
               fate'[l] \in {"inserted", "duplicate"}
        PROVE  file[l] # BadRow /\ table'[file[l]] # "nobody"
    <3>1. CASE l \in StatementLines
      BY <1>2, <1>5, <3>1, StatementStored
    <3>2. CASE l \notin StatementLines
      <4>1. fate'[l] = fate[l]
        BY <2>1, <2>2, <3>2
      <4>2. QED
        BY <2>4, <2>5, <2>6, <4>1 DEF StoredInv
    <3>3. QED
      BY <3>1, <3>2
  <2>7. QED
    BY <1>2, <1>3, <2>3, <2>6 DEF StoredInv
<1>6. QED
  BY <1>1, <1>4, <1>5

LEMMA ReceiveStored ==
  ASSUME IInv, StoredInv, Receive
  PROVE  StoredInv'
<1>1. PICK l : l = Head(results) /\ (Drain \/ CountParseError(l) \/ AddToBatch(l))
  BY DEF Receive
<1>2. UNCHANGED <<file, table>> /\ Lines' = Lines
  BY DEF Receive, input, Lines
<1>3. batch \in Seq(Lines) /\ fate \in [Lines -> {"pending", "failed", "inserted", "duplicate"}]
  BY DEF IInv, TypeOK, CallerType, DatabaseType
<1>4. CASE Drain
  BY <1>2, <1>4 DEF Drain, StoredInv
<1>5. CASE CountParseError(l)
  BY <1>2, <1>3, <1>5 DEF CountParseError, StoredInv
<1>6. CASE AddToBatch(l)
  <2>1. batch' = Append(batch, l) /\ fate' = fate /\ file[l] # BadRow
    BY <1>6 DEF AddToBatch
  <2>2. \A i \in 1..Len(batch') : file[batch'[i]] # BadRow
    <3>1. Len(batch') = Len(batch) + 1 /\ Len(batch) \in Nat /\ batch'[Len(batch) + 1] = l
          /\ \A i \in 1..Len(batch) : batch'[i] = batch[i]
      BY <1>3, <2>1
    <3>2. QED
      BY <2>1, <3>1 DEF StoredInv
  <2>3. QED
    BY <1>2, <2>1, <2>2 DEF StoredInv
<1>7. QED
  BY <1>1, <1>4, <1>5, <1>6

LEMMA StoredStep ==
  ASSUME IInv, StoredInv, [Next]_vars
  PROVE  StoredInv'
<1>1. CASE UNCHANGED <<file, batch, table, fate>>
  BY <1>1 DEF StoredInv, Lines
<1>2. CASE CreateUserFile \/ CreateImportJob \/ EndOfResults \/ UpdateProgress
           \/ FinishImport \/ CancelRequest
  BY <1>1, <1>2 DEF CreateUserFile, CreateImportJob, EndOfResults, UpdateProgress,
        FinishImport, CancelRequest, input, flush, database
<1>3. CASE \E k \in Keys : OtherImport(k)
  <2>1. PICK k \in Keys : OtherImport(k)
    BY <1>3
  <2>2. UNCHANGED <<file, batch, fate>> /\ \A x : table[x] # "nobody" => table'[x] # "nobody"
    BY <2>1 DEF OtherImport, input, flush
  <2>3. QED
    BY <2>2 DEF StoredInv, Lines
<1>4. CASE \E owner \in {"job", "other"} : DeleteBatch(owner)
  BY <1>4 DEF DeleteBatch, input, flush, StoredInv, Lines
<1>5. Producer \/ (\E w \in Workers : Worker(w)) \/ CloseResults \/ Terminated
        \/ UNCHANGED vars => UNCHANGED caller
  BY DEF Producer, ProducerRead, ProducerSend, ProducerAbort, Worker, WorkerTake,
         WorkerExit, WorkerSend, WorkerAbort, CloseResults, Terminated, vars
<1>6. UNCHANGED caller => UNCHANGED <<file, batch, table, fate>>
  BY DEF caller, input, flush, database
<1>7. QED
  BY <1>1, <1>2, <1>3, <1>4, <1>5, <1>6, ReceiveStored, InsertStored
     DEF Next, Caller, Environment

\* As long as nobody deletes transactions, every row of a succeeded import
\* that parsed is in the table (service.go:340-364).
THEOREM SucceededStored == Spec => []SucceededRowsStored
<1>1. Init => StoredInv
  BY DEF Init, StoredInv
<1>2. IInv /\ StoredInv /\ [Next]_vars => StoredInv'
  BY StoredStep
<1>3. IInv /\ StoredInv => SucceededRowsStored
  <2> SUFFICES ASSUME IInv, StoredInv, job.status = "succeeded", "delete" \notin Disturbances,
                      NEW l \in Lines, file[l] # BadRow
               PROVE  table[file[l]] # "nobody"
    BY DEF SucceededRowsStored
  <2>1. fate[l] \in {"pending", "failed", "inserted", "duplicate"}
    BY DEF IInv, TypeOK, DatabaseType
  <2>2. fate[l] # "pending"
    BY DEF IInv, SucceededIsComplete, LinesWith
  <2>3. QED
    BY <2>1, <2>2 DEF StoredInv
<1>4. QED
  BY <1>1, <1>2, <1>3, Inductive, PTL DEF Spec

-----------------------------------------------------------------------------
(* Which jobs stay "running".                                              *)

\* The row is created by the last step before the stream and finished by the
\* last step of the call; either fails only if the request died.
StatusInv ==
  Disturbances \cap {"job", "finish"} = {} =>
    /\ pc \in {"file", "job"} => job.status = "absent"
    /\ pc = "returned" => ctxDone \/ job.status # "running"

LEMMA StatusStep ==
  ASSUME IInv, StatusInv, [Next]_vars, Disturbances \cap {"job", "finish"} = {}
  PROVE  StatusInv'
<1> USE DEF StatusInv
<1>1. ctxDone \in BOOLEAN /\ job \in [status : {"absent", "running", "succeeded", "failed"},
                                      imported : Nat, failed : Nat, total : Nat]
  BY StreamFacts DEF IInv, TypeOK, DatabaseType
<1>2. CASE UNCHANGED <<pc, job>> /\ (ctxDone => ctxDone')
  BY <1>2
<1>3. CASE CreateUserFile
  <2>1. PICK applied \in BOOLEAN, ok \in BOOLEAN : Exec("file", applied, ok)
    BY <1>3 DEF CreateUserFile
  <2>2. QED
    BY <1>3 DEF CreateUserFile, FailEarly, database
<1>4. CASE CreateImportJob
  <2>1. PICK applied \in BOOLEAN, ok \in BOOLEAN :
          /\ Exec("job", applied, ok)
          /\ job' = IF applied THEN [job EXCEPT !.status = "running"] ELSE job
          /\ IF ok THEN pc' = "receive" ELSE pc' = "returned"
    BY <1>4 DEF CreateImportJob, StartStream, FailEarly
  <2>2. pc = "job"
    BY <1>4 DEF CreateImportJob
  <2>3. CASE ok
    BY <2>1, <2>3
  <2>4. CASE ~ok /\ ~applied
    BY <2>1, <2>2, <2>4
  <2>5. CASE ~ok /\ applied
    BY <2>1, <2>5 DEF Exec
  <2>6. QED
    BY <2>3, <2>4, <2>5
<1>5. CASE Receive \/ EndOfResults \/ InsertStatement \/ UpdateProgress
  <2>1. pc' \in {"receive", "insert", "progress", "finish"}
    BY <1>5 DEF Receive, Drain, CountParseError, AddToBatch, EndOfResults, AfterLoop,
            InsertStatement, StatementDone, StatementFailed, UpdateProgress
  <2>2. QED
    BY <2>1
<1>6. CASE FinishImport
  <2>1. PICK applied \in BOOLEAN, ok \in BOOLEAN :
          /\ Exec("finish", applied, ok)
          /\ applied => job'.status = FinalStatus
          /\ ~applied => job' = job
    BY <1>6 DEF FinishImport
  <2>2. pc' = "returned"
    BY <1>6 DEF FinishImport
  <2>3. CASE applied
    BY <2>1, <2>2, <2>3 DEF FinalStatus
  <2>4. CASE ~applied
    BY <2>1, <2>2, <2>4 DEF Exec
  <2>5. QED
    BY <2>3, <2>4
<1>7. CASE Environment
  <2>1. CASE CancelRequest
    BY <1>2, <2>1 DEF CancelRequest, control, database
  <2>2. CASE \E k \in Keys : OtherImport(k)
    BY <1>2, <2>2 DEF OtherImport, control, context
  <2>3. CASE \E owner \in {"job", "other"} : DeleteBatch(owner)
    BY <1>2, <2>3 DEF DeleteBatch, control, context
  <2>4. QED
    BY <1>7, <2>1, <2>2, <2>3 DEF Environment
<1>8. Producer \/ (\E w \in Workers : Worker(w)) \/ CloseResults \/ Terminated
        \/ UNCHANGED vars => UNCHANGED caller
  BY DEF Producer, ProducerRead, ProducerSend, ProducerAbort, Worker, WorkerTake,
         WorkerExit, WorkerSend, WorkerAbort, CloseResults, Terminated, vars
<1>9. UNCHANGED caller => UNCHANGED <<pc, job>> /\ (ctxDone => ctxDone')
  BY DEF caller, control, context, database
<1>10. QED
  BY <1>2, <1>3, <1>4, <1>5, <1>6, <1>7, <1>8, <1>9 DEF Next, Caller

\* The error handling leaves a job "running" only when the request context
\* died or the statement creating or finishing the job failed.
THEOREM StuckOnlyAfterCancel == Spec => []StuckRunningOnlyAfterCancel
<1>1. Init => StatusInv
  BY DEF Init, StatusInv
<1>2. IInv /\ StatusInv /\ [Next]_vars => StatusInv'
  BY StatusStep DEF StatusInv
<1>3. StatusInv => StuckRunningOnlyAfterCancel
  BY DEF StatusInv, StuckRunningOnlyAfterCancel
<1>4. QED
  BY <1>1, <1>2, <1>3, Inductive, PTL DEF Spec

-----------------------------------------------------------------------------
(* The job row as its readers see it: ImportPipeline implements ImportJob. *)

\* What the row says at each point of the caller. Its counters were written
\* from the caller's, which only grow.
RowInv ==
  /\ pc \in {"file", "job"} => job.status = "absent"
  /\ pc \in {"receive", "insert", "progress", "finish"} => job.status = "running"
  /\ job.imported <= rowsImported /\ job.failed <= rowsFailed

LEMMA RowFacts ==
  ASSUME IInv
  PROVE  /\ job \in [status : {"absent", "running", "succeeded", "failed"},
                     imported : Nat, failed : Nat, total : Nat]
         /\ job.imported \in Nat /\ job.failed \in Nat
         /\ rowsImported \in Nat /\ rowsFailed \in Nat /\ totalInserted \in Nat
<1>1. job \in [status : {"absent", "running", "succeeded", "failed"},
               imported : Nat, failed : Nat, total : Nat]
  BY DEF IInv, TypeOK, DatabaseType
<1>2. QED
  BY <1>1 DEF IInv, TypeOK, CallerType

\* Everyone but the caller leaves the row, the fates and the caller alone.
LEMMA OthersKeepRow ==
  ASSUME [Next]_vars, ~Caller
  PROVE  UNCHANGED <<file, noDataRows, job, fate, pc, rowsImported, rowsFailed>>
<1>1. CASE Environment
  <2>1. CASE CancelRequest
    BY <2>1 DEF CancelRequest, input, control, database, counters
  <2>2. CASE \E k \in Keys : OtherImport(k)
    BY <2>2 DEF OtherImport, input, control, counters
  <2>3. CASE \E owner \in {"job", "other"} : DeleteBatch(owner)
    BY <2>3 DEF DeleteBatch, input, control, counters
  <2>4. QED
    BY <1>1, <2>1, <2>2, <2>3 DEF Environment
<1>2. Producer \/ (\E w \in Workers : Worker(w)) \/ CloseResults \/ Terminated
        \/ UNCHANGED vars => UNCHANGED caller
  BY DEF Producer, ProducerRead, ProducerSend, ProducerAbort, Worker, WorkerTake,
         WorkerExit, WorkerSend, WorkerAbort, CloseResults, Terminated, vars
<1>3. UNCHANGED caller =>
        UNCHANGED <<file, noDataRows, job, fate, pc, rowsImported, rowsFailed>>
  BY DEF caller, input, control, database, counters
<1>4. QED
  BY <1>1, <1>2, <1>3 DEF Next

LEMMA RowStep ==
  ASSUME IInv, RowInv, [Next]_vars
  PROVE  RowInv'
<1> USE RowFacts DEF RowInv
<1>1. CASE ~Caller
  BY <1>1, OthersKeepRow
<1>2. CASE CreateUserFile
  <2>1. UNCHANGED <<job, rowsImported, rowsFailed>> /\ pc' \in {"job", "returned"} /\ pc = "file"
    BY <1>2 DEF CreateUserFile, FailEarly, database, counters
  <2>2. QED
    BY <2>1
<1>3. CASE CreateImportJob
  <2>1. PICK applied \in BOOLEAN, ok \in BOOLEAN :
          /\ Exec("job", applied, ok)
          /\ job' = IF applied THEN [job EXCEPT !.status = "running"] ELSE job
          /\ IF ok THEN pc' = "receive" /\ rowsFailed' = PreErrors
                   ELSE pc' = "returned" /\ rowsFailed' = rowsFailed
    BY <1>3 DEF CreateImportJob, StartStream, FailEarly
  <2>2. pc = "job" /\ rowsImported' = rowsImported
    BY <1>3 DEF CreateImportJob
  <2>3. job'.imported = job.imported /\ job'.failed = job.failed
        /\ (applied => job'.status = "running")
    BY <2>1
  <2>4. rowsFailed = 0 /\ (ok => applied)
    BY <2>1, <2>2 DEF IInv, CountsInv, Exec
  <2>5. QED
    BY <2>1, <2>2, <2>3, <2>4, PreErrorsNat
<1>4. CASE Receive
  <2>1. job' = job /\ rowsImported' = rowsImported /\ pc = "receive"
        /\ rowsFailed' \in {rowsFailed, rowsFailed + 1}
        /\ pc' \in {"receive", "insert", "progress"}
    BY <1>4 DEF Receive, Drain, CountParseError, AddToBatch
  <2>2. QED
    BY <2>1
<1>5. CASE EndOfResults
  <2>1. UNCHANGED <<job, rowsImported, rowsFailed>> /\ pc = "receive"
        /\ pc' \in {"insert", "progress", "finish"}
    BY <1>5 DEF EndOfResults, AfterLoop, database, counters
  <2>2. QED
    BY <2>1
<1>6. CASE InsertStatement
  <2>1. UNCHANGED <<job, rowsFailed>> /\ pc = "insert"
    BY <1>6 DEF InsertStatement
  <2>2. StatementDone \/ StatementFailed
    BY <1>6 DEF InsertStatement
  <2>3. pc' \in {"receive", "insert", "progress", "finish"}
        /\ rowsImported' \in {rowsImported, rowsImported + (totalInserted + RowsAffected)}
    BY <2>1, <2>2 DEF StatementDone, StatementFailed
  <2>4. RowsAffected \in Nat
    BY <2>1, StatementFacts
  <2>5. QED
    BY <2>1, <2>3, <2>4
<1>7. CASE UpdateProgress
  <2>1. UNCHANGED <<rowsImported, rowsFailed>> /\ pc = "progress" /\ pc' \in {"receive", "finish"}
    BY <1>7 DEF UpdateProgress
  <2>2. job' = job \/ job' = [job EXCEPT !.imported = rowsImported, !.failed = rowsFailed]
    BY <1>7 DEF UpdateProgress, RowsReported
  <2>3. job'.status = job.status /\ job'.imported \in {job.imported, rowsImported}
        /\ job'.failed \in {job.failed, rowsFailed}
    BY <2>2
  <2>4. QED
    BY <2>1, <2>3
<1>8. CASE FinishImport
  <2>1. UNCHANGED <<rowsImported, rowsFailed>> /\ pc' = "returned"
    BY <1>8 DEF FinishImport, counters
  <2>2. job'.imported \in {job.imported, rowsImported} /\ job'.failed \in {job.failed, rowsFailed}
    BY <1>8 DEF FinishImport
  <2>3. QED
    BY <2>1, <2>2
<1>9. QED
  BY <1>1, <1>2, <1>3, <1>4, <1>5, <1>6, <1>7, <1>8 DEF Caller

\* The contract's lines are the records, its sets of lines theirs.
LEMMA SameLines ==
  ASSUME file \in Files
  PROVE  Contract!Lines = Lines /\ \A x : Contract!Having(fate, x) = LinesWith(x)
BY FileFacts DEF Contract!Lines, Contract!Having, LinesWith

LEMMA SameCardinality == \A S : Contract!Cardinality(S) = Cardinality(S)
BY DEF Contract!Cardinality, Cardinality, Contract!IsFiniteSet, IsFiniteSet

\* A reader sees no step when the row and the fates stay.
LEMMA UnseenStep ==
  ASSUME UNCHANGED <<file, noDataRows, job, fate>>
  PROVE  UNCHANGED Contract!vars
BY DEF Contract!vars, PreErrors

LEMMA ContractStep ==
  ASSUME IInv, RowInv, [Next]_vars
  PROVE  [Contract!Next]_(Contract!vars)
<1> USE RowFacts, StreamFacts
<1>1. CASE ~Caller
  BY <1>1, OthersKeepRow, UnseenStep
<1>2. CASE CreateUserFile \/ EndOfResults
  BY <1>2, UnseenStep DEF CreateUserFile, EndOfResults, input, database
<1>3. CASE CreateImportJob
  <2>1. PICK applied \in BOOLEAN :
          job' = IF applied THEN [job EXCEPT !.status = "running"] ELSE job
    BY <1>3 DEF CreateImportJob
  <2>2. UNCHANGED <<file, noDataRows, fate>> /\ pc = "job"
    BY <1>3 DEF CreateImportJob, input
  <2>3. CASE applied
    <3>1. job.status = "absent" /\ job'.status = "running"
          /\ job'.imported = job.imported /\ job'.failed = job.failed
      BY <2>1, <2>2, <2>3 DEF RowInv
    <3>2. Contract!Create
      BY <2>2, <3>1 DEF Contract!Create, PreErrors
    <3>3. QED
      BY <3>2 DEF Contract!Next
  <2>4. CASE ~applied
    BY <2>1, <2>2, <2>4, UnseenStep
  <2>5. QED
    BY <2>3, <2>4
<1>4. ASSUME UNCHANGED <<file, noDataRows, job>>, job.status = "running",
             fate' \in [Lines -> {"pending", "failed", "inserted", "duplicate"}],
             \A l \in Lines : fate[l] # "pending" => fate'[l] = fate[l]
      PROVE  Contract!Settle
  BY <1>4, SameLines DEF Contract!Settle, Contract!Fates, PreErrors
<1>5. CASE Receive
  <2>1. UNCHANGED <<file, noDataRows, job>> /\ pc = "receive" /\ results # <<>>
    BY <1>5 DEF Receive, input
  <2>2. fate' = fate \/ fate' = [fate EXCEPT ![Head(results)] = "failed"]
    BY <1>5 DEF Receive, Drain, CountParseError, AddToBatch
  <2>3. fate \in [Lines -> {"pending", "failed", "inserted", "duplicate"}]
        /\ results \in Seq(Lines)
    BY DEF IInv, TypeOK, DatabaseType, StreamType
  <2>4. Head(results) \in Lines /\ fate[Head(results)] = "pending"
    <3>1. Head(results) = results[1] /\ 1 \in 1..Len(results)
      BY <2>1, <2>3
    <3>2. results[1] \in InResults
      BY <3>1 DEF InResults
    <3>3. QED
      BY <3>1, <3>2 DEF IInv, HandledOnce, LinesWith
  <2>5. fate' \in [Lines -> {"pending", "failed", "inserted", "duplicate"}]
        /\ \A l \in Lines : fate[l] # "pending" => fate'[l] = fate[l]
    BY <2>2, <2>3, <2>4
  <2>6. Contract!Settle
    BY <1>4, <2>1, <2>5 DEF RowInv
  <2>7. QED
    BY <2>6 DEF Contract!Next
<1>6. CASE InsertStatement
  <2>1. UNCHANGED <<file, noDataRows, job>> /\ pc = "insert"
    BY <1>6 DEF InsertStatement, input
  <2>2. ApplyInsert \/ fate' = fate
    BY <1>6 DEF InsertStatement
  <2>3. CASE ApplyInsert
    <3>1. fate' \in [Lines -> {"pending", "failed", "inserted", "duplicate"}]
      BY <2>1, <2>3, ApplyInsertFacts
    <3>2. \A l \in Lines : fate[l] # "pending" => fate'[l] = fate[l]
      BY <2>1, <2>3, StatementFacts DEF ApplyInsert, LinesWith
    <3>3. Contract!Settle
      BY <1>4, <2>1, <3>1, <3>2 DEF RowInv
    <3>4. QED
      BY <3>3 DEF Contract!Next
  <2>4. CASE fate' = fate
    BY <2>1, <2>4, UnseenStep
  <2>5. QED
    BY <2>2, <2>3, <2>4
<1>7. rowsImported <= Cardinality(LinesWith("inserted"))
      /\ rowsFailed <= Cardinality(LinesWith("failed")) + PreErrors
  <2>1. Cardinality(LinesWith("inserted")) \in Nat
    BY CardinalityFacts
  <2>2. QED
    BY <2>1 DEF IInv, CountsInv
<1>8. ASSUME job'.imported \in {job.imported, rowsImported}, job'.failed \in {job.failed, rowsFailed}
      PROVE  Contract!Report
  <2>1. job'.imported \in Nat /\ job.imported <= job'.imported
        /\ job'.failed \in Nat /\ job.failed <= job'.failed
    BY <1>8 DEF RowInv
  <2>2. job'.imported <= Cardinality(LinesWith("inserted"))
        /\ job'.failed <= Cardinality(LinesWith("failed")) + PreErrors
    BY <1>7, <1>8 DEF IInv, CountersNeverOverstate
  <2>3. Contract!Having(fate, "inserted") = LinesWith("inserted")
        /\ Contract!Having(fate, "failed") = LinesWith("failed")
    BY SameLines
  <2>4. QED
    BY <2>1, <2>2, <2>3, SameCardinality DEF Contract!Report
<1>9. CASE UpdateProgress
  <2>1. UNCHANGED <<file, noDataRows, fate>> /\ pc = "progress"
    BY <1>9 DEF UpdateProgress, input
  <2>2. job' = job \/ job' = [job EXCEPT !.imported = rowsImported, !.failed = rowsFailed]
    BY <1>9 DEF UpdateProgress, RowsReported
  <2>3. job'.status = job.status /\ job'.imported \in {job.imported, rowsImported}
        /\ job'.failed \in {job.failed, rowsFailed} /\ job.status = "running"
    BY <2>1, <2>2 DEF RowInv
  <2>4. Contract!Progress
    BY <1>8, <2>1, <2>3 DEF Contract!Progress, PreErrors
  <2>5. QED
    BY <2>4 DEF Contract!Next
<1>10. CASE FinishImport
  <2>1. PICK applied \in BOOLEAN, ok \in BOOLEAN :
          /\ Exec("finish", applied, ok)
          /\ job' = IF applied
                      THEN [status |-> FinalStatus, imported |-> rowsImported,
                            failed |-> rowsFailed, total |-> rowsImported + rowsFailed]
                      ELSE job
    BY <1>10 DEF FinishImport
  <2>2. UNCHANGED <<file, noDataRows, fate>> /\ pc = "finish" /\ job.status = "running"
    BY <1>10 DEF FinishImport, input, RowInv
  <2>3. CASE ~applied
    BY <2>1, <2>2, <2>3, UnseenStep
  <2>4. CASE applied
    <3>1. job'.status = FinalStatus /\ job'.imported = rowsImported /\ job'.failed = rowsFailed
      BY <2>1, <2>4
    <3>2. CASE insertErr
      <4>1. job'.status = "failed" /\ Contract!Report
        BY <1>8, <3>1, <3>2 DEF FinalStatus
      <4>2. Contract!Fail
        BY <2>2, <4>1 DEF Contract!Fail, PreErrors
      <4>3. QED
        BY <4>2 DEF Contract!Next
    <3>3. CASE ~insertErr
      <4>1. job'.status = "succeeded"
        BY <3>1, <3>3 DEF FinalStatus
      <4>2. LinesWith("pending") = {}
        BY <2>1, <2>2, <2>4, <3>3, AllSettled DEF Exec
      <4>3. rowsImported = Cardinality(LinesWith("inserted"))
            /\ rowsFailed = Cardinality(LinesWith("failed")) + PreErrors
        <5>1. totalInserted = 0
          BY <2>2, <3>3 DEF IInv, CallerInv
        <5>2. QED
          BY <2>2, <3>3, <5>1 DEF IInv, CountsInv
      <4>4. \A x \in {"pending", "inserted", "failed"} : Contract!Having(fate, x) = LinesWith(x)
        BY SameLines
      <4>5. PreErrors' = PreErrors
        BY <2>2 DEF PreErrors
      <4>6. Contract!Succeed
        BY <2>2, <3>1, <4>1, <4>2, <4>3, <4>4, <4>5, SameCardinality DEF Contract!Succeed
      <4>7. QED
        BY <4>6 DEF Contract!Next
    <3>4. QED
      BY <3>2, <3>3
  <2>5. QED
    BY <2>3, <2>4
<1>11. QED
  BY <1>1, <1>2, <1>3, <1>5, <1>6, <1>9, <1>10 DEF Caller

\* Whatever its goroutines do, an import gives the readers of its job row
\* what ImportJob promises: records get one fate each and only while it runs,
\* the counters grow and never overstate, and it is finished once, with
\* success only when every record has its fate and the counters are exact.
THEOREM ImplementsJob == Spec => JobContract
<1>1. Init => Contract!Init
  <2> SUFFICES ASSUME Init PROVE Contract!Init
    OBVIOUS
  <2>1. file \in Files
    BY DEF Init
  <2>2. Contract!Lines = Lines /\ Len(file) \in Nat
    BY <2>1, SameLines, FileFacts
  <2>3. job.status = "absent" /\ job.imported = 0 /\ job.failed = 0
    BY DEF Init
  <2>4. fate = [l \in Lines |-> "pending"]
    BY DEF Init
  <2>5. QED
    BY <2>2, <2>3, <2>4, PreErrorsNat DEF Contract!Init
<1>2. Init => RowInv
  BY DEF Init, RowInv
<1>3. IInv /\ RowInv /\ [Next]_vars => RowInv'
  BY RowStep
<1>4. IInv /\ RowInv /\ [Next]_vars => [Contract!Next]_(Contract!vars)
  BY ContractStep
<1>5. QED
  BY <1>1, <1>2, <1>3, <1>4, Inductive, PTL DEF Spec, JobContract, Contract!Spec

===============================================================================
