-------------------------- MODULE ImportExecution --------------------------
(***************************************************************************)
(* The background import of one batch of historical attendance: jobs that  *)
(* read a connector chunk by chunk, stage each chunk, and note after each  *)
(* how far they are, while users pause, resume, cancel, retry, validate    *)
(* and import the same batch by hand.                                      *)
(*                                                                         *)
(* A cursor is the number of chunks read; None, the null cursor, is both   *)
(* where a source begins and what its last chunk answers.  The statuses    *)
(* uploading, processing, validation and ready are one here, "open", and   *)
(* rolling_back is "rolled_back": no guard below tells them apart.  Bull,  *)
(* PostgreSQL and the source are external; the source does not change      *)
(* during the import, and every request starts without a cursor of its own.*)
(* Its chunks have records; a source that only knows its end from a short  *)
(* chunk is read once more, in vain, when its last chunk is full.          *)
(***************************************************************************)
EXTENDS Integers

CONSTANTS
  LastChunk,      \* the number of chunks in the source
  LastRead,       \* the number of reads it takes to find its end
  MaxExecutions,  \* bound: rows of historical_attendance_import_execution_jobs
  Clients,        \* requests handled at the same time
  MaxRequests,    \* bound: how many requests are made
  MaxChunks,      \* payload.maxChunks
  MaxDirect,      \* maxChunks of an import without a job
  MaxAttempts,    \* attempts of a job
  MaxStalls,      \* maxStalledCount of the queue
  Patches,        \* bound: the statuses a PATCH sets
  Faults,         \* what may go wrong: "error", "crash", "queue"
  MaxFaults       \* bound: how often

Statuses == {"draft", "open", "paused", "cancelled", "failed", "completed", "rolled_back"}

ASSUME ImportAssumption ==
  /\ LastChunk \in Nat \ {0} /\ LastRead \in {LastChunk, LastChunk + 1}
  /\ MaxAttempts \in Nat \ {0}
  /\ MaxChunks \in Nat \ {0} /\ MaxDirect \in Nat \ {0}
  /\ MaxExecutions \in Nat /\ MaxRequests \in Nat /\ MaxStalls \in Nat /\ MaxFaults \in Nat
  /\ Patches \subseteq Statuses /\ Faults \subseteq {"error", "crash", "queue"}

VARIABLES
  status,      \* historical_attendance_import_batches.status
  mark,        \* ... .statistics.connectorCursor
  checkpoint,  \* historical_attendance_import_progress.connector_cursor
  staged,      \* the chunks whose rows are in historical_attendance_import_staging_rows
  execution,   \* historical_attendance_import_execution_jobs
  importer,    \* the jobs, and the request that imports without one
  request,     \* what each request is doing
  requests,    \* how many requests were made
  faults       \* how often something went wrong

batchVars  == <<status, mark, checkpoint, staged>>
importVars == <<batchVars, execution, importer, request, requests, faults>>

None       == 0
Chunks     == 1..LastChunk
Cursors    == 0..(LastRead - 1)
Executions == 1..MaxExecutions
Direct     == 0
Importers  == {Direct} \cup Executions

Closed   == {"completed", "rolled_back", "cancelled"}
ExecutionRows ==
  [status : {"none", "queued", "running", "paused", "completed", "failed", "cancelled"},
   start : Cursors, cursor : Cursors]
InTry == {"check", "read", "stage", "persist", "report", "progress",
          "paused", "cancelled", "complete", "ready", "over"}
Jobs ==
  [step : InTry \cup {"none", "waiting", "fail", "failed", "ended", "dropped"},
   then : {"check", "paused", "complete"}, cursor : Cursors, chunk : 1..LastRead, count : Nat,
   tries : 0..(MaxAttempts - 1), stalls : 0..MaxStalls]
Requests ==
  [step : {"idle", "transition", "find", "insert", "open"}, to : Statuses,
   then : {"idle", "find"}, start : Cursors]

\* Without memory: a job, or a request, that has not begun, is over, or waits.
Job(step, tries, stalls) ==
  [step |-> step, then |-> "check", cursor |-> None, chunk |-> 1, count |-> 0,
   tries |-> tries, stalls |-> stalls]
Request(step) == [step |-> step, to |-> "draft", then |-> "idle", start |-> None]

ImportTypeOK ==
  /\ status \in Statuses
  /\ mark \in Cursors /\ checkpoint \in Cursors
  /\ staged \in SUBSET Chunks
  /\ execution \in [Executions -> ExecutionRows]
  /\ importer \in [Importers -> Jobs]
  /\ request \in [Clients -> Requests]
  /\ requests \in 0..MaxRequests /\ faults \in 0..MaxFaults

ImportInit ==
  /\ status = "draft" /\ mark = None /\ checkpoint = None /\ staged = {}
  /\ execution = [e \in Executions |-> [status |-> "none", start |-> None, cursor |-> None]]
  /\ importer = [i \in Importers |-> Job("none", 0, 0)]
  /\ request = [c \in Clients |-> Request("idle")]
  /\ requests = 0 /\ faults = 0

Fault(kind) == kind \in Faults /\ faults < MaxFaults /\ faults' = faults + 1

Goes(i, from, to) ==
  importer[i].step = from /\ importer' = [importer EXCEPT ![i].step = to]

Ends(e, from) ==
  importer[e].step = from /\ importer' = [importer EXCEPT ![e] = Job("ended", 0, 0)]

\* What is left of the attempt writes nothing that is modelled.
Returns(e, from) ==
  /\ importer[e].step = from
  /\ importer' = [importer EXCEPT ![e] = Job("over", importer[e].tries, importer[e].stalls)]

Marked(e, s) == [execution EXCEPT ![e].status = s]

-----------------------------------------------------------------------------
(* One chunk: importChunk.                                                  *)

\* Where the read begins: body.cursor ?? batch.statistics.connectorCursor.
From(i) == IF importer[i].cursor # None THEN importer[i].cursor ELSE mark

\* A read without records stages nothing.
ReadChunk(i) ==
  LET k == From(i) + 1 IN
  /\ importer[i].step = "read"
  /\ importer' = [importer EXCEPT
       ![i].step = IF k \in Chunks THEN "stage" ELSE "persist", ![i].chunk = k]
  /\ UNCHANGED <<batchVars, execution, request, requests, faults>>

\* Whether the batch may grow.
Admitted == status \notin Closed \cup {"paused"}

\* Mutant: a chunk that is refused is passed over.
StageOrSkip(i) ==
  /\ Goes(i, "stage", "persist")
  /\ staged' = IF Admitted THEN staged \cup {importer[i].chunk} ELSE staged
  /\ status' = IF status = "draft" THEN "open" ELSE status
  /\ UNCHANGED <<mark, checkpoint, execution, request, requests, faults>>

\* bulkStageConnectorRecords refuses a batch that must not grow; else it inserts
\* the rows in one transaction, those that are there already being left out (ON
\* CONFLICT DO NOTHING).  What happens between the two is as if it came after.
StageChunk(i) ==
  /\ Admitted
  /\ Goes(i, "stage", "persist")
  /\ staged' = staged \cup {importer[i].chunk}
  /\ status' = IF status = "draft" THEN "open" ELSE status
  /\ UNCHANGED <<mark, checkpoint, execution, request, requests, faults>>

\* A full read may be followed by another.
HasMore(k)    == k < LastRead
EveryCursor(k) == k                                      \* mutant
NextCursor(k) == IF HasMore(k) THEN k ELSE None

\* What a job does after its count-th chunk, or at the end of its loop.
AfterChunk(next, count) ==
  IF next = None THEN "complete" ELSE IF count < MaxChunks THEN "check" ELSE "paused"

\* persistConnectorProgress, and importChunk returns: a job reports; importAll
\* goes on until its source ends or its own limit is reached.
PersistChunk(i) ==
  LET k == importer[i].chunk
      next == NextCursor(k)
      count == importer[i].count + 1 IN
  /\ importer[i].step = "persist"
  /\ mark' = next
  /\ status' = IF HasMore(k) THEN "open" ELSE status
  /\ \/ /\ i \in Executions
        /\ importer' = [importer EXCEPT
             ![i].step = "report", ![i].then = AfterChunk(next, count),
             ![i].cursor = next, ![i].chunk = 1, ![i].count = count]
     \/ /\ i = Direct /\ next # None /\ count < MaxDirect
        /\ importer' = [importer EXCEPT
             ![i].step = "read", ![i].cursor = next, ![i].chunk = 1, ![i].count = count]
     \/ /\ i = Direct /\ (next = None \/ count >= MaxDirect)
        /\ importer' = [importer EXCEPT ![i] = Job("none", 0, 0)]
  /\ UNCHANGED <<checkpoint, staged, execution, request, requests, faults>>

ImportChunk(i) == ReadChunk(i) \/ StageChunk(i) \/ PersistChunk(i)

-----------------------------------------------------------------------------
(* A job: the processor's execute.                                          *)

\* markRunning; the loop begins at the cursor of the payload, at every attempt.
StartJob(e) ==
  /\ importer[e].step = "waiting"
  /\ execution' = Marked(e, "running")
  /\ importer' = [importer EXCEPT
       ![e].step = "check", ![e].cursor = execution[e].start, ![e].count = 0]
  /\ UNCHANGED <<batchVars, request, requests, faults>>

\* Mutant: a paused or cancelled batch only ends the loop.
CheckOrBreak(e) ==
  /\ importer[e].step = "check"
  /\ importer' = [importer EXCEPT ![e].step =
       IF status \notin {"paused", "cancelled"} THEN "read"
       ELSE IF importer[e].cursor = None THEN "complete" ELSE "paused"]
  /\ UNCHANGED <<batchVars, execution, request, requests, faults>>

\* getBatchStatus: a paused batch is reported as far as it got.
CheckStatus(e) ==
  /\ importer[e].step = "check"
  /\ importer' = [importer EXCEPT
       ![e].step = CASE status = "paused" -> "report"
                     [] status = "cancelled" -> "cancelled"
                     [] OTHER -> "read",
       ![e].then = IF status = "paused" THEN "paused" ELSE "check"]
  /\ UNCHANGED <<batchVars, execution, request, requests, faults>>

\* updateProgress: the execution's row, then the batch's progress.
ReportCursor(e) ==
  /\ Goes(e, "report", "progress")
  /\ execution' = [execution EXCEPT ![e].cursor = importer[e].cursor]
  /\ UNCHANGED <<batchVars, request, requests, faults>>

ReportProgress(e) ==
  /\ importer[e].step = "progress"
  /\ importer' = [importer EXCEPT ![e].step = importer[e].then, ![e].then = "check"]
  /\ checkpoint' = importer[e].cursor
  /\ UNCHANGED <<status, mark, staged, execution, request, requests, faults>>

\* interrupt, when the batch was found paused or cancelled, and at the limit: the
\* execution first.
Interrupt(e) ==
  /\ \/ Returns(e, "paused") /\ execution' = Marked(e, "paused")
     \/ Returns(e, "cancelled") /\ execution' = Marked(e, "cancelled")
  /\ UNCHANGED <<batchVars, request, requests, faults>>

\* complete: the execution, then the batch.
CompleteExecution(e) ==
  /\ Goes(e, "complete", "ready")
  /\ execution' = Marked(e, "completed")
  /\ UNCHANGED <<batchVars, request, requests, faults>>

CompleteBatch(e) ==
  /\ Returns(e, "ready")
  /\ status' = IF status \in {"cancelled", "paused"} THEN status ELSE "open"
  /\ UNCHANGED <<mark, checkpoint, staged, execution, request, requests, faults>>

\* Still inside the try: the message that goes with the progress (interrupt),
\* notifyCompletion and job.progress(100).
EndJob(e) ==
  /\ Ends(e, "over")
  /\ UNCHANGED <<batchVars, execution, request, requests, faults>>

LastAttempt(i) == importer[i].tries + 1 >= MaxAttempts

\* Mutant: the last attempt fails like the others.
ThrowUnrecorded(i) ==
  /\ importer[i].step \in InTry
  /\ (importer[i].step = "stage" /\ ~Admitted /\ UNCHANGED faults) \/ Fault("error")
  /\ importer' = [importer EXCEPT ![i] =
       IF i = Direct THEN Job("none", 0, 0)
       ELSE IF LastAttempt(i) THEN Job("ended", 0, 0)
       ELSE Job("waiting", importer[i].tries + 1, importer[i].stalls)]
  /\ UNCHANGED <<batchVars, execution, request, requests>>

\* An error inside the try: Bull tries the job again, even one whose execution is
\* completed already; the last attempt is recorded as failed, whatever became of
\* the batch since.  The manual import just answers the error.
Throw(i) ==
  /\ importer[i].step \in InTry
  /\ (importer[i].step = "stage" /\ ~Admitted /\ UNCHANGED faults) \/ Fault("error")
  /\ importer' = [importer EXCEPT ![i] =
       IF i = Direct THEN Job("none", 0, 0)
       ELSE IF LastAttempt(i) THEN [@ EXCEPT !.step = "fail"]
       ELSE Job("waiting", importer[i].tries + 1, importer[i].stalls)]
  /\ UNCHANGED <<batchVars, execution, request, requests>>

FailExecution(e) ==
  /\ Goes(e, "fail", "failed")
  /\ execution' = Marked(e, "failed")
  /\ UNCHANGED <<batchVars, request, requests, faults>>

FailBatch(e) ==
  /\ Ends(e, "failed")
  /\ status' = "failed"
  /\ UNCHANGED <<mark, checkpoint, staged, execution, request, requests, faults>>

\* An error of markRunning, before the try, or of fail, in its catch: after the
\* last attempt Bull drops the job, and no row says so unless fail came that far.
ThrowOutside(e) ==
  /\ Fault("error")
  /\ \/ /\ importer[e].step = "waiting"
        /\ importer' = [importer EXCEPT ![e] =
             IF LastAttempt(e) THEN Job("dropped", 0, 0)
             ELSE Job("waiting", importer[e].tries + 1, importer[e].stalls)]
     \/ importer[e].step = "fail" /\ importer' = [importer EXCEPT ![e] = Job("dropped", 0, 0)]
     \/ Ends(e, "failed")
  /\ UNCHANGED <<batchVars, execution, request, requests>>

\* The process dies: Bull hands a stalled job out again, MaxStalls times, and
\* then drops it.
Crash(e) ==
  /\ importer[e].step \in InTry \cup {"fail", "failed"}
  /\ Fault("crash")
  /\ importer' = [importer EXCEPT ![e] =
       IF importer[e].stalls >= MaxStalls THEN Job("dropped", 0, 0)
       ELSE Job("waiting", importer[e].tries, importer[e].stalls + 1)]
  /\ UNCHANGED <<batchVars, execution, request, requests>>

JobStep(e) ==
  \/ StartJob(e) \/ CheckStatus(e) \/ ImportChunk(e) \/ ReportCursor(e) \/ ReportProgress(e)
  \/ Interrupt(e) \/ CompleteExecution(e) \/ CompleteBatch(e) \/ EndJob(e)
  \/ FailExecution(e) \/ FailBatch(e) \/ Throw(e) \/ ThrowOutside(e) \/ Crash(e)

-----------------------------------------------------------------------------
(* The requests.                                                            *)

Begins == requests < MaxRequests /\ requests' = requests + 1

\* A request that reads the batch, decides, and writes the status later.
BeginTransition(c, from, to, then) ==
  /\ Begins /\ request[c].step = "idle" /\ status \in from
  /\ request' = [request EXCEPT ![c].step = "transition", ![c].to = to, ![c].then = then]
  /\ UNCHANGED <<batchVars, execution, importer, faults>>

\* A resumed batch goes back to its phase, or to processing.
Pause(c)  == BeginTransition(c, {"open"}, "paused", "idle")
Resume(c) == BeginTransition(c, {"paused"}, "open", "find")
Cancel(c) == BeginTransition(c, Statuses \ Closed, "cancelled", "idle")
Retry(c)  ==
  BeginTransition(c, {"failed", "cancelled", "paused"},
                  IF staged # {} THEN "open" ELSE "draft", "find")

Transition(c) ==
  /\ request[c].step = "transition"
  /\ status' = request[c].to
  /\ request' = [request EXCEPT ![c] = Request(request[c].then)]
  /\ UNCHANGED <<mark, checkpoint, staged, execution, importer, requests, faults>>

\* resumeLatestImport goes on where an execution that stopped was; which one was
\* updated last is left open.  Without one there is nothing to resume.
Stopped == {e \in Executions : execution[e].status \in {"paused", "failed", "cancelled"}}

ResumeCursor(e) ==
  IF checkpoint # None THEN checkpoint
  ELSE IF execution[e].cursor # None THEN execution[e].cursor ELSE execution[e].start

FindLatest(c) ==
  /\ request[c].step = "find"
  /\ \/ /\ Stopped = {}
        /\ request' = [request EXCEPT ![c] = Request("idle")]
     \/ \E e \in Stopped :
        request' = [request EXCEPT ![c].step = "insert", ![c].start = ResumeCursor(e)]
  /\ UNCHANGED <<batchVars, execution, importer, requests, faults>>

Enqueue(c) ==
  /\ Begins /\ request[c].step = "idle"
  /\ request' = [request EXCEPT ![c].step = "insert", ![c].start = None]
  /\ UNCHANGED <<batchVars, execution, importer, faults>>

\* enqueueImport: the guard, the row of the execution and its job, then the
\* batch.  Nothing reads a row that waits for its job, so the two are one step,
\* after which there may be no job: the queue refused it, or the process died.
InsertExecution(c) ==
  /\ request[c].step = "insert" /\ status \notin Closed
  /\ \E e \in Executions :
       /\ execution[e].status = "none"
       /\ \A d \in Executions : d < e => execution[d].status # "none"
       /\ execution' = [execution EXCEPT
            ![e] = [status |-> "queued", start |-> request[c].start, cursor |-> None]]
       /\ \/ /\ importer' = [importer EXCEPT ![e].step = "waiting"]
             /\ request' = [request EXCEPT ![c] = Request("open")]
             /\ UNCHANGED faults
          \/ /\ Fault("queue")
             /\ request' = [request EXCEPT ![c] = Request("idle")]
             /\ UNCHANGED importer
  /\ UNCHANGED <<batchVars, requests>>

RefuseExecution(c) ==
  /\ request[c].step = "insert" /\ status \in Closed
  /\ request' = [request EXCEPT ![c] = Request("idle")]
  /\ UNCHANGED <<batchVars, execution, importer, requests, faults>>

OpenBatch(c) ==
  /\ request[c].step = "open"
  /\ status' = "open"
  /\ request' = [request EXCEPT ![c] = Request("idle")]
  /\ UNCHANGED <<mark, checkpoint, staged, execution, importer, requests, faults>>

\* The process of a request dies.
Abandon(c) ==
  /\ request[c].step # "idle"
  /\ Fault("crash")
  /\ request' = [request EXCEPT ![c] = Request("idle")]
  /\ UNCHANGED <<batchVars, execution, importer, requests>>

\* PATCH batches/:id/status sets any status; reconciliation, commit and rollback
\* move the batch in ways this one covers.
SetStatus(s) ==
  /\ Begins
  /\ status' = s
  /\ UNCHANGED <<mark, checkpoint, staged, execution, importer, request, faults>>

\* Validation (like mapping and rows added by hand) replaces the statistics, and
\* with them the mark.
Validate ==
  /\ Begins
  /\ mark' = None
  /\ status' = IF status = "draft" THEN "open" ELSE status
  /\ UNCHANGED <<checkpoint, staged, execution, importer, request, faults>>

\* connectors/import and connectors/import-chunk.
ImportDirectly ==
  /\ Begins /\ importer[Direct].step = "none"
  /\ importer' = [importer EXCEPT ![Direct].step = "read", ![Direct].cursor = None]
  /\ UNCHANGED <<batchVars, execution, request, faults>>

RequestStep(c) ==
  \/ Pause(c) \/ Resume(c) \/ Cancel(c) \/ Retry(c) \/ Transition(c) \/ FindLatest(c)
  \/ Enqueue(c) \/ InsertExecution(c) \/ RefuseExecution(c) \/ OpenBatch(c) \/ Abandon(c)

ImportNext ==
  \/ \E e \in Executions : JobStep(e)
  \/ \E c \in Clients : RequestStep(c)
  \/ \E s \in Patches : SetStatus(s)
  \/ Validate \/ ImportDirectly \/ ImportChunk(Direct) \/ Throw(Direct)

ImportSpec == ImportInit /\ [][ImportNext]_importVars

-----------------------------------------------------------------------------
(* Properties.                                                              *)

\* "Resume to continue from the last checkpoint": wherever an import may go on
\* from (the mark, the checkpoint, the cursor or the payload of an execution, the
\* cursor of a job or of a resuming request), everything before it is staged.
StagedUpTo(n) == \A k \in Chunks : k <= n => k \in staged

CheckpointIsStaged ==
  /\ StagedUpTo(mark) /\ StagedUpTo(checkpoint)
  /\ \A e \in Executions : StagedUpTo(execution[e].start) /\ StagedUpTo(execution[e].cursor)
  /\ \A i \in Importers : StagedUpTo(importer[i].cursor)
  /\ \A c \in Clients : StagedUpTo(request[c].start)

\* "Background import completed; validate and reconcile before commit": an
\* execution recorded as completed leaves no chunk of the source behind, however
\* often the import was interrupted, resumed, tried again or done by two at once.
CompletedIsComplete ==
  \A e \in Executions : execution[e].status = "completed" => staged = Chunks

\* A job that Bull finished, as done or as failed for good, has an execution that
\* says how: no row stays queued or running behind it, however often the job was
\* tried again, even after it had completed.  Only a job that Bull dropped (it
\* stalled too often, or its own bookkeeping failed on the last attempt) leaves
\* such a row.
EndedIsRecorded ==
  \A e \in Executions : importer[e].step = "ended" =>
    execution[e].status \in {"paused", "completed", "failed", "cancelled"}
=============================================================================
