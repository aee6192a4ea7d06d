----------------------- MODULE ImportExecutionProofs -----------------------
(***************************************************************************)
(* Safety of ImportExecution, for any number of chunks, executions, direct *)
(* imports, requests and faults: its types, that nothing before a cursor   *)
(* is missing, that a completed execution left nothing out, and that a job *)
(* ends with its execution saying how.                                     *)
(***************************************************************************)
EXTENDS ImportExecution, TLAPS

\* The first n chunks are among those of S.
UpTo(n, S) == \A k \in Chunks : k <= n => k \in S

\* What a row, a job and a request may hold when the chunks of S are staged: a
\* job about to stage a chunk has those before it, one about to persist has that
\* chunk too, and one about to complete, now or after its report, has them all.
RowSafe(x, S) ==
  /\ x \in ExecutionRows
  /\ UpTo(x.start, S) /\ UpTo(x.cursor, S)
  /\ x.status = "completed" => S = Chunks
JobSafe(j, S) ==
  /\ j \in Jobs
  /\ UpTo(j.cursor, S)
  /\ j.step = "stage" => j.chunk \in Chunks /\ UpTo(j.chunk - 1, S)
  /\ j.step = "persist" => UpTo(j.chunk, S)
  /\ j.step = "complete" => S = Chunks
  /\ j.then = "complete" => S = Chunks
\* What the row of an execution says when its job is as far as its last writes.
Recorded(j, x) ==
  /\ j.step = "ready" => x.status = "completed"
  /\ j.step = "failed" => x.status = "failed"
  /\ j.step \in {"over", "ended"} => x.status \in {"paused", "completed", "failed", "cancelled"}
RequestSafe(r, S) == r \in Requests /\ UpTo(r.start, S)

BatchInv ==
  /\ status \in Statuses /\ staged \in SUBSET Chunks
  /\ mark \in Cursors /\ UpTo(mark, staged)
  /\ checkpoint \in Cursors /\ UpTo(checkpoint, staged)
RowsInv ==
  /\ execution = [e \in Executions |-> execution[e]]
  /\ \A e \in Executions : RowSafe(execution[e], staged)
JobsInv ==
  /\ importer = [i \in Importers |-> importer[i]]
  /\ \A i \in Importers : JobSafe(importer[i], staged)
RequestsInv ==
  /\ request = [c \in Clients |-> request[c]]
  /\ \A c \in Clients : RequestSafe(request[c], staged)
CountsInv == requests \in 0..MaxRequests /\ faults \in 0..MaxFaults

\* The inductive invariant of the cursors.
ImportInv == BatchInv /\ RowsInv /\ JobsInv /\ RequestsInv /\ CountsInv

\* The inductive invariant of the executions' ends, on top of it.
RecordedInv == \A e \in Executions : Recorded(importer[e], execution[e])
-----------------------------------------------------------------------------
(* Cursors.                                                                 *)

\* Nothing comes before the null cursor.
LEMMA NoneIsSafe ==
  ASSUME NEW S
  PROVE  None \in Cursors /\ UpTo(None, S)
BY ImportAssumption DEF None, Cursors, UpTo, Chunks

\* The read of the chunk after a cursor.
LEMMA ChunkAfter ==
  ASSUME NEW n \in Cursors
  PROVE  n + 1 \in 1..LastRead /\ (n + 1) - 1 = n
BY ImportAssumption DEF Cursors

\* A chunk staged after those before it.
LEMMA OneMore ==
  ASSUME NEW k \in Chunks, NEW S, UpTo(k - 1, S)
  PROVE  UpTo(k, S \cup {k})
BY ImportAssumption DEF Chunks, UpTo

\* The cursor that a chunk answers; the last one is the end.
LEMMA CursorAnswered ==
  ASSUME NEW k \in 1..LastRead, NEW S \in SUBSET Chunks, UpTo(k, S)
  PROVE  /\ NextCursor(k) \in Cursors
         /\ UpTo(NextCursor(k), S)
         /\ NextCursor(k) = None => S = Chunks
<1>1. CASE k < LastRead
  BY <1>1, ImportAssumption DEF NextCursor, HasMore, Cursors, Chunks, None
<1>2. CASE k >= LastRead
  <2>1. NextCursor(k) = None
    BY <1>2, ImportAssumption DEF NextCursor, HasMore
  <2>2. \A j \in Chunks : j <= k
    BY <1>2, ImportAssumption DEF Chunks
  <2>3. S = Chunks
    BY <2>2 DEF UpTo
  <2> QED BY <2>1, <2>3, NoneIsSafe
<1> QED BY <1>1, <1>2, ImportAssumption

\* What was safe stays safe when more is staged.
LEMMA SafeGrows ==
  ASSUME NEW S, NEW T \in SUBSET Chunks, S \subseteq T
  PROVE  /\ \A n : UpTo(n, S) => UpTo(n, T)
         /\ \A x : RowSafe(x, S) => RowSafe(x, T)
         /\ \A j : JobSafe(j, S) => JobSafe(j, T)
         /\ \A r : RequestSafe(r, S) => RequestSafe(r, T)
<1>1. \A n : UpTo(n, S) => UpTo(n, T)
  BY DEF UpTo
<1>2. S = Chunks => T = Chunks
  OBVIOUS
<1> QED BY <1>1, <1>2 DEF RowSafe, JobSafe, RequestSafe
-----------------------------------------------------------------------------
(* What an assignment to one row leaves of a table.                         *)

LEMMA RowSet ==
  ASSUME RowsInv, NEW e \in Executions, NEW x, RowSafe(x, staged),
         execution' = [execution EXCEPT ![e] = x], UNCHANGED staged
  PROVE  RowsInv'
BY DEF RowsInv

LEMMA JobSet ==
  ASSUME JobsInv, NEW i \in Importers, NEW j, JobSafe(j, staged),
         importer' = [importer EXCEPT ![i] = j], UNCHANGED staged
  PROVE  JobsInv'
BY DEF JobsInv

LEMMA RequestSet ==
  ASSUME RequestsInv, NEW c \in Clients, NEW r, RequestSafe(r, staged),
         request' = [request EXCEPT ![c] = r], UNCHANGED staged
  PROVE  RequestsInv'
BY DEF RequestsInv

\* What a step that does not touch it leaves of each part.
LEMMA Kept ==
  ASSUME ImportInv
  PROVE  /\ UNCHANGED batchVars => BatchInv'
         /\ UNCHANGED <<staged, execution>> => RowsInv'
         /\ UNCHANGED <<staged, importer>> => JobsInv'
         /\ UNCHANGED <<staged, request>> => RequestsInv'
         /\ UNCHANGED <<requests, faults>> => CountsInv'
BY DEF ImportInv, BatchInv, RowsInv, JobsInv, RequestsInv, CountsInv, batchVars

\* The batch's status may be any.
LEMMA StatusSet ==
  ASSUME BatchInv, status' \in Statuses, UNCHANGED <<mark, checkpoint, staged>>
  PROVE  BatchInv'
BY DEF BatchInv

\* The counters.
LEMMA Counted ==
  ASSUME CountsInv
  PROVE  /\ \A kind : Fault(kind) /\ UNCHANGED requests => CountsInv'
         /\ Begins /\ UNCHANGED faults => CountsInv'
BY ImportAssumption DEF CountsInv, Fault, Begins

\* A job without memory is safe at a step that needs none; so is a request.
LEMMA IdleIsSafe ==
  ASSUME NEW S
  PROVE  /\ \A step \in {"none", "waiting", "ended", "dropped", "over"}, t \in 0..(MaxAttempts - 1), n \in 0..MaxStalls :
              JobSafe(Job(step, t, n), S)
         /\ \A step \in {"none", "ended", "dropped"} : JobSafe(Job(step, 0, 0), S)
         /\ \A step \in {"idle", "find", "open"} : RequestSafe(Request(step), S)
<1>1. 1 \in 1..LastRead /\ 0 \in Nat /\ 0 \in 0..(MaxAttempts - 1) /\ 0 \in 0..MaxStalls
  BY ImportAssumption
<1>2. "draft" \in Statuses
  BY DEF Statuses
<1>3. ASSUME NEW step \in {"none", "waiting", "ended", "dropped", "over"}, NEW t \in 0..(MaxAttempts - 1),
             NEW n \in 0..MaxStalls
      PROVE  JobSafe(Job(step, t, n), S)
  BY <1>1, NoneIsSafe DEF JobSafe, Job, Jobs, InTry
<1>4. ASSUME NEW step \in {"idle", "find", "open"}
      PROVE  RequestSafe(Request(step), S)
  BY <1>2, NoneIsSafe DEF RequestSafe, Request, Requests
<1> QED BY <1>1, <1>3, <1>4

\* A job that moves on with what it has.
LEMMA Moved ==
  ASSUME NEW j \in Jobs, NEW S, JobSafe(j, S),
         NEW step \in {"check", "read", "report", "progress", "paused", "cancelled", "ready",
                       "fail", "failed", "waiting"}
  PROVE  JobSafe([j EXCEPT !.step = step], S)
BY DEF JobSafe, Jobs, InTry
-----------------------------------------------------------------------------
(* One chunk.                                                               *)

LEMMA StepReadChunk ==
  ASSUME ImportInv, NEW i \in Importers, ReadChunk(i)
  PROVE  ImportInv'
<1> DEFINE j == importer[i]
           k == From(i) + 1
           r == [j EXCEPT !.step = IF k \in Chunks THEN "stage" ELSE "persist", !.chunk = k]
<1>1. j \in Jobs /\ JobSafe(j, staged) /\ mark \in Cursors /\ UpTo(mark, staged)
  BY DEF ImportInv, JobsInv, BatchInv, JobSafe
<1>2. From(i) \in Cursors /\ UpTo(From(i), staged)
  BY <1>1 DEF From, JobSafe, Jobs
<1>3. k \in 1..LastRead /\ k - 1 = From(i)
  BY <1>2, ChunkAfter
<1>4. k \notin Chunks => UpTo(k, staged)
  BY <1>2, <1>3, ImportAssumption DEF UpTo, Chunks, Cursors
<1>5. JobSafe(r, staged)
  <2> HIDE DEF k
  <2>1. CASE k \in Chunks
    BY <2>1, <1>1, <1>2, <1>3 DEF JobSafe, Jobs, InTry
  <2>2. CASE k \notin Chunks
    BY <2>2, <1>1, <1>3, <1>4 DEF JobSafe, Jobs, InTry
  <2> QED BY <2>1, <2>2
<1>6. importer' = [importer EXCEPT ![i] = r]
  BY DEF ReadChunk
<1>7. JobsInv'
  BY <1>5, <1>6, JobSet DEF ImportInv, ReadChunk, batchVars
<1> QED BY <1>7, Kept DEF ImportInv, ReadChunk, batchVars

LEMMA StepStageChunk ==
  ASSUME ImportInv, NEW i \in Importers, StageChunk(i)
  PROVE  ImportInv'
<1> DEFINE j == importer[i]
           r == [j EXCEPT !.step = "persist"]
<1>1. j \in Jobs /\ JobSafe(j, staged) /\ j.step = "stage"
  BY DEF ImportInv, JobsInv, JobSafe, StageChunk, Goes
<1>2. j.chunk \in Chunks /\ staged' = staged \cup {j.chunk} /\ staged \subseteq staged'
      /\ staged' \in SUBSET Chunks
  BY <1>1 DEF StageChunk, JobSafe, ImportInv, BatchInv
<1>3. UpTo(j.chunk, staged')
  BY <1>1, <1>2, OneMore DEF JobSafe
<1>4. JobSafe(j, staged')
  BY <1>1, <1>2, SafeGrows
<1>5. JobSafe(r, staged')
  BY <1>1, <1>3, <1>4 DEF JobSafe, Jobs, InTry
<1>6. BatchInv'
  <2>1. status' \in Statuses
    BY DEF ImportInv, BatchInv, StageChunk, Statuses
  <2>2. UpTo(mark, staged') /\ UpTo(checkpoint, staged')
    BY <1>2, SafeGrows DEF ImportInv, BatchInv
  <2> QED BY <1>2, <2>1, <2>2 DEF ImportInv, BatchInv, StageChunk
<1>7. RowsInv'
  BY <1>2, SafeGrows DEF ImportInv, RowsInv, StageChunk
<1>8. JobsInv'
  <2>1. importer' = [importer EXCEPT ![i] = r]
    BY DEF StageChunk, Goes
  <2>2. \A h \in Importers : JobSafe(importer[h], staged')
    BY <1>2, SafeGrows DEF ImportInv, JobsInv
  <2> QED BY <1>5, <2>1, <2>2 DEF ImportInv, JobsInv
<1>9. RequestsInv'
  BY <1>2, SafeGrows DEF ImportInv, RequestsInv, StageChunk
<1> QED BY <1>6, <1>7, <1>8, <1>9, Kept DEF ImportInv, StageChunk

LEMMA StepPersistChunk ==
  ASSUME ImportInv, NEW i \in Importers, PersistChunk(i)
  PROVE  ImportInv'
<1> DEFINE j == importer[i]
           next == NextCursor(j.chunk)
           count == j.count + 1
           then == AfterChunk(next, count)
<1>1. j \in Jobs /\ JobSafe(j, staged) /\ j.step = "persist" /\ j.chunk \in 1..LastRead
  BY DEF ImportInv, JobsInv, JobSafe, PersistChunk, Jobs
<1>2. staged \in SUBSET Chunks /\ UpTo(j.chunk, staged)
  BY <1>1 DEF ImportInv, BatchInv, JobSafe
<1>3. next \in Cursors /\ UpTo(next, staged) /\ (next = None => staged = Chunks)
  BY <1>1, <1>2, CursorAnswered
<1>4. count \in Nat /\ 1 \in 1..LastRead
  BY <1>1, ImportAssumption DEF Jobs
<1>5. then \in {"check", "paused", "complete"} /\ (then = "complete" => staged = Chunks)
  BY <1>3 DEF AfterChunk
<1>6. BatchInv'
  <2>1. status' \in Statuses
    BY DEF ImportInv, BatchInv, PersistChunk, Statuses
  <2> QED BY <1>3, <2>1 DEF ImportInv, BatchInv, PersistChunk
<1>7. JobsInv'
  <2> HIDE DEF next, count, then
  <2>1. JobSafe([j EXCEPT !.step = "report", !.then = then, !.cursor = next, !.chunk = 1,
                          !.count = count], staged)
    BY <1>1, <1>3, <1>4, <1>5 DEF JobSafe, Jobs, InTry
  <2>2. JobSafe([j EXCEPT !.step = "read", !.cursor = next, !.chunk = 1, !.count = count], staged)
    BY <1>1, <1>3, <1>4 DEF JobSafe, Jobs, InTry
  <2>3. JobSafe(Job("none", 0, 0), staged)
    BY IdleIsSafe
  <2>4. \/ importer' = [importer EXCEPT ![i] =
               [j EXCEPT !.step = "report", !.then = then, !.cursor = next, !.chunk = 1,
                         !.count = count]]
        \/ importer' = [importer EXCEPT ![i] =
               [j EXCEPT !.step = "read", !.cursor = next, !.chunk = 1, !.count = count]]
        \/ importer' = [importer EXCEPT ![i] = Job("none", 0, 0)]
    BY DEF PersistChunk, next, count, then
  <2>5. JobsInv /\ UNCHANGED staged
    BY DEF ImportInv, PersistChunk
  <2> QED BY <2>1, <2>2, <2>3, <2>4, <2>5, JobSet
<1> QED BY <1>6, <1>7, Kept DEF ImportInv, PersistChunk
-----------------------------------------------------------------------------
(* A job.                                                                   *)

\* It goes on with what it has, or is over.
LEMMA GoesOn ==
  ASSUME ImportInv, NEW i \in Importers, NEW from,
         NEW step \in {"check", "read", "report", "progress", "paused", "cancelled", "ready",
                       "fail", "failed", "waiting"},
         Goes(i, from, step), UNCHANGED staged
  PROVE  JobsInv'
<1>1. importer[i] \in Jobs /\ JobSafe(importer[i], staged)
  BY DEF ImportInv, JobsInv, JobSafe
<1>2. JobSafe([importer[i] EXCEPT !.step = step], staged)
  BY <1>1, Moved
<1>3. importer' = [importer EXCEPT ![i] = [importer[i] EXCEPT !.step = step]]
  BY DEF Goes
<1> QED BY <1>2, <1>3, JobSet DEF ImportInv

LEMMA EndsJob ==
  ASSUME ImportInv, NEW i \in Importers, NEW from, Ends(i, from), UNCHANGED staged
  PROVE  JobsInv'
BY IdleIsSafe, JobSet DEF ImportInv, Ends

LEMMA ReturnsJob ==
  ASSUME ImportInv, NEW i \in Importers, NEW from, Returns(i, from), UNCHANGED staged
  PROVE  JobsInv'
<1>1. importer[i] \in Jobs
  BY DEF ImportInv, JobsInv, JobSafe
<1>2. JobSafe(Job("over", importer[i].tries, importer[i].stalls), staged)
  BY <1>1, IdleIsSafe DEF Jobs
<1> QED BY <1>2, JobSet DEF ImportInv, Returns

\* A row gets another status; completed, when all is staged.
LEMMA RowMarked ==
  ASSUME ImportInv, NEW e \in Executions,
         NEW s \in {"queued", "running", "paused", "completed", "failed", "cancelled"},
         s = "completed" => staged = Chunks,
         execution' = Marked(e, s), UNCHANGED staged
  PROVE  RowsInv'
<1> DEFINE x == [execution[e] EXCEPT !.status = s]
<1>1. execution[e] \in ExecutionRows /\ RowSafe(execution[e], staged)
  BY DEF ImportInv, RowsInv, RowSafe
<1>2. RowSafe(x, staged)
  BY <1>1 DEF RowSafe, ExecutionRows
<1>3. execution' = [execution EXCEPT ![e] = x]
  BY DEF Marked
<1> QED BY <1>2, <1>3, RowSet DEF ImportInv

LEMMA ExecutionsImport == \A e \in Executions : e \in Importers /\ e # Direct
BY ImportAssumption DEF Executions, Importers, Direct

LEMMA StepStartJob ==
  ASSUME ImportInv, NEW e \in Executions, StartJob(e)
  PROVE  ImportInv'
<1> DEFINE r == [importer[e] EXCEPT !.step = "check", !.cursor = execution[e].start, !.count = 0]
<1>1. e \in Importers /\ importer[e] \in Jobs /\ JobSafe(importer[e], staged)
  BY ExecutionsImport DEF ImportInv, JobsInv, JobSafe
<1>2. execution[e].start \in Cursors /\ UpTo(execution[e].start, staged)
  BY DEF ImportInv, RowsInv, RowSafe, ExecutionRows
<1>3. JobSafe(r, staged)
  BY <1>1, <1>2 DEF JobSafe, Jobs, InTry
<1>4. importer' = [importer EXCEPT ![e] = r] /\ UNCHANGED staged
  BY DEF StartJob, batchVars
<1>5. JobsInv'
  BY <1>1, <1>3, <1>4, JobSet DEF ImportInv
<1>6. RowsInv'
  BY <1>4, RowMarked DEF StartJob
<1> QED BY <1>5, <1>6, Kept DEF ImportInv, StartJob, batchVars

LEMMA StepCheckStatus ==
  ASSUME ImportInv, NEW e \in Executions, CheckStatus(e)
  PROVE  ImportInv'
<1> DEFINE to == CASE status = "paused" -> "report"
                   [] status = "cancelled" -> "cancelled"
                   [] OTHER -> "read"
           then == IF status = "paused" THEN "paused" ELSE "check"
           r == [importer[e] EXCEPT !.step = to, !.then = then]
<1>1. e \in Importers /\ importer[e] \in Jobs /\ JobSafe(importer[e], staged)
  BY ExecutionsImport DEF ImportInv, JobsInv, JobSafe
<1>2. to \in {"report", "cancelled", "read"} /\ then \in {"paused", "check"}
  OBVIOUS
<1>3. JobSafe(r, staged)
  <2> HIDE DEF to, then
  <2> QED BY <1>1, <1>2 DEF JobSafe, Jobs, InTry
<1>4. importer' = [importer EXCEPT ![e] = r] /\ UNCHANGED staged
  BY DEF CheckStatus, batchVars
<1>5. JobsInv'
  BY <1>1, <1>3, <1>4, JobSet DEF ImportInv
<1> QED BY <1>5, Kept DEF ImportInv, CheckStatus, batchVars

LEMMA StepReportCursor ==
  ASSUME ImportInv, NEW e \in Executions, ReportCursor(e)
  PROVE  ImportInv'
<1> DEFINE x == [execution[e] EXCEPT !.cursor = importer[e].cursor]
<1>1. e \in Importers /\ importer[e].cursor \in Cursors /\ UpTo(importer[e].cursor, staged)
  BY ExecutionsImport DEF ImportInv, JobsInv, JobSafe, Jobs
<1>2. execution[e] \in ExecutionRows /\ RowSafe(execution[e], staged)
  BY DEF ImportInv, RowsInv, RowSafe
<1>3. RowSafe(x, staged)
  BY <1>1, <1>2 DEF RowSafe, ExecutionRows
<1>4. RowsInv'
  BY <1>3, RowSet DEF ImportInv, ReportCursor, batchVars
<1>5. JobsInv'
  BY <1>1, GoesOn DEF ReportCursor, batchVars
<1> QED BY <1>4, <1>5, Kept DEF ImportInv, ReportCursor, batchVars

LEMMA StepReportProgress ==
  ASSUME ImportInv, NEW e \in Executions, ReportProgress(e)
  PROVE  ImportInv'
<1> DEFINE r == [importer[e] EXCEPT !.step = importer[e].then, !.then = "check"]
<1>1. e \in Importers /\ importer[e] \in Jobs /\ JobSafe(importer[e], staged)
  BY ExecutionsImport DEF ImportInv, JobsInv, JobSafe
<1>2. importer[e].cursor \in Cursors /\ UpTo(importer[e].cursor, staged)
      /\ importer[e].then \in {"check", "paused", "complete"}
  BY <1>1 DEF JobSafe, Jobs
<1>3. JobSafe(r, staged)
  BY <1>1, <1>2 DEF JobSafe, Jobs, InTry
<1>4. importer' = [importer EXCEPT ![e] = r] /\ UNCHANGED staged
  BY DEF ReportProgress
<1>5. JobsInv'
  BY <1>1, <1>3, <1>4, JobSet DEF ImportInv
<1>6. BatchInv'
  BY <1>2 DEF ImportInv, BatchInv, ReportProgress
<1> QED BY <1>5, <1>6, Kept DEF ImportInv, ReportProgress

LEMMA StepInterrupt ==
  ASSUME ImportInv, NEW e \in Executions, Interrupt(e)
  PROVE  ImportInv'
<1>1. UNCHANGED staged
  BY DEF Interrupt, batchVars
<1>2. RowsInv'
  BY <1>1, RowMarked DEF Interrupt
<1>3. JobsInv'
  BY <1>1, ExecutionsImport, ReturnsJob DEF Interrupt
<1> QED BY <1>2, <1>3, Kept DEF ImportInv, Interrupt, batchVars

LEMMA StepComplete ==
  ASSUME ImportInv, NEW e \in Executions, CompleteExecution(e) \/ CompleteBatch(e)
  PROVE  ImportInv'
<1>1. CASE CompleteExecution(e)
  <2>1. UNCHANGED staged /\ staged = Chunks
    BY <1>1, ExecutionsImport
    DEF ImportInv, JobsInv, JobSafe, CompleteExecution, Goes, batchVars
  <2>2. RowsInv'
    BY <1>1, <2>1, RowMarked DEF CompleteExecution
  <2>3. JobsInv'
    BY <1>1, <2>1, ExecutionsImport, GoesOn DEF CompleteExecution
  <2> QED BY <1>1, <2>2, <2>3, Kept DEF ImportInv, CompleteExecution, batchVars
<1>2. CASE CompleteBatch(e)
  <2>1. status' \in Statuses
    BY <1>2 DEF ImportInv, BatchInv, CompleteBatch, Statuses
  <2>2. BatchInv'
    BY <1>2, <2>1, StatusSet DEF ImportInv, CompleteBatch
  <2>3. JobsInv'
    BY <1>2, ExecutionsImport, ReturnsJob DEF CompleteBatch
  <2> QED BY <1>2, <2>2, <2>3, Kept DEF ImportInv, CompleteBatch
<1> QED BY <1>1, <1>2

LEMMA StepEndJob ==
  ASSUME ImportInv, NEW e \in Executions, EndJob(e)
  PROVE  ImportInv'
<1>1. JobsInv'
  BY ExecutionsImport, EndsJob DEF EndJob, batchVars
<1> QED BY <1>1, Kept DEF ImportInv, EndJob, batchVars

LEMMA StepThrow ==
  ASSUME ImportInv, NEW i \in Importers, Throw(i)
  PROVE  ImportInv'
<1> DEFINE j == importer[i]
<1>1. j \in Jobs /\ JobSafe(j, staged)
  BY DEF ImportInv, JobsInv, JobSafe
<1>2. UNCHANGED staged
  BY DEF Throw, batchVars
<1>3. JobSafe([j EXCEPT !.step = "fail"], staged)
  BY <1>1, Moved
<1>4. ASSUME ~LastAttempt(i)
      PROVE  JobSafe(Job("waiting", j.tries + 1, j.stalls), staged)
  <2>1. j.tries + 1 \in 0..(MaxAttempts - 1) /\ j.stalls \in 0..MaxStalls
    BY <1>1, <1>4, ImportAssumption DEF LastAttempt, Jobs
  <2> QED BY <2>1, IdleIsSafe
<1>5. JobsInv'
  <2>1. CASE i = Direct
    BY <1>2, <2>1, IdleIsSafe, JobSet DEF ImportInv, Throw
  <2>2. CASE i # Direct /\ LastAttempt(i)
    BY <1>2, <1>3, <2>2, JobSet DEF ImportInv, Throw
  <2>3. CASE i # Direct /\ ~LastAttempt(i)
    BY <1>2, <1>4, <2>3, JobSet DEF ImportInv, Throw
  <2> QED BY <2>1, <2>2, <2>3
<1>6. CountsInv'
  BY Counted DEF ImportInv, CountsInv, Throw
<1> QED BY <1>5, <1>6, Kept DEF ImportInv, Throw, batchVars

LEMMA StepThrowOutside ==
  ASSUME ImportInv, NEW e \in Executions, ThrowOutside(e)
  PROVE  ImportInv'
<1> DEFINE j == importer[e]
<1>1. e \in Importers /\ j \in Jobs /\ UNCHANGED staged
  BY ExecutionsImport DEF ImportInv, JobsInv, JobSafe, ThrowOutside, batchVars
<1>2. JobSafe(Job("dropped", 0, 0), staged)
  BY IdleIsSafe
<1>3. ASSUME ~LastAttempt(e)
      PROVE  JobSafe(Job("waiting", j.tries + 1, j.stalls), staged)
  <2>1. j.tries + 1 \in 0..(MaxAttempts - 1) /\ j.stalls \in 0..MaxStalls
    BY <1>1, <1>3, ImportAssumption DEF LastAttempt, Jobs
  <2> QED BY <2>1, IdleIsSafe
<1>4. JobsInv'
  <2>1. CASE importer' = [importer EXCEPT ![e] = Job("dropped", 0, 0)]
    BY <1>1, <1>2, <2>1, JobSet DEF ImportInv
  <2>2. CASE /\ ~LastAttempt(e)
             /\ importer' = [importer EXCEPT ![e] = Job("waiting", j.tries + 1, j.stalls)]
    BY <1>1, <1>3, <2>2, JobSet DEF ImportInv
  <2>3. CASE Ends(e, "failed")
    BY <1>1, <2>3, EndsJob
  <2> QED BY <2>1, <2>2, <2>3 DEF ThrowOutside
<1>5. CountsInv'
  BY Counted DEF ImportInv, ThrowOutside
<1> QED BY <1>4, <1>5, Kept DEF ImportInv, ThrowOutside, batchVars

LEMMA StepFail ==
  ASSUME ImportInv, NEW e \in Executions, FailExecution(e) \/ FailBatch(e)
  PROVE  ImportInv'
<1>1. CASE FailExecution(e)
  <2>1. UNCHANGED staged
    BY <1>1 DEF FailExecution, batchVars
  <2>2. RowsInv'
    BY <1>1, <2>1, RowMarked DEF FailExecution
  <2>3. JobsInv'
    BY <1>1, <2>1, ExecutionsImport, GoesOn DEF FailExecution
  <2> QED BY <1>1, <2>2, <2>3, Kept DEF ImportInv, FailExecution, batchVars
<1>2. CASE FailBatch(e)
  <2>1. BatchInv'
    BY <1>2, StatusSet DEF ImportInv, FailBatch, Statuses
  <2>2. JobsInv'
    BY <1>2, ExecutionsImport, EndsJob DEF FailBatch
  <2> QED BY <1>2, <2>1, <2>2, Kept DEF ImportInv, FailBatch
<1> QED BY <1>1, <1>2

LEMMA StepCrash ==
  ASSUME ImportInv, NEW e \in Executions, Crash(e)
  PROVE  ImportInv'
<1> DEFINE j == importer[e]
<1>1. e \in Importers /\ j \in Jobs /\ UNCHANGED staged
  BY ExecutionsImport DEF ImportInv, JobsInv, JobSafe, Crash, batchVars
<1>2. CASE j.stalls >= MaxStalls
  <2>1. JobSafe(Job("dropped", 0, 0), staged)
    BY IdleIsSafe
  <2> QED BY <1>1, <1>2, <2>1, JobSet, Kept, Counted DEF ImportInv, Crash, batchVars
<1>3. CASE ~(j.stalls >= MaxStalls)
  <2>1. j.tries \in 0..(MaxAttempts - 1) /\ j.stalls + 1 \in 0..MaxStalls
    BY <1>1, <1>3, ImportAssumption DEF Jobs
  <2>2. JobSafe(Job("waiting", j.tries, j.stalls + 1), staged)
    BY <2>1, IdleIsSafe
  <2> QED BY <1>1, <1>3, <2>2, JobSet, Kept, Counted DEF ImportInv, Crash, batchVars
<1> QED BY <1>2, <1>3

LEMMA StepJob ==
  ASSUME ImportInv, NEW e \in Executions, JobStep(e)
  PROVE  ImportInv'
<1>1. e \in Importers
  BY ExecutionsImport
<1> QED
  BY <1>1, StepStartJob, StepCheckStatus, StepReadChunk, StepStageChunk, StepPersistChunk,
     StepReportCursor, StepReportProgress, StepInterrupt, StepComplete, StepEndJob, StepFail,
     StepThrow, StepThrowOutside, StepCrash DEF JobStep, ImportChunk
-----------------------------------------------------------------------------
(* The requests.                                                            *)

LEMMA StepBegin ==
  ASSUME ImportInv, NEW c \in Clients,
         Pause(c) \/ Resume(c) \/ Cancel(c) \/ Retry(c) \/ Enqueue(c)
  PROVE  ImportInv'
<1>1. request[c] \in Requests /\ RequestSafe(request[c], staged)
  BY DEF ImportInv, RequestsInv, RequestSafe
<1>2. ASSUME NEW from, NEW to \in Statuses, NEW then \in {"idle", "find"},
             BeginTransition(c, from, to, then)
      PROVE  ImportInv'
  <2> DEFINE r == [request[c] EXCEPT !.step = "transition", !.to = to, !.then = then]
  <2>1. RequestSafe(r, staged)
    BY <1>1 DEF RequestSafe, Requests
  <2>2. request' = [request EXCEPT ![c] = r] /\ UNCHANGED staged
    BY <1>2 DEF BeginTransition, batchVars
  <2>3. RequestsInv'
    BY <2>1, <2>2, RequestSet DEF ImportInv
  <2> QED BY <1>2, <2>3, Kept, Counted DEF ImportInv, BeginTransition, batchVars
<1>3. CASE Enqueue(c)
  <2> DEFINE r == [request[c] EXCEPT !.step = "insert", !.start = None]
  <2>1. RequestSafe(r, staged)
    BY <1>1, NoneIsSafe DEF RequestSafe, Requests
  <2>2. request' = [request EXCEPT ![c] = r] /\ UNCHANGED staged
    BY <1>3 DEF Enqueue, batchVars
  <2>3. RequestsInv'
    BY <2>1, <2>2, RequestSet DEF ImportInv
  <2> QED BY <1>3, <2>3, Kept, Counted DEF ImportInv, Enqueue, batchVars
<1>4. CASE Pause(c) \/ Resume(c) \/ Cancel(c)
  BY <1>2, <1>4 DEF Pause, Resume, Cancel, Statuses
<1>5. CASE Retry(c)
  BY <1>2, <1>5 DEF Retry, Statuses
<1> QED BY <1>3, <1>4, <1>5

LEMMA StepTransition ==
  ASSUME ImportInv, NEW c \in Clients, Transition(c) \/ OpenBatch(c)
  PROVE  ImportInv'
<1>1. request[c].to \in Statuses /\ request[c].then \in {"idle", "find"} /\ UNCHANGED staged
  BY DEF ImportInv, RequestsInv, RequestSafe, Requests, Transition, OpenBatch
<1>2. BatchInv'
  BY <1>1, StatusSet DEF ImportInv, Transition, OpenBatch, Statuses
<1>3. RequestsInv'
  BY <1>1, IdleIsSafe, RequestSet DEF ImportInv, Transition, OpenBatch
<1> QED BY <1>2, <1>3, Kept DEF ImportInv, Transition, OpenBatch

LEMMA StepFindLatest ==
  ASSUME ImportInv, NEW c \in Clients, FindLatest(c)
  PROVE  ImportInv'
<1>1. request[c] \in Requests /\ UNCHANGED staged
  BY DEF ImportInv, RequestsInv, RequestSafe, FindLatest, batchVars
<1>2. CASE request' = [request EXCEPT ![c] = Request("idle")]
  BY <1>1, <1>2, IdleIsSafe, RequestSet, Kept DEF ImportInv, FindLatest, batchVars
<1>3. ASSUME NEW e \in Stopped,
             request' = [request EXCEPT ![c].step = "insert", ![c].start = ResumeCursor(e)]
      PROVE  ImportInv'
  <2> DEFINE n == ResumeCursor(e)
             r == [request[c] EXCEPT !.step = "insert", !.start = n]
  <2>1. n \in Cursors /\ UpTo(n, staged)
    BY DEF ImportInv, BatchInv, RowsInv, RowSafe, ExecutionRows, ResumeCursor, Stopped
  <2>2. RequestSafe(r, staged)
    <3> HIDE DEF n
    <3> QED BY <1>1, <2>1 DEF RequestSafe, Requests
  <2>3. request' = [request EXCEPT ![c] = r]
    BY <1>3
  <2>4. RequestsInv'
    BY <1>1, <2>2, <2>3, RequestSet DEF ImportInv
  <2> QED BY <2>4, Kept DEF ImportInv, FindLatest, batchVars
<1> QED BY <1>2, <1>3 DEF FindLatest

LEMMA StepInsertExecution ==
  ASSUME ImportInv, NEW c \in Clients, InsertExecution(c)
  PROVE  ImportInv'
<1>1. UNCHANGED staged /\ UNCHANGED batchVars
  BY DEF InsertExecution, batchVars
<1>2. PICK e \in Executions :
        /\ execution' = [execution EXCEPT
             ![e] = [status |-> "queued", start |-> request[c].start, cursor |-> None]]
        /\ \/ /\ importer' = [importer EXCEPT ![e].step = "waiting"]
              /\ request' = [request EXCEPT ![c] = Request("open")]
              /\ UNCHANGED faults
           \/ /\ Fault("queue")
              /\ request' = [request EXCEPT ![c] = Request("idle")]
              /\ UNCHANGED importer
  BY DEF InsertExecution
<1>3. RowsInv'
  <2>1. request[c].start \in Cursors /\ UpTo(request[c].start, staged)
    BY DEF ImportInv, RequestsInv, RequestSafe, Requests
  <2>2. RowSafe([status |-> "queued", start |-> request[c].start, cursor |-> None], staged)
    BY <2>1, NoneIsSafe DEF RowSafe, ExecutionRows
  <2> QED BY <1>1, <1>2, <2>2, RowSet DEF ImportInv
<1>4. JobsInv'
  <2>1. e \in Importers /\ importer[e] \in Jobs /\ JobSafe(importer[e], staged)
    BY ExecutionsImport DEF ImportInv, JobsInv, JobSafe
  <2>2. JobSafe([importer[e] EXCEPT !.step = "waiting"], staged)
    BY <2>1, Moved
  <2>3. CASE importer' = [importer EXCEPT ![e].step = "waiting"]
    <3>1. importer' = [importer EXCEPT ![e] = [importer[e] EXCEPT !.step = "waiting"]]
      BY <2>3
    <3> QED BY <1>1, <2>1, <2>2, <3>1, JobSet DEF ImportInv
  <2>4. CASE UNCHANGED importer
    BY <1>1, <2>4, Kept
  <2> QED BY <1>2, <2>3, <2>4
<1>5. RequestsInv'
  BY <1>1, <1>2, IdleIsSafe, RequestSet DEF ImportInv
<1>6. CountsInv'
  BY <1>2, Kept, Counted DEF ImportInv, InsertExecution
<1> QED BY <1>1, <1>3, <1>4, <1>5, <1>6, Kept DEF ImportInv

LEMMA StepGivesUp ==
  ASSUME ImportInv, NEW c \in Clients, RefuseExecution(c) \/ Abandon(c)
  PROVE  ImportInv'
<1>1. RequestsInv'
  BY IdleIsSafe, RequestSet DEF ImportInv, RefuseExecution, Abandon, batchVars
<1>2. CountsInv'
  BY Kept, Counted DEF ImportInv, RefuseExecution, Abandon
<1> QED BY <1>1, <1>2, Kept DEF ImportInv, RefuseExecution, Abandon, batchVars

LEMMA StepAside ==
  ASSUME ImportInv, (\E s \in Patches : SetStatus(s)) \/ Validate \/ ImportDirectly
  PROVE  ImportInv'
<1>1. CASE \E s \in Patches : SetStatus(s)
  BY <1>1, ImportAssumption, StatusSet, Kept, Counted DEF ImportInv, SetStatus
<1>2. CASE Validate
  <2>1. status' \in Statuses
    BY <1>2 DEF ImportInv, BatchInv, Validate, Statuses
  <2>2. BatchInv'
    BY <1>2, <2>1, NoneIsSafe DEF ImportInv, BatchInv, Validate
  <2> QED BY <1>2, <2>2, Kept, Counted DEF ImportInv, Validate
<1>3. CASE ImportDirectly
  <2> DEFINE r == [importer[Direct] EXCEPT !.step = "read", !.cursor = None]
  <2>1. Direct \in Importers /\ importer[Direct] \in Jobs /\ JobSafe(importer[Direct], staged)
    BY DEF ImportInv, JobsInv, JobSafe, Importers
  <2>2. JobSafe(r, staged)
    BY <2>1, NoneIsSafe DEF JobSafe, Jobs, InTry
  <2>3. importer' = [importer EXCEPT ![Direct] = r] /\ UNCHANGED staged
    BY <1>3 DEF ImportDirectly, batchVars
  <2>4. JobsInv'
    BY <2>1, <2>2, <2>3, JobSet DEF ImportInv
  <2> QED BY <1>3, <2>4, Kept, Counted DEF ImportInv, ImportDirectly, batchVars
<1> QED BY <1>1, <1>2, <1>3
-----------------------------------------------------------------------------
(* The theorems.                                                            *)

LEMMA InvInit == ImportInit => ImportInv
<1> SUFFICES ASSUME ImportInit
             PROVE  ImportInv
  OBVIOUS
<1>1. BatchInv
  BY NoneIsSafe DEF ImportInit, BatchInv, Statuses
<1>2. RowSafe([status |-> "none", start |-> None, cursor |-> None], staged)
  BY NoneIsSafe DEF RowSafe, ExecutionRows
<1>3. RowsInv
  BY <1>2 DEF ImportInit, RowsInv
<1>4. JobsInv
  BY IdleIsSafe DEF ImportInit, JobsInv
<1>5. RequestsInv
  BY IdleIsSafe DEF ImportInit, RequestsInv
<1>6. CountsInv
  BY ImportAssumption DEF ImportInit, CountsInv
<1> QED BY <1>1, <1>3, <1>4, <1>5, <1>6 DEF ImportInv

LEMMA InvNext == ImportInv /\ [ImportNext]_importVars => ImportInv'
<1> SUFFICES ASSUME ImportInv, [ImportNext]_importVars
             PROVE  ImportInv'
  OBVIOUS
<1>1. CASE UNCHANGED importVars
  BY <1>1, Kept DEF importVars, batchVars, ImportInv
<1>2. ASSUME NEW c \in Clients, RequestStep(c)
      PROVE  ImportInv'
  BY <1>2, StepBegin, StepTransition, StepFindLatest, StepInsertExecution, StepGivesUp
  DEF RequestStep
<1>3. ASSUME ImportChunk(Direct) \/ Throw(Direct)
      PROVE  ImportInv'
  BY <1>3, StepReadChunk, StepStageChunk, StepPersistChunk, StepThrow DEF ImportChunk, Importers
<1> QED BY <1>1, <1>2, <1>3, StepJob, StepAside DEF ImportNext

LEMMA InvHolds == ImportSpec => []ImportInv
BY InvInit, InvNext, PTL DEF ImportSpec

\* The state of the batch, its executions, jobs and requests has its types.
THEOREM ImportTypesCorrect == ImportSpec => []ImportTypeOK
<1>1. ImportInv => ImportTypeOK
  <2> SUFFICES ASSUME ImportInv
               PROVE  ImportTypeOK
    OBVIOUS
  <2>1. execution \in [Executions -> ExecutionRows]
    BY DEF ImportInv, RowsInv, RowSafe
  <2>2. importer \in [Importers -> Jobs]
    BY DEF ImportInv, JobsInv, JobSafe
  <2>3. request \in [Clients -> Requests]
    BY DEF ImportInv, RequestsInv, RequestSafe
  <2> QED BY <2>1, <2>2, <2>3 DEF ImportTypeOK, ImportInv, BatchInv, CountsInv
<1> QED BY <1>1, InvHolds, PTL

\* From wherever an import may go on, everything before is staged.
THEOREM ResumesAfterStaged == ImportSpec => []CheckpointIsStaged
<1>1. ImportInv => CheckpointIsStaged
  BY DEF ImportInv, BatchInv, RowsInv, RowSafe, JobsInv, JobSafe, RequestsInv, RequestSafe,
         CheckpointIsStaged, StagedUpTo, UpTo
<1> QED BY <1>1, InvHolds, PTL

\* An execution recorded as completed leaves no chunk of its source behind.
THEOREM NothingLeftBehind == ImportSpec => []CompletedIsComplete
<1>1. ImportInv => CompletedIsComplete
  BY DEF ImportInv, RowsInv, RowSafe, CompletedIsComplete
<1> QED BY <1>1, InvHolds, PTL
-----------------------------------------------------------------------------
(* How a job ends.                                                          *)

\* A step of one job leaves the others' rows, and its own as it must be.
LEMMA OtherRowsKept ==
  ASSUME ImportInv, RecordedInv, NEW e \in Executions, NEW j, NEW x, Recorded(j, x),
         importer' = [importer EXCEPT ![e] = j], execution' = [execution EXCEPT ![e] = x]
  PROVE  RecordedInv'
<1> SUFFICES ASSUME NEW d \in Executions
             PROVE  Recorded(importer'[d], execution'[d])
  BY DEF RecordedInv
<1>1. importer'[d] = (IF d = e THEN j ELSE importer[d])
  BY ExecutionsImport DEF ImportInv, JobsInv
<1>2. execution'[d] = (IF d = e THEN x ELSE execution[d])
  BY DEF ImportInv, RowsInv
<1> QED BY <1>1, <1>2 DEF RecordedInv

\* A job goes on, to a step that says nothing of its row.
LEMMA SilentStep ==
  ASSUME ImportInv, RecordedInv, NEW e \in Executions, NEW j,
         j.step \notin {"ready", "failed", "over", "ended"},
         importer' = [importer EXCEPT ![e] = j],
         NEW x, execution' = [execution EXCEPT ![e] = x]
  PROVE  RecordedInv'
BY OtherRowsKept DEF Recorded

\* The table of the executions as it is.
LEMMA SameRow ==
  ASSUME ImportInv, NEW e \in Executions, UNCHANGED execution
  PROVE  execution' = [execution EXCEPT ![e] = execution[e]]
BY DEF ImportInv, RowsInv

LEMMA DirectStep ==
  ASSUME ImportInv, RecordedInv, NEW j, importer' = [importer EXCEPT ![Direct] = j],
         UNCHANGED execution
  PROVE  RecordedInv'
BY ExecutionsImport DEF ImportInv, JobsInv, RecordedInv

LEMMA RecordedLoop ==
  ASSUME ImportInv, RecordedInv, NEW e \in Executions,
         \/ StartJob(e) \/ CheckStatus(e) \/ ImportChunk(e) \/ ReportCursor(e) \/ ReportProgress(e)
  PROVE  RecordedInv'
<1> DEFINE j == importer[e]
<1>1. j \in Jobs /\ e # Direct
  BY ExecutionsImport DEF ImportInv, JobsInv, JobSafe
<1>2. CASE StartJob(e)
  <2> DEFINE r == [j EXCEPT !.step = "check", !.cursor = execution[e].start, !.count = 0]
             x == [execution[e] EXCEPT !.status = "running"]
  <2>1. importer' = [importer EXCEPT ![e] = r] /\ execution' = [execution EXCEPT ![e] = x]
    BY <1>2 DEF StartJob, Marked
  <2>2. r.step = "check"
    BY <1>1 DEF Jobs
  <2> QED BY <2>1, <2>2, SilentStep
<1>3. CASE CheckStatus(e)
  <2> DEFINE r == [j EXCEPT !.step = CASE status = "paused" -> "report"
                                       [] status = "cancelled" -> "cancelled"
                                       [] OTHER -> "read",
                            !.then = IF status = "paused" THEN "paused" ELSE "check"]
  <2>1. importer' = [importer EXCEPT ![e] = r]
    BY <1>3 DEF CheckStatus
  <2>2. r.step \in {"report", "cancelled", "read"}
    BY <1>1 DEF Jobs
  <2>3. UNCHANGED execution
    BY <1>3 DEF CheckStatus
  <2> HIDE DEF r
  <2> QED BY <2>1, <2>2, <2>3, SameRow, SilentStep
<1>4. CASE ReadChunk(e)
  <2> DEFINE k == From(e) + 1
             r == [j EXCEPT !.step = IF k \in Chunks THEN "stage" ELSE "persist", !.chunk = k]
  <2>1. importer' = [importer EXCEPT ![e] = r] /\ UNCHANGED execution
    BY <1>4 DEF ReadChunk
  <2>2. r.step \in {"stage", "persist"}
    BY <1>1 DEF Jobs
  <2> HIDE DEF r
  <2> QED BY <2>1, <2>2, SameRow, SilentStep
<1>5. CASE StageChunk(e)
  <2> DEFINE r == [j EXCEPT !.step = "persist"]
  <2>1. importer' = [importer EXCEPT ![e] = r] /\ UNCHANGED execution
    BY <1>5 DEF StageChunk, Goes
  <2>2. r.step = "persist"
    BY <1>1 DEF Jobs
  <2> QED BY <2>1, <2>2, SameRow, SilentStep
<1>6. CASE PersistChunk(e)
  <2> DEFINE next == NextCursor(j.chunk)
             count == j.count + 1
             r == [j EXCEPT !.step = "report", !.then = AfterChunk(next, count),
                            !.cursor = next, !.chunk = 1, !.count = count]
  <2>1. importer' = [importer EXCEPT ![e] = r] /\ UNCHANGED execution
    BY <1>1, <1>6 DEF PersistChunk
  <2>2. r.step = "report"
    BY <1>1 DEF Jobs
  <2> QED BY <2>1, <2>2, SameRow, SilentStep
<1>7. CASE ReportCursor(e)
  <2> DEFINE r == [j EXCEPT !.step = "progress"]
             x == [execution[e] EXCEPT !.cursor = j.cursor]
  <2>1. importer' = [importer EXCEPT ![e] = r] /\ execution' = [execution EXCEPT ![e] = x]
    BY <1>7 DEF ReportCursor, Goes
  <2>2. r.step = "progress"
    BY <1>1 DEF Jobs
  <2> QED BY <2>1, <2>2, SilentStep
<1>8. CASE ReportProgress(e)
  <2> DEFINE r == [j EXCEPT !.step = j.then, !.then = "check"]
  <2>1. importer' = [importer EXCEPT ![e] = r] /\ UNCHANGED execution
    BY <1>8 DEF ReportProgress
  <2>2. r.step \in {"check", "paused", "complete"}
    BY <1>1 DEF Jobs
  <2> QED BY <2>1, <2>2, SameRow, SilentStep
<1> QED BY <1>2, <1>3, <1>4, <1>5, <1>6, <1>7, <1>8 DEF ImportChunk

LEMMA RecordedEnds ==
  ASSUME ImportInv, RecordedInv, NEW e \in Executions,
         Interrupt(e) \/ CompleteExecution(e) \/ CompleteBatch(e) \/ EndJob(e)
           \/ FailExecution(e) \/ FailBatch(e)
  PROVE  RecordedInv'
<1> DEFINE j == importer[e]
<1>1. j \in Jobs /\ execution[e] \in ExecutionRows /\ Recorded(j, execution[e])
  BY ExecutionsImport DEF ImportInv, JobsInv, JobSafe, RowsInv, RowSafe, RecordedInv
<1>2. CASE Interrupt(e)
  <2>1. PICK s \in {"paused", "cancelled"} : Returns(e, s) /\ execution' = Marked(e, s)
    BY <1>2 DEF Interrupt
  <2> DEFINE r == Job("over", j.tries, j.stalls)
             x == [execution[e] EXCEPT !.status = s]
  <2>2. importer' = [importer EXCEPT ![e] = r] /\ execution' = [execution EXCEPT ![e] = x]
    BY <2>1 DEF Returns, Marked
  <2>3. Recorded(r, x)
    BY <1>1 DEF Recorded, Job, ExecutionRows
  <2> QED BY <2>2, <2>3, OtherRowsKept
<1>3. ASSUME NEW step \in {"ready", "failed"}, NEW s \in {"completed", "failed"},
             step = "ready" => s = "completed", step = "failed" => s = "failed",
             NEW from, Goes(e, from, step), execution' = Marked(e, s)
      PROVE  RecordedInv'
  <2> DEFINE r == [j EXCEPT !.step = step]
             x == [execution[e] EXCEPT !.status = s]
  <2>1. importer' = [importer EXCEPT ![e] = r] /\ execution' = [execution EXCEPT ![e] = x]
    BY <1>3 DEF Goes, Marked
  <2>2. Recorded(r, x)
    BY <1>1, <1>3 DEF Recorded, Jobs, ExecutionRows
  <2> QED BY <2>1, <2>2, OtherRowsKept
<1>4. CASE CompleteBatch(e)
  <2> DEFINE r == Job("over", j.tries, j.stalls)
  <2>1. importer' = [importer EXCEPT ![e] = r] /\ UNCHANGED execution /\ j.step = "ready"
    BY <1>4 DEF CompleteBatch, Returns
  <2>2. Recorded(r, execution[e])
    BY <1>1, <2>1 DEF Recorded, Job
  <2> QED BY <2>1, <2>2, SameRow, OtherRowsKept
<1>5. CASE EndJob(e) \/ FailBatch(e)
  <2> DEFINE r == Job("ended", 0, 0)
  <2>1. importer' = [importer EXCEPT ![e] = r] /\ UNCHANGED execution
        /\ j.step \in {"over", "failed"}
    BY <1>5 DEF EndJob, FailBatch, Ends
  <2>2. Recorded(r, execution[e])
    BY <1>1, <2>1 DEF Recorded, Job
  <2> QED BY <2>1, <2>2, SameRow, OtherRowsKept
<1> QED BY <1>2, <1>3, <1>4, <1>5 DEF CompleteExecution, FailExecution

LEMMA RecordedFaults ==
  ASSUME ImportInv, RecordedInv, NEW e \in Executions, Throw(e) \/ ThrowOutside(e) \/ Crash(e)
  PROVE  RecordedInv'
<1> DEFINE j == importer[e]
<1>1. j \in Jobs /\ e # Direct /\ Recorded(j, execution[e]) /\ UNCHANGED execution
  BY ExecutionsImport
  DEF ImportInv, JobsInv, JobSafe, RecordedInv, Throw, ThrowOutside, Crash
<1>2. ASSUME NEW step \in {"waiting", "dropped"}, NEW t, NEW n,
             importer' = [importer EXCEPT ![e] = Job(step, t, n)]
      PROVE  RecordedInv'
  <2>1. Job(step, t, n).step = step
    BY DEF Job
  <2> QED BY <1>1, <1>2, <2>1, SameRow, SilentStep
<1>3. CASE importer' = [importer EXCEPT ![e] = [j EXCEPT !.step = "fail"]]
  <2>1. [j EXCEPT !.step = "fail"].step = "fail"
    BY <1>1 DEF Jobs
  <2> QED BY <1>1, <1>3, <2>1, SameRow, SilentStep
<1>4. CASE Ends(e, "failed")
  <2>1. Recorded(Job("ended", 0, 0), execution[e])
    BY <1>1, <1>4 DEF Recorded, Job, Ends
  <2> QED BY <1>1, <1>4, <2>1, SameRow, OtherRowsKept DEF Ends
<1>5. CASE Throw(e)
  <2>1. \/ importer' = [importer EXCEPT ![e] = [j EXCEPT !.step = "fail"]]
        \/ importer' = [importer EXCEPT ![e] = Job("waiting", j.tries + 1, j.stalls)]
    BY <1>1, <1>5 DEF Throw
  <2> QED BY <1>2, <1>3, <2>1
<1>6. CASE ThrowOutside(e)
  BY <1>2, <1>4, <1>6 DEF ThrowOutside
<1>7. CASE Crash(e)
  BY <1>2, <1>7 DEF Crash
<1> QED BY <1>5, <1>6, <1>7

LEMMA RecordedRequests ==
  ASSUME ImportInv, RecordedInv, NEW c \in Clients, RequestStep(c)
  PROVE  RecordedInv'
<1>1. CASE InsertExecution(c)
  <2>1. PICK e \in Executions :
          /\ execution[e].status = "none"
          /\ execution' = [execution EXCEPT
               ![e] = [status |-> "queued", start |-> request[c].start, cursor |-> None]]
          /\ \/ importer' = [importer EXCEPT ![e].step = "waiting"]
             \/ UNCHANGED importer
    BY <1>1 DEF InsertExecution
  <2> DEFINE x == [status |-> "queued", start |-> request[c].start, cursor |-> None]
  <2>2. importer[e] \in Jobs /\ Recorded(importer[e], execution[e])
    BY ExecutionsImport DEF ImportInv, JobsInv, JobSafe, RecordedInv
  <2>3. importer[e].step \notin {"ready", "failed", "over", "ended"}
    BY <2>1, <2>2 DEF Recorded
  <2>4. CASE importer' = [importer EXCEPT ![e].step = "waiting"]
    <3>1. importer' = [importer EXCEPT ![e] = [importer[e] EXCEPT !.step = "waiting"]]
      BY <2>4
    <3>2. [importer[e] EXCEPT !.step = "waiting"].step = "waiting"
      BY <2>2 DEF Jobs
    <3> QED BY <2>1, <3>1, <3>2, SilentStep
  <2>5. CASE UNCHANGED importer
    <3>1. importer' = [importer EXCEPT ![e] = importer[e]]
      BY <2>5 DEF ImportInv, JobsInv
    <3> QED BY <2>1, <2>3, <3>1, SilentStep
  <2> QED BY <2>1, <2>4, <2>5
<1>2. CASE UNCHANGED <<importer, execution>>
  BY <1>2 DEF RecordedInv
<1> QED
  BY <1>1, <1>2
  DEF RequestStep, Pause, Resume, Cancel, Retry, BeginTransition, Transition, FindLatest, Enqueue,
      RefuseExecution, OpenBatch, Abandon

LEMMA RecordedNext ==
  ImportInv /\ RecordedInv /\ [ImportNext]_importVars => RecordedInv'
<1> SUFFICES ASSUME ImportInv, RecordedInv, [ImportNext]_importVars
             PROVE  RecordedInv'
  OBVIOUS
<1>1. CASE UNCHANGED importVars \/ Validate \/ \E s \in Patches : SetStatus(s)
  BY <1>1 DEF importVars, Validate, SetStatus, RecordedInv
<1>2. CASE \E e \in Executions : JobStep(e)
  BY <1>2, RecordedLoop, RecordedEnds, RecordedFaults DEF JobStep
<1>3. CASE ImportDirectly
  <2>1. importer' = [importer EXCEPT ![Direct] =
          [importer[Direct] EXCEPT !.step = "read", !.cursor = None]] /\ UNCHANGED execution
    BY <1>3 DEF ImportDirectly
  <2> QED BY <2>1, DirectStep
<1>4. CASE ImportChunk(Direct) \/ Throw(Direct)
  <2>1. UNCHANGED execution
    BY <1>4 DEF ImportChunk, ReadChunk, StageChunk, PersistChunk, Throw
  <2>2. \E j : importer' = [importer EXCEPT ![Direct] = j]
    BY <1>4 DEF ImportChunk, ReadChunk, StageChunk, PersistChunk, Throw, Goes
  <2> QED BY <2>1, <2>2, DirectStep
<1> QED BY <1>1, <1>2, <1>3, <1>4, RecordedRequests DEF ImportNext

LEMMA RecordedHolds == ImportSpec => []RecordedInv
<1>1. ImportInit => RecordedInv
  BY ExecutionsImport DEF ImportInit, RecordedInv, Recorded, Job
<1> QED BY <1>1, RecordedNext, InvHolds, PTL DEF ImportSpec

\* A job that Bull finished has an execution that says how.
THEOREM JobsEndRecorded == ImportSpec => []EndedIsRecorded
<1>1. RecordedInv => EndedIsRecorded
  BY DEF RecordedInv, Recorded, EndedIsRecorded
<1> QED BY <1>1, RecordedHolds, PTL
=============================================================================
