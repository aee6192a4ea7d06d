-------------------------- MODULE PayrollRunProofs --------------------------
(***************************************************************************)
(* Safety of PayrollRun with requests and generations that overlap in any  *)
(* way, for any employees, runs, fines, workers, figures and versions: its *)
(* types; that final payslips do not change and processed runs are closed; *)
(* that what is processed is processed together; that nothing is written   *)
(* under a lock; and, if no request dies between two statements, that the  *)
(* version history is complete in the fields that compute compares.        *)
(***************************************************************************)
EXTENDS PayrollRun, TLAPS

\* A row of payroll_attendance_summary is absent or has figures and a version.
Filled(row) ==
  /\ row \in SummaryRows
  /\ IF row.status = "absent" THEN row.figures = NoFigures
     ELSE row.version \in 1..MaxVersion /\ row.figures \in Figures

\* What a worker remembers: one that will write back did not read a frozen row,
\* one that owes a version row has a row that is there.
Owing == {"version", "last_version"}
AfterWrite == Owing \cup {"mark"}
JobOK(j) ==
  \/ j = NoJob
  \/ j \in LockRecords
  \/ /\ j \in JobRecords
     /\ Filled(j.copy)
     /\ j.step \in {"figures", "write"} => j.copy.status \notin Frozen
     /\ j.step = "write" /\ j.op # "adjust" => j.figures \in Figures
     /\ j.step \in Owing => j.copy.status # "absent"

TablesInv ==
  /\ summary = [e \in Employees |-> summary[e]]
  /\ \A e \in Employees : Filled(summary[e])
  /\ versions \in [Employees -> SUBSET ((1..MaxVersion) \X Figures)]
  /\ reviewed \in [Employees -> Figures \cup {Unreviewed}]
JobsInv ==
  /\ job = [w \in Workers |-> job[w]]
  /\ \A w \in Workers :
       JobOK(job[w]) /\ (job[w].step \in AfterWrite => summary[job[w].emp].status # "absent")
SummaryInv == TablesInv /\ JobsInv

RunInv ==
  /\ run \in [Runs -> {"absent", "draft", "processed"}]
  /\ payslip \in [Employees -> PayslipRows]
  /\ \A e \in Employees : payslip[e].status = "absent" => payslip[e].run = NoRun
  /\ backing \in [Employees -> Runs \cup {NoRun}]
  /\ generation \in [Runs -> Generations]
  /\ \A r \in Runs : Generating(r) => run[r] # "processed"
  /\ \A r \in Runs : \A e \in generation[r].loaded : summary[e].status # "absent"
  /\ ProcessedRunClosed
  /\ ProcessedTogether

\* With the history V and the workers J, a version of the row's number that
\* agrees with it in the compared fields is in the history, or some worker is
\* about to write one there.
Owed(j, e, row) ==
  /\ j.step \in Owing /\ j.emp = e
  /\ j.copy.version = row.version /\ Compared[j.copy.figures] = Compared[row.figures]
Kept(V, e, row) ==
  \E v \in V[e] : v[1] = row.version /\ Compared[v[2]] = Compared[row.figures]
Known(V, J, e, row) ==
  row.status # "absent" => Kept(V, e, row) \/ \E w \in Workers : Owed(J[w], e, row)

\* So are those of every summary, payslip and copy that a worker may write back.
HistoryInv ==
  /\ \A e \in Employees : Known(versions, job, e, summary[e])
  /\ \A e \in Employees : Known(versions, job, e, payslip[e])
  /\ \A w \in Workers : job[w].step \in {"figures", "write"} =>
       Known(versions, job, job[w].emp, job[w].copy)

\* The inductive invariant.
PayrollInv == SummaryInv /\ FineTypeOK /\ RunInv /\ (~CanFail => HistoryInv)
-----------------------------------------------------------------------------
(* What a step of the summaries may do to the rest.                         *)

\* No summary vanishes, and none becomes processed but by a run.
SummaryMoves ==
  \A e \in Employees :
    /\ summary[e].status # "absent" => summary'[e].status # "absent"
    /\ summary'[e].status = "payroll_processed" => summary[e].status = "payroll_processed"

LEMMA RunKept ==
  ASSUME RunInv, SummaryMoves, UNCHANGED runVars
  PROVE  RunInv'
<1>1. \A r \in Runs : generation[r].loaded \subseteq Employees
  BY DEF RunInv, Generations
<1>2. \A r \in Runs : \A e \in generation[r].loaded : summary'[e].status # "absent"
  BY <1>1 DEF RunInv, SummaryMoves
<1>3. ProcessedTogether'
  BY DEF RunInv, SummaryMoves, ProcessedTogether, runVars
<1> QED BY <1>2, <1>3 DEF RunInv, ProcessedRunClosed, Generating, runVars

\* A worker that is neither idle nor locking has a job of the summary service.
LEMMA JobKind ==
  ASSUME NEW j, JobOK(j), j.step \notin {"idle", "lock"}
  PROVE  /\ j \in JobRecords
         /\ j.emp \in Employees /\ j.op \in AllJobs
         /\ Filled(j.copy) /\ j.copy \in SummaryRows
         /\ j.step \in {"figures", "write"} => j.copy.status \notin Frozen
         /\ j.step = "write" /\ j.op # "adjust" => j.figures \in Figures
         /\ j.step \in Owing => j.copy.status # "absent"
BY DEF JobOK, NoJob, LockRecords, JobRecords, Filled

LEMMA JobSet ==
  ASSUME JobsInv, SummaryMoves, NEW w \in Workers, NEW j, JobOK(j),
         j.step \in AfterWrite => summary'[j.emp].status # "absent",
         job' = [job EXCEPT ![w] = j]
  PROVE  JobsInv'
<1>1. ASSUME NEW v \in Workers, job'[v].step \in AfterWrite
      PROVE  summary'[job'[v].emp].status # "absent"
  <2>1. CASE v = w
    BY <1>1, <2>1 DEF JobsInv
  <2>2. CASE v # w
    <3>1. job'[v] = job[v] /\ JobOK(job[v])
      BY <2>2 DEF JobsInv
    <3>2. job[v].emp \in Employees
      BY <1>1, <3>1, JobKind DEF AfterWrite, Owing
    <3> QED BY <1>1, <3>1, <3>2 DEF JobsInv, SummaryMoves
  <2> QED BY <2>1, <2>2
<1> QED BY <1>1 DEF JobsInv

LEMMA JobsKept ==
  ASSUME JobsInv, SummaryMoves, UNCHANGED job
  PROVE  JobsInv'
<1>1. ASSUME NEW v \in Workers, job[v].step \in AfterWrite
      PROVE  summary'[job[v].emp].status # "absent"
  <2>1. job[v].emp \in Employees
    BY <1>1, JobKind DEF JobsInv, AfterWrite, Owing
  <2> QED BY <1>1, <2>1 DEF JobsInv, SummaryMoves
<1> QED BY <1>1 DEF JobsInv

LEMMA Unmoved ==
  ASSUME UNCHANGED summary
  PROVE  SummaryMoves
BY DEF SummaryMoves

\* One summary is written, with a row that a run did not process.
LEMMA RowSet ==
  ASSUME TablesInv, NEW e \in Employees, NEW row, Filled(row), row.status # "absent",
         row.status = "payroll_processed" => summary[e].status = "payroll_processed",
         summary' = [summary EXCEPT ![e] = row],
         UNCHANGED <<versions, reviewed>>
  PROVE  TablesInv' /\ SummaryMoves
BY DEF TablesInv, SummaryMoves

LEMMA NoJobOK == JobOK(NoJob)
BY DEF JobOK
-----------------------------------------------------------------------------
(* The steps of the summary service.                                        *)

LEMMA AbsentFilled == Filled(AbsentRow) /\ AbsentRow.status = "absent"
BY SummaryAssumption DEF Filled, AbsentRow, SummaryRows, SummaryStatuses

\* A worker's record when a job begins, reads its summary anew or goes on.
LEMMA NewRecord ==
  ASSUME NEW e \in Employees, NEW op \in AllJobs, NEW row, Filled(row),
         NEW step \in {"read", "figures", "write", "mark", "version", "last_version"},
         step \in {"figures", "write"} => row.status \notin Frozen,
         step = "write" => op = "adjust",
         step \in Owing => row.status # "absent"
  PROVE  JobOK([step |-> step, op |-> op, emp |-> e, copy |-> row, figures |-> NoFigures])
BY DEF JobOK, JobRecords, Filled, Owing

LEMMA StepBeginJob ==
  ASSUME SummaryInv, NEW w \in Workers, NEW op \in Jobs \ {"lock"}, NEW e \in Employees,
         BeginJob(w, op, e)
  PROVE  SummaryInv' /\ SummaryMoves
<1> DEFINE step == IF op = "adjust" THEN "write" ELSE "read"
           j == [step |-> step, op |-> op, emp |-> e, copy |-> AbsentRow, figures |-> NoFigures]
<1>1. op \in AllJobs
  BY SummaryAssumption DEF AllJobs
<1>2. JobOK(j) /\ j.step \notin AfterWrite
  BY <1>1, AbsentFilled, NewRecord DEF Frozen, AfterWrite, Owing
<1>3. job' = [job EXCEPT ![w] = j] /\ UNCHANGED <<summary, versions, reviewed>>
  BY DEF BeginJob, NewJob
<1>4. SummaryMoves
  BY <1>3, Unmoved
<1>5. JobsInv'
  <2> HIDE DEF j
  <2> QED BY <1>2, <1>3, <1>4, JobSet DEF SummaryInv, AfterWrite, Owing
<1> QED BY <1>3, <1>4, <1>5 DEF SummaryInv, TablesInv

LEMMA StepReadSummary ==
  ASSUME SummaryInv, NEW w \in Workers, ReadSummary(w)
  PROVE  SummaryInv' /\ SummaryMoves
<1> DEFINE e == job[w].emp
           j(step, row) == [step |-> step, op |-> job[w].op, emp |-> e, copy |-> row,
                            figures |-> NoFigures]
<1>1. e \in Employees /\ job[w].op \in AllJobs
  BY JobKind DEF ReadSummary, SummaryInv, JobsInv
<1>2. UNCHANGED <<summary, versions, reviewed>> /\ SummaryMoves
  BY Unmoved DEF ReadSummary
<1>3. CASE summary[e].status \notin Frozen
  <2>1. JobOK(j("figures", summary[e]))
    BY <1>1, <1>3, NewRecord DEF SummaryInv, TablesInv, Owing
  <2>2. job' = [job EXCEPT ![w] = j("figures", summary[e])]
    BY <1>3 DEF ReadSummary, NewJob
  <2>3. JobsInv'
    BY <1>2, <2>1, <2>2, JobSet DEF SummaryInv, AfterWrite, Owing
  <2> QED BY <1>2, <2>3 DEF SummaryInv, TablesInv
<1>4. CASE summary[e].status \in Frozen /\ job[w].op = "recompute"
  <2>1. JobOK(j("mark", AbsentRow)) /\ summary[e].status # "absent"
    BY <1>1, <1>4, AbsentFilled, NewRecord DEF Frozen, Owing
  <2>2. job' = [job EXCEPT ![w] = j("mark", AbsentRow)]
    BY <1>4 DEF ReadSummary, NewJob
  <2>3. JobsInv'
    BY <1>2, <2>1, <2>2, JobSet DEF SummaryInv
  <2> QED BY <1>2, <2>3 DEF SummaryInv, TablesInv
<1>5. CASE summary[e].status \in Frozen /\ job[w].op # "recompute"
  <2>1. job' = [job EXCEPT ![w] = NoJob]
    BY <1>5 DEF ReadSummary
  <2>2. JobsInv'
    BY <1>2, <2>1, JobSet, NoJobOK DEF SummaryInv, NoJob, AfterWrite, Owing
  <2> QED BY <1>2, <2>2 DEF SummaryInv, TablesInv
<1> QED BY <1>3, <1>4, <1>5

LEMMA StepComputeFigures ==
  ASSUME SummaryInv, NEW w \in Workers, ComputeFigures(w)
  PROVE  SummaryInv' /\ SummaryMoves
<1> PICK f \in Figures : job' = [job EXCEPT ![w].step = "write", ![w].figures = f]
  BY DEF ComputeFigures
<1> DEFINE j == [job[w] EXCEPT !.step = "write", !.figures = f]
<1>1. /\ job[w] \in JobRecords /\ job[w].emp \in Employees
      /\ Filled(job[w].copy) /\ job[w].copy.status \notin Frozen
  BY JobKind DEF ComputeFigures, SummaryInv, JobsInv
<1>3. JobOK(j) /\ j.step = "write"
  BY <1>1 DEF JobOK, JobRecords, Owing
<1>4. job' = [job EXCEPT ![w] = j] /\ UNCHANGED <<summary, versions, reviewed>>
  BY DEF ComputeFigures
<1>5. SummaryMoves
  BY <1>4, Unmoved
<1>6. JobsInv'
  <2> HIDE DEF j
  <2> QED BY <1>3, <1>4, <1>5, JobSet DEF SummaryInv, AfterWrite, Owing
<1> QED BY <1>4, <1>5, <1>6 DEF SummaryInv, TablesInv

\* What a worker remembers that has written a row and goes on.
After(j, step, row) ==
  [step |-> step, op |-> j.op, emp |-> j.emp,
   copy |-> IF step = "mark" THEN AbsentRow ELSE row, figures |-> NoFigures]

LEMMA WroteRow ==
  ASSUME SummaryInv, NEW w \in Workers, job[w] \in JobRecords, job[w].emp \in Employees,
         NEW row, Filled(row), row.status # "absent",
         row.status = "payroll_processed" =>
           summary[job[w].emp].status = "payroll_processed",
         NEW step \in {"version", "mark", "last_version"},
         Wrote(w, row, step), UNCHANGED <<versions, reviewed>>
  PROVE  SummaryInv' /\ SummaryMoves
<1> DEFINE j == After(job[w], step, row)
<1>1. TablesInv' /\ SummaryMoves
  BY RowSet DEF SummaryInv, Wrote
<1>2. JobOK(j) /\ j.emp = job[w].emp
  <2>1. job[w].op \in AllJobs
    BY DEF JobRecords
  <2> QED BY <2>1, AbsentFilled, NewRecord DEF After, Owing
<1>3. job' = [job EXCEPT ![w] = j]
  BY DEF Wrote, NewJob, After
<1>4. summary'[j.emp].status # "absent"
  BY <1>2 DEF Wrote, SummaryInv, TablesInv
<1>5. JobsInv'
  <2> HIDE DEF j
  <2> QED BY <1>1, <1>2, <1>3, <1>4, JobSet DEF SummaryInv
<1> QED BY <1>1, <1>5 DEF SummaryInv

\* The row that the upsert writes, as in WriteSummary.
Upserted(j) ==
  LET changed == Changed(j) IN
  [status  |-> IF changed THEN "pending_review" ELSE j.copy.status,
   figures |-> j.figures,
   version |-> IF changed THEN j.copy.version + 1 ELSE j.copy.version]

LEMMA UpsertedOK ==
  ASSUME NEW j \in JobRecords, JobOK(j), j.step = "write", j.op # "adjust",
         Upserted(j).version <= MaxVersion
  PROVE  /\ Filled(Upserted(j)) /\ Upserted(j).status \notin {"absent", "payroll_processed"}
         /\ ~Changed(j) =>
              /\ Upserted(j).version = j.copy.version
              /\ Compared[Upserted(j).figures] = Compared[j.copy.figures]
              /\ j.copy.status # "absent"
<1>1. /\ j.copy \in SummaryRows /\ Filled(j.copy) /\ j.figures \in Figures
      /\ j.copy.status \notin Frozen
  BY JobKind
<1>2. CASE ~Changed(j)
  BY <1>1, <1>2, SummaryAssumption DEF Changed, Upserted, Filled, SummaryRows, Frozen
<1>3. CASE Changed(j)
  <2>1. j.copy.version \in Nat /\ j.copy.version + 1 \in 1..MaxVersion
    BY <1>1, <1>3, SummaryAssumption DEF Upserted, SummaryRows
  <2>2. "pending_review" \in SummaryStatuses
    BY DEF SummaryStatuses
  <2> QED BY <1>1, <1>3, <2>1, <2>2, SummaryAssumption DEF Upserted, Filled, SummaryRows
<1> QED BY <1>2, <1>3

LEMMA WriteSummaryCases ==
  ASSUME SummaryInv, NEW w \in Workers, WriteSummary(w)
  PROVE  /\ job[w] \in JobRecords /\ JobOK(job[w]) /\ job[w].emp \in Employees
         /\ job[w].step = "write" /\ job[w].op # "adjust"
         /\ Upserted(job[w]).version <= MaxVersion
         /\ \/ Wrote(w, Upserted(job[w]), "version")
            \/ ~Changed(job[w]) /\ Wrote(w, Upserted(job[w]), "mark")
            \/ /\ ~Changed(job[w])
               /\ summary' = [summary EXCEPT ![job[w].emp] = Upserted(job[w])]
               /\ job' = [job EXCEPT ![w] = NoJob]
         /\ UNCHANGED <<versions, reviewed>>
<1>1. JobOK(job[w]) /\ job[w].step = "write" /\ job[w].op \in {"compute", "recompute"}
  BY DEF SummaryInv, JobsInv, WriteSummary
<1>2. job[w] \in JobRecords /\ job[w].emp \in Employees
  BY <1>1, JobKind
<1> QED BY <1>1, <1>2 DEF WriteSummary, Upserted

LEMMA StepWriteSummary ==
  ASSUME SummaryInv, NEW w \in Workers, WriteSummary(w)
  PROVE  SummaryInv' /\ SummaryMoves
<1> DEFINE row == Upserted(job[w])
<1>1. /\ job[w] \in JobRecords /\ JobOK(job[w]) /\ job[w].emp \in Employees
      /\ Filled(row) /\ row.status \notin {"absent", "payroll_processed"}
  BY WriteSummaryCases, UpsertedOK
<1>2. CASE Wrote(w, row, "version") \/ Wrote(w, row, "mark")
  <2> HIDE DEF row
  <2>1. UNCHANGED <<versions, reviewed>>
    BY WriteSummaryCases
  <2> QED BY <1>1, <1>2, <2>1, WroteRow
<1>3. CASE /\ summary' = [summary EXCEPT ![job[w].emp] = row]
           /\ job' = [job EXCEPT ![w] = NoJob]
  <2> HIDE DEF row
  <2>1. UNCHANGED <<versions, reviewed>>
    BY WriteSummaryCases
  <2>2. TablesInv' /\ SummaryMoves
    BY <1>1, <1>3, <2>1, RowSet DEF SummaryInv
  <2>3. JobsInv'
    BY <1>3, <2>2, NoJobOK, JobSet DEF SummaryInv, NoJob, AfterWrite, Owing
  <2> QED BY <2>2, <2>3 DEF SummaryInv
<1> QED BY <1>2, <1>3, WriteSummaryCases

LEMMA StepWriteAdjustment ==
  ASSUME SummaryInv, NEW w \in Workers, WriteAdjustment(w)
  PROVE  SummaryInv' /\ SummaryMoves
<1> DEFINE e == job[w].emp
<1>1. job[w] \in JobRecords /\ e \in Employees
  BY JobKind DEF WriteAdjustment, SummaryInv, JobsInv
<1>2. summary[e] \in SummaryRows
  BY <1>1 DEF SummaryInv, TablesInv, Filled
<1>3. PICK f \in Figures :
        Wrote(w, [status |-> "pending_review", figures |-> f,
                  version |-> summary[e].version + 1], "last_version")
  BY DEF WriteAdjustment
<1> DEFINE row == [status |-> "pending_review", figures |-> f, version |-> summary[e].version + 1]
<1>4. summary[e].version + 1 \in 1..MaxVersion /\ summary[e].version + 1 \in 0..MaxVersion
  BY <1>2, SummaryAssumption DEF WriteAdjustment, SummaryRows
<1>5. Filled(row) /\ row.status = "pending_review"
  BY <1>4 DEF Filled, SummaryRows, SummaryStatuses
<1>6. Wrote(w, row, "last_version")
  BY <1>3
<1> HIDE DEF row
<1>7. UNCHANGED <<versions, reviewed>>
  BY DEF WriteAdjustment
<1> QED BY <1>1, <1>5, <1>6, <1>7, WroteRow

LEMMA StepWriteVersion ==
  ASSUME SummaryInv, NEW w \in Workers, WriteVersion(w)
  PROVE  SummaryInv' /\ SummaryMoves
<1> DEFINE j == job[w]
           pair == <<j.copy.version, j.copy.figures>>
           next == IF j.step = "version" /\ j.op = "recompute"
                   THEN After(j, "mark", AbsentRow) ELSE NoJob
<1>1. /\ JobOK(j) /\ j \in JobRecords /\ j.emp \in Employees
      /\ Filled(j.copy) /\ j.copy.status # "absent"
  BY JobKind DEF WriteVersion, SummaryInv, JobsInv, Owing
<1>2. pair \in (1..MaxVersion) \X Figures
  BY <1>1 DEF Filled
<1>3. UNCHANGED <<summary, reviewed>> /\ SummaryMoves
  BY Unmoved DEF WriteVersion
<1>4. versions' = [versions EXCEPT ![j.emp] = @ \cup {pair}]
  BY DEF WriteVersion
<1>5. TablesInv'
  <2> HIDE DEF pair, j
  <2> QED BY <1>1, <1>2, <1>3, <1>4 DEF SummaryInv, TablesInv
<1>6. JobsInv'
  <2>1. CASE j.step = "version" /\ j.op = "recompute"
    <3>1. JobOK(next) /\ next.emp = j.emp
      BY <1>1, <2>1, AbsentFilled, NewRecord DEF After, JobRecords, Owing
    <3>2. job' = [job EXCEPT ![w] = next]
      BY <2>1 DEF WriteVersion, NewJob, After
    <3>3. summary'[j.emp].status # "absent"
      BY <1>1, <1>3 DEF WriteVersion, SummaryInv, JobsInv, AfterWrite, Owing
    <3> HIDE DEF next
    <3> QED BY <1>3, <3>1, <3>2, <3>3, JobSet DEF SummaryInv
  <2>2. CASE ~(j.step = "version" /\ j.op = "recompute")
    <3>1. job' = [job EXCEPT ![w] = NoJob]
      BY <2>2 DEF WriteVersion
    <3> QED BY <1>3, <3>1, NoJobOK, JobSet DEF SummaryInv, NoJob, AfterWrite, Owing
  <2> QED BY <2>1, <2>2
<1> QED BY <1>3, <1>5, <1>6 DEF SummaryInv

LEMMA StepMarkRecomputed ==
  ASSUME SummaryInv, NEW w \in Workers, MarkRecomputed(w)
  PROVE  SummaryInv' /\ SummaryMoves
<1> DEFINE now == summary[job[w].emp]
           row == [now EXCEPT !.status = IF @ \in {"draft", "rejected"} THEN "pending_review"
                                         ELSE @]
<1>1. job[w] \in JobRecords /\ job[w].emp \in Employees /\ now.status # "absent"
  BY JobKind DEF MarkRecomputed, SummaryInv, JobsInv, AfterWrite
<1>2. Filled(now)
  BY <1>1 DEF SummaryInv, TablesInv
<1>3. /\ Filled(row) /\ row.status # "absent"
      /\ row.status = "payroll_processed" => now.status = "payroll_processed"
  BY <1>1, <1>2 DEF Filled, SummaryRows, SummaryStatuses
<1>4. Wrote(w, row, "last_version") /\ UNCHANGED <<versions, reviewed>>
  BY DEF MarkRecomputed
<1> HIDE DEF row
<1> QED BY <1>1, <1>3, <1>4, WroteRow

LEMMA StepIdle ==
  ASSUME SummaryInv, NEW w \in Workers, JobFails(w) \/ \E S \in SUBSET Employees : CheckBlockers(w, S)
  PROVE  SummaryInv' /\ SummaryMoves
<1>1. UNCHANGED <<summary, versions, reviewed>> /\ SummaryMoves
  BY Unmoved DEF JobFails, CheckBlockers
<1>2. CASE JobFails(w)
  <2>1. job' = [job EXCEPT ![w] = NoJob]
    BY <1>2 DEF JobFails
  <2>2. JobsInv'
    BY <1>1, <2>1, NoJobOK, JobSet DEF SummaryInv, NoJob, AfterWrite, Owing
  <2> QED BY <1>1, <2>2 DEF SummaryInv, TablesInv
<1>3. ASSUME NEW S \in SUBSET Employees, CheckBlockers(w, S)
      PROVE  SummaryInv' /\ SummaryMoves
  <2> DEFINE j == [step |-> "lock", scope |-> S]
  <2>1. job' = [job EXCEPT ![w] = j]
    BY <1>3 DEF CheckBlockers
  <2>2. JobOK(j) /\ j.step \notin AfterWrite
    BY DEF JobOK, LockRecords, AfterWrite, Owing
  <2>3. JobsInv'
    <3> HIDE DEF j
    <3> QED BY <1>1, <2>1, <2>2, JobSet DEF SummaryInv
  <2> QED BY <1>1, <2>3 DEF SummaryInv, TablesInv
<1> QED BY <1>2, <1>3

LEMMA StepLockApproved ==
  ASSUME SummaryInv, NEW w \in Workers, LockApproved(w)
  PROVE  SummaryInv' /\ SummaryMoves
<1> DEFINE locked(e) == [summary[e] EXCEPT !.status = "payroll_locked"]
<1>1. ASSUME NEW e \in Employees
      PROVE  \/ summary'[e] = summary[e]
             \/ summary[e].status = "approved" /\ summary'[e] = locked(e)
  BY DEF LockApproved
<1>2. ASSUME NEW e \in Employees
      PROVE  Filled(summary'[e])
  <2>1. Filled(summary[e])
    BY DEF SummaryInv, TablesInv
  <2>2. summary[e].status = "approved" => Filled(locked(e))
    BY <2>1 DEF Filled, SummaryRows, SummaryStatuses, Frozen
  <2> QED BY <1>1, <2>1, <2>2
<1>3. SummaryMoves
  BY <1>1 DEF SummaryInv, TablesInv, Filled, SummaryRows, SummaryMoves
<1>4. TablesInv'
  BY <1>2 DEF SummaryInv, TablesInv, LockApproved
<1>5. JobsInv'
  BY <1>3, NoJobOK, JobSet DEF SummaryInv, LockApproved, NoJob, AfterWrite, Owing
<1> QED BY <1>3, <1>4, <1>5 DEF SummaryInv

\* A review: what is there stays there, with its figures.
LEMMA Reviewed ==
  ASSUME SummaryInv, NEW e \in Employees, NEW from, NEW to \in SummaryStatuses,
         to \notin {"absent", "payroll_processed"}, "absent" \notin from, Review(e, from, to),
         reviewed' \in [Employees -> Figures \cup {Unreviewed}]
  PROVE  SummaryInv' /\ SummaryMoves
<1> DEFINE row == [summary[e] EXCEPT !.status = to]
<1>1. Filled(summary[e]) /\ summary[e].status # "absent"
  BY DEF SummaryInv, TablesInv, Review
<1>2. Filled(row) /\ row.status = to
  BY <1>1 DEF Filled, SummaryRows
<1>3. summary' = [summary EXCEPT ![e] = row] /\ UNCHANGED <<versions, job>>
  BY DEF Review
<1>4. SummaryMoves
  <2> HIDE DEF row
  <2> QED BY <1>2, <1>3 DEF SummaryInv, TablesInv, SummaryMoves
<1>5. TablesInv'
  <2> HIDE DEF row
  <2> QED BY <1>2, <1>3 DEF SummaryInv, TablesInv
<1>6. JobsInv'
  BY <1>3, <1>4, JobsKept DEF SummaryInv
<1> QED BY <1>4, <1>5, <1>6 DEF SummaryInv

LEMMA StepReview ==
  ASSUME SummaryInv, NEW e \in Employees, ReviewStep(e)
  PROVE  SummaryInv' /\ SummaryMoves
<1>1. {"approved", "rejected", "draft", "cancelled"} \subseteq SummaryStatuses
  BY DEF SummaryStatuses
<1>2. reviewed \in [Employees -> Figures \cup {Unreviewed}]
  BY DEF SummaryInv, TablesInv
<1>3. CASE ApproveSummary(e)
  <2>1. summary[e].status = "pending_review"
    BY <1>3 DEF ApproveSummary, Review
  <2>2. summary[e].figures \in Figures
    BY <2>1 DEF SummaryInv, TablesInv, Filled
  <2>3. reviewed' \in [Employees -> Figures \cup {Unreviewed}]
    BY <1>2, <1>3, <2>2 DEF ApproveSummary
  <2> QED BY <1>1, <1>3, <2>3, Reviewed DEF ApproveSummary
<1>4. CASE UnlockSummary(e)
  BY <1>1, <1>2, <1>4, Reviewed DEF UnlockSummary
<1>5. CASE RejectSummary(e)
  BY <1>1, <1>2, <1>5, Reviewed DEF RejectSummary
<1>6. CASE RequestCorrection(e)
  BY <1>1, <1>2, <1>6, Reviewed DEF RequestCorrection
<1>7. CASE CancelSummary(e)
  <2>1. "absent" \notin SummaryStatuses \ (Frozen \cup {"absent"})
    OBVIOUS
  <2> QED BY <1>1, <1>2, <1>7, <2>1, Reviewed DEF CancelSummary
<1> QED BY <1>3, <1>4, <1>5, <1>6, <1>7 DEF ReviewStep

LEMMA SummaryStep ==
  ASSUME SummaryInv, SummaryNext
  PROVE  SummaryInv' /\ SummaryMoves
<1>1. ASSUME NEW w \in Workers, StartJob(w)
      PROVE  SummaryInv' /\ SummaryMoves
  BY <1>1, StepBeginJob, StepIdle DEF StartJob
<1>2. ASSUME NEW w \in Workers, WorkerStep(w)
      PROVE  SummaryInv' /\ SummaryMoves
  BY <1>2, StepReadSummary, StepComputeFigures, StepWriteSummary, StepWriteAdjustment,
     StepWriteVersion, StepMarkRecomputed, StepLockApproved, StepIdle DEF WorkerStep
<1> QED BY <1>1, <1>2, StepReview DEF SummaryNext
-----------------------------------------------------------------------------
(* The history.                                                             *)

\* The history grows, and whoever owes it a row goes on to write it.
Grows(V, W, J, K) ==
  /\ \A e \in Employees : V[e] \subseteq W[e]
  /\ \A w \in Workers : J[w].step \in Owing /\ J[w].emp \in Employees =>
       K[w] = J[w] \/ <<J[w].copy.version, J[w].copy.figures>> \in W[J[w].emp]

LEMMA KnownStays ==
  ASSUME NEW V, NEW W, NEW J, NEW K, Grows(V, W, J, K),
         NEW e \in Employees, NEW row, Known(V, J, e, row)
  PROVE  Known(W, K, e, row)
<1> SUFFICES ASSUME row.status # "absent"
             PROVE  Kept(W, e, row) \/ \E w \in Workers : Owed(K[w], e, row)
  BY DEF Known
<1>1. CASE Kept(V, e, row)
  BY <1>1 DEF Grows, Kept
<1>2. ASSUME NEW w \in Workers, Owed(J[w], e, row)
      PROVE  Kept(W, e, row) \/ Owed(K[w], e, row)
  <2>1. K[w] = J[w] \/ <<J[w].copy.version, J[w].copy.figures>> \in W[e]
    BY <1>2 DEF Owed, Grows
  <2>2. ASSUME <<J[w].copy.version, J[w].copy.figures>> \in W[e] PROVE Kept(W, e, row)
    <3>1. PICK v \in W[e] : v = <<J[w].copy.version, J[w].copy.figures>>
      BY <2>2
    <3>2. v[1] = J[w].copy.version /\ v[2] = J[w].copy.figures
      BY <3>1
    <3> QED BY <1>2, <3>2 DEF Owed, Kept
  <2> QED BY <1>2, <2>1, <2>2
<1> QED BY <1>1, <1>2 DEF Known

\* What is known of one row is known of another with its version and figures.
LEMMA KnownSame ==
  ASSUME NEW V, NEW J, NEW e, NEW x, NEW y, Known(V, J, e, x), x.status # "absent",
         y.version = x.version, Compared[y.figures] = Compared[x.figures]
  PROVE  Known(V, J, e, y)
BY DEF Known, Kept, Owed

\* A worker that owes the version row of a row.
LEMMA KnownOwed ==
  ASSUME NEW V, NEW J, NEW w \in Workers, J[w].step \in Owing
  PROVE  Known(V, J, J[w].emp, J[w].copy)
BY DEF Known, Owed

\* Enough for a step to keep the history complete.
LEMMA HistorySet ==
  ASSUME HistoryInv, Grows(versions, versions', job, job'),
         \A e \in Employees : Known(versions, job, e, payslip'[e]),
         \A e \in Employees : \/ Known(versions, job, e, summary'[e])
                              \/ Known(versions', job', e, summary'[e]),
         \A w \in Workers : job'[w].step \in {"figures", "write"} =>
           job'[w].emp \in Employees /\ Known(versions, job, job'[w].emp, job'[w].copy)
  PROVE  HistoryInv'
<1>1. \A e \in Employees : Known(versions', job', e, summary'[e])
  BY KnownStays
<1>2. \A e \in Employees : Known(versions', job', e, payslip'[e])
  BY KnownStays
<1>3. \A w \in Workers : job'[w].step \in {"figures", "write"} =>
        Known(versions', job', job'[w].emp, job'[w].copy)
  BY KnownStays
<1> QED BY <1>1, <1>2, <1>3 DEF HistoryInv

\* What is written back is an employee's.
LEMMA JobOfEmployee ==
  ASSUME SummaryInv, NEW w \in Workers, job[w].step \notin {"idle", "lock"}
  PROVE  job[w].emp \in Employees
BY JobKind DEF SummaryInv, JobsInv

\* Steps of a worker that does not owe a version row.
LEMMA OneMoves ==
  ASSUME SummaryInv, NEW w \in Workers, NEW j, job[w].step \notin Owing,
         job' = [job EXCEPT ![w] = j], UNCHANGED versions
  PROVE  Grows(versions, versions', job, job')
BY DEF SummaryInv, JobsInv, Grows

\* The other workers remember what they did.
LEMMA CopiesKept ==
  ASSUME SummaryInv, HistoryInv, NEW w \in Workers, NEW j, job' = [job EXCEPT ![w] = j],
         j.step \in {"figures", "write"} => j.emp \in Employees /\ Known(versions, job, j.emp, j.copy)
  PROVE  \A v \in Workers : job'[v].step \in {"figures", "write"} =>
           job'[v].emp \in Employees /\ Known(versions, job, job'[v].emp, job'[v].copy)
<1> SUFFICES ASSUME NEW v \in Workers, job'[v].step \in {"figures", "write"}
             PROVE  job'[v].emp \in Employees /\ Known(versions, job, job'[v].emp, job'[v].copy)
  OBVIOUS
<1>1. CASE v = w
  BY <1>1 DEF SummaryInv, JobsInv
<1>2. CASE v # w
  <2>1. job'[v] = job[v]
    BY <1>2 DEF SummaryInv, JobsInv
  <2>2. job[v].emp \in Employees
    BY <2>1, JobOfEmployee
  <2> QED BY <2>1, <2>2 DEF HistoryInv
<1> QED BY <1>1, <1>2

\* A worker moves on, and writes nothing.
LEMMA HistoryMoved ==
  ASSUME SummaryInv, HistoryInv, NEW w \in Workers, NEW j, job[w].step \notin Owing,
         job' = [job EXCEPT ![w] = j], UNCHANGED <<versions, summary, payslip>>,
         j.step \in {"figures", "write"} => j.emp \in Employees /\ Known(versions, job, j.emp, j.copy)
  PROVE  HistoryInv'
<1>1. Grows(versions, versions', job, job')
  BY OneMoves
<1>2. \A v \in Workers : job'[v].step \in {"figures", "write"} =>
        job'[v].emp \in Employees /\ Known(versions, job, job'[v].emp, job'[v].copy)
  BY CopiesKept
<1> QED BY <1>1, <1>2, HistorySet DEF HistoryInv

\* A worker writes a summary whose version row it owes now.
LEMMA HistoryWrote ==
  ASSUME SummaryInv, HistoryInv, NEW w \in Workers, job[w] \in JobRecords,
         job[w].step \notin Owing, NEW row, NEW step \in Owing, Wrote(w, row, step),
         UNCHANGED <<versions, payslip>>
  PROVE  HistoryInv'
<1> DEFINE j == After(job[w], step, row)
<1>1. job' = [job EXCEPT ![w] = j] /\ j.step = step /\ j.emp = job[w].emp /\ j.copy = row
  BY DEF Wrote, NewJob, After, Owing
<1> HIDE DEF j
<1>2. Grows(versions, versions', job, job')
  BY <1>1, OneMoves
<1>3. \A v \in Workers : job'[v].step \in {"figures", "write"} =>
        job'[v].emp \in Employees /\ Known(versions, job, job'[v].emp, job'[v].copy)
  BY <1>1, CopiesKept DEF Owing
<1>4. Known(versions', job', job[w].emp, row)
  <2>1. job'[w] = j
    BY <1>1 DEF SummaryInv, JobsInv
  <2> QED BY <1>1, <2>1, KnownOwed
<1>5. \A e \in Employees : summary'[e] = IF e = job[w].emp THEN row ELSE summary[e]
  <2>1. summary' = [summary EXCEPT ![job[w].emp] = row]
    BY DEF Wrote
  <2> QED BY <2>1 DEF SummaryInv, TablesInv
<1> QED BY <1>2, <1>3, <1>4, <1>5, HistorySet DEF HistoryInv

\* A summary is written with figures that are known already.
LEMMA HistoryKnown ==
  ASSUME SummaryInv, HistoryInv, NEW w \in Workers, NEW j, job[w].step \notin Owing,
         job' = [job EXCEPT ![w] = j], j.step \notin {"figures", "write"},
         \A e \in Employees : Known(versions, job, e, summary'[e]),
         UNCHANGED <<versions, payslip>>
  PROVE  HistoryInv'
<1>1. Grows(versions, versions', job, job')
  BY OneMoves
<1>2. \A v \in Workers : job'[v].step \in {"figures", "write"} =>
        job'[v].emp \in Employees /\ Known(versions, job, job'[v].emp, job'[v].copy)
  BY CopiesKept
<1> QED BY <1>1, <1>2, HistorySet DEF HistoryInv

LEMMA HistoryBegin ==
  ASSUME SummaryInv, HistoryInv, UNCHANGED payslip, NEW w \in Workers,
         (\E op \in Jobs \ {"lock"}, e \in Employees : BeginJob(w, op, e))
           \/ ReadSummary(w) \/ (\E S \in SUBSET Employees : CheckBlockers(w, S))
  PROVE  HistoryInv'
<1> DEFINE j(step, op, e, row) == [step |-> step, op |-> op, emp |-> e, copy |-> row,
                                   figures |-> NoFigures]
<1>1. ASSUME NEW op, NEW e \in Employees, BeginJob(w, op, e)
      PROVE  HistoryInv'
  <2> DEFINE k == j(IF op = "adjust" THEN "write" ELSE "read", op, e, AbsentRow)
  <2>1. job' = [job EXCEPT ![w] = k] /\ UNCHANGED <<versions, summary>>
    BY <1>1 DEF BeginJob, NewJob
  <2>2. job[w].step \notin Owing
    BY <1>1 DEF BeginJob, NoJob, Owing
  <2>3. k.emp = e /\ Known(versions, job, e, k.copy)
    BY DEF Known, AbsentRow
  <2> HIDE DEF k
  <2> QED BY <2>1, <2>2, <2>3, HistoryMoved
<1>2. CASE ReadSummary(w)
  <2> DEFINE e == job[w].emp
  <2>1. e \in Employees /\ job[w].step \notin Owing /\ UNCHANGED <<versions, summary>>
    BY <1>2, JobOfEmployee DEF ReadSummary, Owing
  <2>2. PICK k : /\ job' = [job EXCEPT ![w] = k]
                 /\ \/ k = NoJob
                    \/ \E op : k = j("figures", op, e, summary[e])
                    \/ \E op : k = j("mark", op, e, AbsentRow)
    BY <1>2 DEF ReadSummary, NewJob
  <2>3. k.step \in {"figures", "write"} => k.emp = e /\ k.copy = summary[e]
    BY <2>2 DEF NoJob
  <2> QED BY <2>1, <2>2, <2>3, HistoryMoved DEF HistoryInv
<1>3. ASSUME NEW S \in SUBSET Employees, CheckBlockers(w, S)
      PROVE  HistoryInv'
  <2> DEFINE k == [step |-> "lock", scope |-> S]
  <2>1. job' = [job EXCEPT ![w] = k] /\ UNCHANGED <<versions, summary>>
    BY <1>3 DEF CheckBlockers
  <2>2. job[w].step \notin Owing
    BY <1>3 DEF CheckBlockers, NoJob, Owing
  <2>3. k.step = "lock"
    OBVIOUS
  <2> HIDE DEF k
  <2> QED BY <2>1, <2>2, <2>3, HistoryMoved
<1> QED BY <1>1, <1>2, <1>3

LEMMA HistoryComputeFigures ==
  ASSUME SummaryInv, HistoryInv, UNCHANGED payslip, NEW w \in Workers, ComputeFigures(w)
  PROVE  HistoryInv'
<1> PICK f \in Figures : job' = [job EXCEPT ![w].step = "write", ![w].figures = f]
  BY DEF ComputeFigures
<1> DEFINE k == [job[w] EXCEPT !.step = "write", !.figures = f]
<1>1. job[w] \in JobRecords /\ job[w].emp \in Employees /\ job[w].step = "figures"
  BY JobKind DEF ComputeFigures, SummaryInv, JobsInv
<1>2. job' = [job EXCEPT ![w] = k] /\ UNCHANGED <<versions, summary>>
  BY DEF ComputeFigures
<1>3. k.emp = job[w].emp /\ k.copy = job[w].copy
  BY <1>1 DEF JobRecords
<1>4. job[w].step \notin Owing
  BY <1>1 DEF Owing
<1> HIDE DEF k
<1> QED BY <1>1, <1>2, <1>3, <1>4, HistoryMoved DEF HistoryInv

LEMMA HistoryWriteSummary ==
  ASSUME SummaryInv, HistoryInv, UNCHANGED payslip, NEW w \in Workers, WriteSummary(w)
  PROVE  HistoryInv'
<1> DEFINE row == Upserted(job[w])
           e == job[w].emp
<1>1. /\ job[w] \in JobRecords /\ e \in Employees /\ job[w].step = "write"
      /\ job[w].step \notin Owing /\ UNCHANGED versions
  BY WriteSummaryCases DEF Owing
<1>2. CASE Wrote(w, row, "version")
  <2> HIDE DEF row
  <2> QED BY <1>1, <1>2, HistoryWrote DEF Owing
<1>3. CASE ~Changed(job[w])
  <2>1. Known(versions, job, e, row)
    <3>1. /\ row.version = job[w].copy.version /\ Compared[row.figures] = Compared[job[w].copy.figures]
          /\ job[w].copy.status # "absent"
      BY <1>3, WriteSummaryCases, UpsertedOK
    <3>2. Known(versions, job, e, job[w].copy)
      BY <1>1 DEF HistoryInv
    <3> HIDE DEF row
    <3> QED BY <3>1, <3>2, KnownSame
  <2> HIDE DEF row
  <2>2. summary' = [summary EXCEPT ![e] = row] => \A d \in Employees : Known(versions, job, d, summary'[d])
    BY <2>1 DEF HistoryInv, SummaryInv, TablesInv
  <2>3. CASE Wrote(w, row, "mark")
    <3> DEFINE k == After(job[w], "mark", row)
    <3>1. job' = [job EXCEPT ![w] = k] /\ k.step = "mark" /\ summary' = [summary EXCEPT ![e] = row]
      BY <1>1, <2>3 DEF Wrote, NewJob, After
    <3> HIDE DEF k
    <3> QED BY <1>1, <2>2, <3>1, HistoryKnown
  <2>4. CASE summary' = [summary EXCEPT ![e] = row] /\ job' = [job EXCEPT ![w] = NoJob]
    <3>1. NoJob.step \notin {"figures", "write"}
      BY DEF NoJob
    <3> QED BY <1>1, <2>2, <2>4, <3>1, HistoryKnown
  <2> QED BY <1>2, <2>3, <2>4, WriteSummaryCases DEF row
<1> QED BY <1>2, <1>3, WriteSummaryCases

LEMMA HistoryAdjusted ==
  ASSUME SummaryInv, HistoryInv, UNCHANGED payslip, NEW w \in Workers,
         WriteAdjustment(w) \/ MarkRecomputed(w)
  PROVE  HistoryInv'
<1>1. job[w] \in JobRecords /\ job[w].step \notin Owing /\ UNCHANGED versions
  BY JobKind DEF WriteAdjustment, MarkRecomputed, SummaryInv, JobsInv, Owing
<1>2. PICK row : Wrote(w, row, "last_version")
  BY DEF WriteAdjustment, MarkRecomputed
<1> QED BY <1>1, <1>2, HistoryWrote DEF Owing

LEMMA HistoryWriteVersion ==
  ASSUME SummaryInv, HistoryInv, UNCHANGED payslip, NEW w \in Workers, WriteVersion(w)
  PROVE  HistoryInv'
<1> DEFINE j == job[w]
           pair == <<j.copy.version, j.copy.figures>>
<1>1. j \in JobRecords /\ j.emp \in Employees
  BY JobKind DEF WriteVersion, SummaryInv, JobsInv
<1>2. /\ versions' = [versions EXCEPT ![j.emp] = @ \cup {pair}]
      /\ UNCHANGED summary
  BY DEF WriteVersion
<1>3. PICK k : job' = [job EXCEPT ![w] = k] /\ k.step \notin {"figures", "write"}
  <2>1. CASE j.step = "version" /\ j.op = "recompute"
    <3> DEFINE k == After(j, "mark", AbsentRow)
    <3>1. job' = [job EXCEPT ![w] = k]
      BY <2>1 DEF WriteVersion, NewJob, After
    <3>2. k.step = "mark"
      BY DEF After
    <3> HIDE DEF k
    <3> QED BY <3>1, <3>2
  <2>2. CASE ~(j.step = "version" /\ j.op = "recompute")
    <3>1. job' = [job EXCEPT ![w] = NoJob]
      BY <2>2 DEF WriteVersion
    <3>2. NoJob.step = "idle"
      BY DEF NoJob
    <3> QED BY <3>1, <3>2
  <2> QED BY <2>1, <2>2
<1>4. Grows(versions, versions', job, job')
  <2>1. \A e \in Employees : versions[e] \subseteq versions'[e]
    BY <1>2 DEF SummaryInv, TablesInv
  <2>2. pair \in versions'[j.emp]
    BY <1>1, <1>2 DEF SummaryInv, TablesInv
  <2>3. \A v \in Workers : v # w => job'[v] = job[v]
    BY <1>3 DEF SummaryInv, JobsInv
  <2> QED BY <2>1, <2>2, <2>3 DEF Grows
<1>5. \A v \in Workers : job'[v].step \in {"figures", "write"} =>
        job'[v].emp \in Employees /\ Known(versions, job, job'[v].emp, job'[v].copy)
  BY <1>3, CopiesKept
<1> QED BY <1>2, <1>4, <1>5, HistorySet DEF HistoryInv

LEMMA HistoryLockApproved ==
  ASSUME SummaryInv, HistoryInv, UNCHANGED payslip, NEW w \in Workers, LockApproved(w)
  PROVE  HistoryInv'
<1> DEFINE locked(e) == [summary[e] EXCEPT !.status = "payroll_locked"]
<1>1. ASSUME NEW e \in Employees
      PROVE  Known(versions, job, e, summary'[e])
  <2>1. \/ summary'[e] = summary[e]
        \/ summary[e].status = "approved" /\ summary'[e] = locked(e)
    BY DEF LockApproved
  <2>2. locked(e).version = summary[e].version /\ locked(e).figures = summary[e].figures
    BY DEF SummaryInv, TablesInv, Filled, SummaryRows
  <2>3. Known(versions, job, e, summary[e])
    BY DEF HistoryInv
  <2> HIDE DEF locked
  <2>4. summary[e].status = "approved" => Known(versions, job, e, locked(e))
    BY <2>2, <2>3, KnownSame
  <2> QED BY <2>1, <2>3, <2>4
<1>2. job' = [job EXCEPT ![w] = NoJob] /\ job[w].step \notin Owing /\ UNCHANGED versions
  BY DEF LockApproved, Owing
<1>3. NoJob.step \notin {"figures", "write"}
  BY DEF NoJob
<1> QED BY <1>1, <1>2, <1>3, HistoryKnown

LEMMA HistoryReview ==
  ASSUME SummaryInv, HistoryInv, UNCHANGED payslip, NEW e \in Employees,
         ReviewStep(e)
  PROVE  HistoryInv'
<1>1. UNCHANGED <<versions, job>>
  BY DEF ReviewStep, Review, ApproveSummary, UnlockSummary, RejectSummary,
         RequestCorrection, CancelSummary
<1>2. ASSUME NEW d \in Employees
      PROVE  Known(versions, job, d, summary'[d])
  <2>1. Known(versions, job, d, summary[d]) /\ summary[d] \in SummaryRows
    BY DEF HistoryInv, SummaryInv, TablesInv, Filled
  <2>3. ASSUME NEW from, NEW to, Review(e, from, to), "absent" \notin from
        PROVE  Known(versions, job, d, summary'[d])
    <3>1. /\ summary[e].status # "absent"
          /\ summary'[d] = IF d = e THEN [summary[d] EXCEPT !.status = to] ELSE summary[d]
      BY <2>3 DEF Review, SummaryInv, TablesInv
    <3>2. summary'[d].version = summary[d].version /\ summary'[d].figures = summary[d].figures
      BY <2>1, <3>1 DEF SummaryRows
    <3> QED BY <2>1, <3>1, <3>2, KnownSame
  <2> QED BY <2>3 DEF ReviewStep, ApproveSummary, UnlockSummary, RejectSummary,
         RequestCorrection, CancelSummary, Frozen
<1> QED BY <1>1, <1>2 DEF HistoryInv

LEMMA HistoryStep ==
  ASSUME SummaryInv, HistoryInv, ~CanFail, SummaryNext, UNCHANGED payslip
  PROVE  HistoryInv'
<1>1. ASSUME NEW w \in Workers, StartJob(w)
      PROVE  HistoryInv'
  BY <1>1, HistoryBegin DEF StartJob
<1>2. ASSUME NEW w \in Workers, WorkerStep(w)
      PROVE  HistoryInv'
  <2>1. ~JobFails(w)
    BY DEF JobFails
  <2> QED BY <1>2, <2>1, HistoryBegin, HistoryComputeFigures, HistoryWriteSummary, HistoryAdjusted,
       HistoryWriteVersion, HistoryLockApproved DEF WorkerStep
<1> QED BY <1>1, <1>2, HistoryReview DEF SummaryNext
-----------------------------------------------------------------------------
(* The fines.                                                               *)

LEMMA FineRowsKept ==
  ASSUME FineTypeOK, NEW f \in Fines, NEW status \in FineStatuses, NEW asked \in BOOLEAN,
         fine' = [fine EXCEPT ![f] = [@ EXCEPT !.status = status, !.asked = asked]]
  PROVE  fine' \in [Fines -> FineRows]
<1>1. fine \in [Fines -> FineRows] /\ fine[f] \in FineRows
  BY DEF FineTypeOK
<1>2. [fine[f] EXCEPT !.status = status, !.asked = asked] \in FineRows
  BY <1>1 DEF FineRows
<1> QED BY <1>1, <1>2

\* A request of one of the manual operations.
FineJobs == [step : {"pay", "write"}, op : FineOps, fine : Fines]

LEMMA FineMoves ==
  ASSUME FineTypeOK, NEW open, FineStep(open)
  PROVE  FineTypeOK'
<1>1. ASSUME NEW f \in Fines, CreateFine(f)
      PROVE  FineTypeOK'
  <2>1. fine' = [fine EXCEPT ![f] = [@ EXCEPT !.status = "pending_approval", !.asked = TRUE]]
    BY <1>1 DEF CreateFine
  <2> QED BY <1>1, <2>1, FineRowsKept DEF CreateFine, FineTypeOK, FineStatuses
<1>2. ASSUME NEW f \in Fines, NEW v \in {"approved", "rejected"}, DecideFine(f, v)
      PROVE  FineTypeOK'
  <2>1. fine' = [fine EXCEPT ![f] = [@ EXCEPT !.status = v, !.asked = FALSE]]
    BY <1>2 DEF DecideFine
  <2> QED BY <1>2, <2>1, FineRowsKept DEF DecideFine, FineTypeOK, FineStatuses
<1>3. ASSUME NEW f \in Fines, VerifyPayment(f)
      PROVE  FineTypeOK'
  <2>1. /\ payments' = [payments EXCEPT ![f] = @ \ {"manual_pending"}]
        /\ UNCHANGED <<fine, fineJob>>
    BY <1>3 DEF VerifyPayment
  <2>2. payments' \in [Fines -> SUBSET Payments]
    BY <2>1 DEF FineTypeOK, Payments
  <2> QED BY <2>1, <2>2 DEF FineTypeOK
<1>4. ASSUME NEW f \in Fines, NEW w \in FineWorkers, NEW op \in FineOps,
             BeginFineJob(w, op, f, open)
      PROVE  FineTypeOK'
  <2> DEFINE j == [step |-> IF op = "cancel" THEN "write" ELSE "pay", op |-> op, fine |-> f]
  <2>1. j \in FineJobs
    BY DEF FineJobs
  <2>2. fineJob' = [fineJob EXCEPT ![w] = j] /\ UNCHANGED <<fine, payments>>
    BY <1>4 DEF BeginFineJob
  <2> HIDE DEF j
  <2> QED BY <2>1, <2>2 DEF FineTypeOK, FineJobs
<1>5. ASSUME NEW w \in FineWorkers, InsertPayment(w)
      PROVE  FineTypeOK'
  <2> DEFINE j == fineJob[w]
             k == [j EXCEPT !.step = "write"]
  <2>1. j \in FineJobs
    BY <1>5 DEF InsertPayment, FineTypeOK, FineIdle, FineJobs
  <2>2. k \in FineJobs
    BY <2>1 DEF FineJobs
  <2>3. PICK kind \in {"waiver", "manual_pending"} :
          payments' = [payments EXCEPT ![j.fine] = @ \cup {kind}]
    BY <1>5 DEF InsertPayment
  <2>4. payments' \in [Fines -> SUBSET Payments]
    BY <2>3 DEF FineTypeOK, Payments
  <2>5. fineJob' = [fineJob EXCEPT ![w] = k] /\ UNCHANGED fine
    BY <1>5 DEF InsertPayment
  <2> HIDE DEF k
  <2> QED BY <2>2, <2>4, <2>5 DEF FineTypeOK, FineJobs
<1>6. ASSUME NEW w \in FineWorkers, WriteFine(w)
      PROVE  FineTypeOK'
  <2> DEFINE j == fineJob[w]
  <2>1. j \in FineJobs
    BY <1>6 DEF WriteFine, FineTypeOK, FineIdle, FineJobs
  <2>2. j.fine \in Fines /\ Result(j.op) \in FineStatuses
    BY <2>1 DEF FineJobs, FineOps, Result, FineStatuses
  <2>3. fine[j.fine] \in FineRows
    BY <2>2 DEF FineTypeOK
  <2>4. [fine[j.fine] EXCEPT !.status = Result(j.op)] \in FineRows
    BY <2>2, <2>3 DEF FineRows
  <2>5. /\ fine' = [fine EXCEPT ![j.fine] = [fine[j.fine] EXCEPT !.status = Result(j.op)]]
        /\ fineJob' = [fineJob EXCEPT ![w] = FineIdle] /\ UNCHANGED payments
    BY <1>6 DEF WriteFine
  <2> QED BY <2>4, <2>5 DEF FineTypeOK
<1>7. ASSUME NEW w \in FineWorkers, FineJobFails(w)
      PROVE  FineTypeOK'
  BY <1>7 DEF FineJobFails, FineTypeOK
<1> QED BY <1>1, <1>2, <1>3, <1>4, <1>5, <1>6, <1>7 DEF FineStep
-----------------------------------------------------------------------------
(* The steps of the runs.                                                   *)

\* What the steps of a run leave alone.
LEMMA Untouched ==
  ASSUME SummaryInv, UNCHANGED summaryVars
  PROVE  SummaryInv'
BY DEF SummaryInv, TablesInv, JobsInv, summaryVars

LEMMA HistoryUntouched ==
  ASSUME HistoryInv, UNCHANGED <<versions, job>>,
         \A e \in Employees : Known(versions, job, e, summary'[e]),
         \A e \in Employees : Known(versions, job, e, payslip'[e])
  PROVE  HistoryInv'
BY DEF HistoryInv

\* A run goes on with its transaction, or gives it up.
LEMMA GenerationSet ==
  ASSUME RunInv, NEW r \in Runs, NEW g \in Generations,
         generation' = [generation EXCEPT ![r] = g],
         g.step # "none" => run[r] # "processed",
         \A e \in g.loaded : summary[e].status # "absent",
         UNCHANGED <<summary, run, payslip, backing>>
  PROVE  RunInv'
<1>1. generation \in [Runs -> Generations] /\ generation' \in [Runs -> Generations]
  BY DEF RunInv
<1>2. \A q \in Runs : Generating(q)' => run'[q] # "processed"
  BY <1>1 DEF RunInv, Generating
<1>3. \A q \in Runs : \A e \in generation'[q].loaded : summary'[e].status # "absent"
  BY <1>1 DEF RunInv
<1> QED BY <1>1, <1>2, <1>3 DEF RunInv, ProcessedRunClosed, ProcessedTogether

LEMMA NoGenerationOK == NoGeneration \in Generations /\ NoGeneration.step = "none" /\ NoGeneration.loaded = {}
BY DEF NoGeneration, Generations

LEMMA RunGenerating ==
  ASSUME RunInv, NEW r \in Runs,
         BeginGeneration(r) \/ LoadSummaries(r) \/ LoadFines(r) \/ GenerationFails(r)
  PROVE  RunInv' /\ UNCHANGED <<summaryVars, fineVars, payslip>>
<1>1. UNCHANGED <<summary, run, payslip, backing>> /\ UNCHANGED <<summaryVars, fineVars, payslip>>
  BY DEF BeginGeneration, OpenGeneration, LoadSummaries, LoadFines, GenerationFails, summaryVars
<1>2. generation[r] \in Generations
  BY DEF RunInv
<1>3. CASE BeginGeneration(r)
  <2> DEFINE reset == {f \in Fines : /\ fine[f].linked /\ Owner[f] \in Scope[r]
                                     /\ payslip[Owner[f]].status = "draft"}
             g == [step |-> "summaries", reset |-> reset, loaded |-> {}, fines |-> {}]
  <2>1. generation' = [generation EXCEPT ![r] = g] /\ run[r] # "processed"
    BY <1>3 DEF BeginGeneration, OpenGeneration
  <2>2. g \in Generations /\ g.loaded = {}
    BY DEF Generations
  <2> HIDE DEF g
  <2> QED BY <1>1, <2>1, <2>2, GenerationSet
<1>4. CASE LoadSummaries(r)
  <2> DEFINE locked == {e \in Scope[r] : summary[e].status = "payroll_locked"}
             g == IF locked = {} THEN NoGeneration
                  ELSE [generation[r] EXCEPT !.step = "fines", !.loaded = locked]
  <2>1. generation' = [generation EXCEPT ![r] = g] /\ run[r] # "processed"
    BY <1>4 DEF LoadSummaries, RunInv, Generating
  <2>2. locked \subseteq Employees
    BY PayrollAssumption
  <2>3. g \in Generations /\ \A e \in g.loaded : summary[e].status # "absent"
    BY <1>2, <2>2, NoGenerationOK DEF Generations
  <2> HIDE DEF g
  <2> QED BY <1>1, <2>1, <2>3, GenerationSet
<1>5. CASE LoadFines(r)
  <2> DEFINE seen == {f \in FineScope[r] : fine[f].status = "approved" \/ f \in generation[r].reset}
             g == [generation[r] EXCEPT !.step = "commit", !.fines = seen]
  <2>1. generation' = [generation EXCEPT ![r] = g] /\ run[r] # "processed"
    BY <1>5 DEF LoadFines, RunInv, Generating
  <2>2. seen \subseteq Fines
    BY PayrollAssumption
  <2>3. g \in Generations /\ g.loaded = generation[r].loaded
    BY <1>2, <2>2 DEF Generations
  <2>4. \A e \in g.loaded : summary[e].status # "absent"
    BY <2>3 DEF RunInv
  <2> HIDE DEF g
  <2> QED BY <1>1, <2>1, <2>3, <2>4, GenerationSet
<1>6. CASE GenerationFails(r)
  BY <1>1, <1>6, NoGenerationOK, GenerationSet DEF GenerationFails
<1> QED BY <1>1, <1>3, <1>4, <1>5, <1>6

LEMMA RunCreated ==
  ASSUME RunInv, NEW r \in Runs, CreateRun(r)
  PROVE  RunInv' /\ UNCHANGED <<summaryVars, fineVars, payslip>>
<1>1. /\ run' = [run EXCEPT ![r] = "draft"]
      /\ UNCHANGED <<summaryVars, fineVars, payslip, backing, generation>>
  BY DEF CreateRun
<1>2. run' \in [Runs -> {"absent", "draft", "processed"}]
  BY <1>1 DEF RunInv
<1>3. \A q \in Runs : run'[q] = "processed" => run[q] = "processed"
  BY <1>1 DEF RunInv
<1>4. ProcessedRunClosed'
  BY <1>1, <1>3 DEF RunInv, ProcessedRunClosed
<1>5. ProcessedTogether'
  BY <1>1 DEF RunInv, ProcessedTogether, summaryVars
<1> QED BY <1>1, <1>2, <1>3, <1>4, <1>5 DEF RunInv, Generating, summaryVars

\* The payslips that a generation writes.
LEMMA NewPayslipOK ==
  ASSUME SummaryInv, RunInv, NEW r \in Runs, NEW e \in Employees
  PROVE  /\ NewPayslip(r, e) \in PayslipRows
         /\ NewPayslip(r, e).status = "draft" /\ NewPayslip(r, e).run = r
         /\ NewPayslip(r, e).version = summary[e].version
         /\ NewPayslip(r, e).figures = summary[e].figures
<1>1. summary[e].version \in 0..MaxVersion /\ summary[e].figures \in Figures \cup {NoFigures}
  BY DEF SummaryInv, TablesInv, Filled, SummaryRows
<1>2. FinesOf(r, e) \subseteq Fines
  BY DEF FinesOf, RunInv, Generations
<1> QED BY <1>1, <1>2 DEF NewPayslip, PayslipRows, PaidFigures

LEMMA RunCommitted ==
  ASSUME SummaryInv, FineTypeOK, RunInv, NEW r \in Runs, CommitGeneration(r)
  PROVE  /\ RunInv' /\ FineTypeOK' /\ UNCHANGED summaryVars
         /\ \A e \in Employees :
              \/ payslip'[e] = payslip[e]
              \/ /\ payslip[e].status # "processed" /\ summary[e].status # "absent"
                 /\ payslip'[e] = NewPayslip(r, e)
<1>1. PICK paid \in SUBSET generation[r].loaded :
        LET written == {e \in paid : Replaceable(e)}
            reset   == generation[r].reset
            charged == {f \in generation[r].fines : Owner[f] \in Written(paid)}
        IN
        /\ run' = [run EXCEPT ![r] = IF @ = "absent" THEN "draft" ELSE @]
        /\ payslip' = [e \in Employees |-> IF e \in written THEN NewPayslip(r, e) ELSE payslip[e]]
        /\ backing' = [e \in Employees |-> IF e \in written THEN r ELSE backing[e]]
        /\ fine' = [f \in Fines |->
             IF f \in charged THEN [fine[f] EXCEPT !.status = "payroll_deducted", !.linked = TRUE]
             ELSE IF f \in reset THEN [fine[f] EXCEPT !.status = "approved", !.linked = FALSE]
             ELSE fine[f]]
        /\ payments' = [f \in Fines |-> PaymentsAfter(f, reset, charged)]
        /\ generation' = [generation EXCEPT ![r] = NoGeneration]
        /\ UNCHANGED <<summaryVars, fineJob>>
  BY DEF CommitGeneration
<1> DEFINE written == {e \in paid : Replaceable(e)}
           reset   == generation[r].reset
           charged == {f \in generation[r].fines : Owner[f] \in Written(paid)}
<1>2. /\ generation \in [Runs -> Generations] /\ run[r] # "processed"
      /\ \A e \in written : /\ payslip[e].status \in {"absent", "draft"}
                            /\ summary[e].status # "absent"
  BY DEF CommitGeneration, RunInv, Generating, Replaceable
<1>3. \A e \in Employees : payslip'[e] = IF e \in written THEN NewPayslip(r, e) ELSE payslip[e]
  BY <1>1
<1>4. UNCHANGED summaryVars
  BY <1>1
<1>5. FineTypeOK'
  <2>1. ASSUME NEW f \in Fines
        PROVE  fine'[f] \in FineRows /\ payments'[f] \subseteq Payments
    <3>1. /\ fine'[f] = IF f \in charged THEN [fine[f] EXCEPT !.status = "payroll_deducted", !.linked = TRUE]
                        ELSE IF f \in reset THEN [fine[f] EXCEPT !.status = "approved", !.linked = FALSE]
                        ELSE fine[f]
          /\ payments'[f] = PaymentsAfter(f, reset, charged)
      BY <1>1
    <3>2. fine[f] \in FineRows /\ payments[f] \subseteq Payments
      BY DEF FineTypeOK
    <3>3. fine'[f] \in FineRows
      <4> HIDE DEF charged, reset
      <4> QED BY <3>1, <3>2 DEF FineRows, FineStatuses
    <3> QED BY <3>1, <3>2, <3>3 DEF PaymentsAfter, Payments
  <2>2. /\ fine' = [f \in Fines |-> fine'[f]] /\ payments' = [f \in Fines |-> payments'[f]]
        /\ UNCHANGED fineJob
    BY <1>1
  <2>3. fine' \in [Fines -> FineRows] /\ payments' \in [Fines -> SUBSET Payments]
    BY <2>1, <2>2
  <2> QED BY <2>2, <2>3 DEF FineTypeOK
<1>6. RunInv'
  <2>1. /\ run' \in [Runs -> {"absent", "draft", "processed"}]
        /\ \A q \in Runs : run'[q] = "processed" => run[q] = "processed" /\ q # r
    BY <1>1, <1>2 DEF RunInv
  <2>2. payslip' \in [Employees -> PayslipRows]
    <3>1. \A e \in Employees : payslip'[e] \in PayslipRows
      BY <1>3, NewPayslipOK DEF RunInv
    <3>2. payslip' = [e \in Employees |-> payslip'[e]]
      BY <1>1
    <3> QED BY <3>1, <3>2
  <2>3. \A e \in Employees : payslip'[e].status = "absent" => payslip'[e].run = NoRun
    BY <1>3, NewPayslipOK DEF RunInv
  <2>4. /\ backing' \in [Employees -> Runs \cup {NoRun}]
        /\ \A e \in Employees : e \notin written => backing'[e] = backing[e]
    <3> HIDE DEF written
    <3> QED BY <1>1 DEF RunInv, written
  <2>5. generation' \in [Runs -> Generations]
    BY <1>1, <1>2, NoGenerationOK
  <2>6. \A q \in Runs : generation'[q] = IF q = r THEN NoGeneration ELSE generation[q]
    BY <1>1, <1>2
  <2>7. \A q \in Runs : Generating(q)' => run'[q] # "processed"
    BY <2>1, <2>6, NoGenerationOK DEF RunInv, Generating
  <2>8. \A q \in Runs : \A e \in generation'[q].loaded : summary'[e].status # "absent"
    BY <1>4, <2>6, NoGenerationOK DEF RunInv, summaryVars
  <2>9. ProcessedRunClosed'
    BY <1>3, <2>1, NewPayslipOK DEF RunInv, ProcessedRunClosed
  <2>10. ProcessedTogether'
    BY <1>2, <1>3, <1>4, <2>4 DEF RunInv, ProcessedTogether, summaryVars
  <2> QED BY <2>1, <2>2, <2>3, <2>4, <2>5, <2>7, <2>8, <2>9, <2>10 DEF RunInv
<1> QED BY <1>2, <1>3, <1>4, <1>5, <1>6

\* What a run that is processed does to the payslips and the summaries.
ProcessMoves(r) ==
  \A e \in Employees :
    /\ payslip'[e] = IF payslip[e].run = r THEN [payslip[e] EXCEPT !.status = "processed"]
                     ELSE payslip[e]
    /\ \/ summary'[e] = summary[e] /\ backing'[e] = backing[e]
       \/ /\ summary[e].status = "payroll_locked" /\ payslip[e].run = r /\ backing'[e] = r
          /\ summary'[e] = [summary[e] EXCEPT !.status = "payroll_processed"]

LEMMA RunProcessed ==
  ASSUME SummaryInv, RunInv, NEW r \in Runs, ProcessRun(r)
  PROVE  SummaryInv' /\ RunInv' /\ ProcessMoves(r) /\ UNCHANGED <<fineVars, versions, job>>
<1>1. ProcessMoves(r)
  BY DEF ProcessRun, ProcessMoves, PaidBy
<1>2. \A e \in Employees : /\ Filled(summary[e]) /\ summary[e] \in SummaryRows
                           /\ payslip[e] \in PayslipRows /\ payslip[e].run \in Runs \cup {NoRun}
  BY DEF SummaryInv, TablesInv, RunInv, Filled, PayslipRows
<1>3. ASSUME NEW e \in Employees
      PROVE  /\ Filled(summary'[e])
             /\ (summary[e].status = "absent") <=> (summary'[e].status = "absent")
  BY <1>1, <1>2 DEF ProcessMoves, Filled, SummaryRows, SummaryStatuses, Frozen
<1>4. SummaryInv'
  <2>1. UNCHANGED <<versions, reviewed, job>> /\ summary' = [e \in Employees |-> summary'[e]]
    BY DEF ProcessRun
  <2>2. TablesInv'
    BY <1>3, <2>1 DEF SummaryInv, TablesInv
  <2>3. JobsInv'
    <3>1. \A w \in Workers : job[w].step \in AfterWrite => job[w].emp \in Employees
      BY JobOfEmployee DEF AfterWrite, Owing
    <3> QED BY <1>3, <2>1, <3>1 DEF SummaryInv, JobsInv
  <2> QED BY <2>2, <2>3 DEF SummaryInv
<1>5. /\ \A q \in Runs : run'[q] = IF q = r THEN "processed" ELSE run[q]
      /\ run' \in [Runs -> {"absent", "draft", "processed"}]
      /\ UNCHANGED generation /\ ~Generating(r)
  BY DEF ProcessRun, RunInv
<1>6. \A e \in Employees : /\ payslip'[e].run = payslip[e].run
                           /\ payslip'[e] \in PayslipRows
                           /\ payslip'[e].status = IF payslip[e].run = r THEN "processed" ELSE payslip[e].status
  <2> SUFFICES ASSUME NEW e \in Employees
               PROVE  /\ payslip'[e].run = payslip[e].run /\ payslip'[e] \in PayslipRows
                      /\ payslip'[e].status = IF payslip[e].run = r THEN "processed"
                                             ELSE payslip[e].status
    OBVIOUS
  <2> DEFINE done == [payslip[e] EXCEPT !.status = "processed"]
  <2>1. done \in PayslipRows /\ done.run = payslip[e].run /\ done.status = "processed"
    BY <1>2 DEF PayslipRows
  <2>2. payslip'[e] = IF payslip[e].run = r THEN done ELSE payslip[e]
    BY <1>1 DEF ProcessMoves
  <2> HIDE DEF done
  <2> QED BY <1>2, <2>1, <2>2
<1>7. RunInv'
  <2>1. payslip' \in [Employees -> PayslipRows]
    <3>1. payslip' = [e \in Employees |-> payslip'[e]]
      BY DEF ProcessRun
    <3> QED BY <1>6, <3>1
  <2>2. \A e \in Employees : payslip'[e].status = "absent" => payslip'[e].run = NoRun
    BY <1>6 DEF RunInv
  <2>3. backing' \in [Employees -> Runs \cup {NoRun}]
    BY DEF ProcessRun, RunInv
  <2>4. \A q \in Runs : Generating(q)' => run'[q] # "processed"
    BY <1>5 DEF RunInv, Generating
  <2>5. \A q \in Runs : \A e \in generation'[q].loaded : summary'[e].status # "absent"
    <3>1. \A q \in Runs : generation[q].loaded \subseteq Employees
      BY DEF RunInv, Generations
    <3> QED BY <1>3, <1>5, <3>1 DEF RunInv
  <2>6. ProcessedRunClosed'
    BY <1>5, <1>6 DEF RunInv, ProcessedRunClosed
  <2>7. ProcessedTogether'
    <3> SUFFICES ASSUME NEW e \in Employees, summary'[e].status = "payroll_processed"
                 PROVE  payslip'[e].status = "processed" /\ payslip'[e].run = backing'[e]
      BY DEF ProcessedTogether
    <3>1. CASE summary'[e] = summary[e] /\ backing'[e] = backing[e]
      BY <1>6, <3>1 DEF RunInv, ProcessedTogether
    <3>2. CASE payslip[e].run = r /\ backing'[e] = r
      BY <1>6, <3>2
    <3> QED BY <1>1, <3>1, <3>2 DEF ProcessMoves
  <2> QED BY <1>5, <2>1, <2>2, <2>3, <2>4, <2>5, <2>6, <2>7 DEF RunInv
<1> QED BY <1>1, <1>4, <1>7 DEF ProcessRun

\* A payslip is written over only while it is absent or a draft.
FinalKept == \A e \in Employees : payslip[e].status = "processed" => payslip'[e] = payslip[e]

LEMMA RunSteps ==
  ASSUME SummaryInv, FineTypeOK, RunInv, NEW r \in Runs, RunStep(r)
  PROVE  SummaryInv' /\ FineTypeOK' /\ RunInv' /\ FinalKept
<1>1. CASE CreateRun(r) \/ BeginGeneration(r) \/ LoadSummaries(r) \/ LoadFines(r) \/ GenerationFails(r)
  <2>1. RunInv' /\ UNCHANGED <<summaryVars, fineVars, payslip>>
    BY <1>1, RunCreated, RunGenerating
  <2> QED BY <2>1, Untouched DEF FineTypeOK, FinalKept, fineVars
<1>2. CASE CommitGeneration(r)
  <2>1. FinalKept
    BY <1>2, RunCommitted DEF FinalKept
  <2> QED BY <1>2, <2>1, RunCommitted, Untouched
<1>3. CASE ProcessRun(r)
  <2>1. SummaryInv' /\ RunInv' /\ ProcessMoves(r) /\ UNCHANGED fineVars
    BY <1>3, RunProcessed
  <2>2. \A e \in Employees : payslip[e] \in PayslipRows
    BY DEF RunInv
  <2>3. FinalKept
    <3>1. ASSUME NEW e \in Employees, payslip[e].status = "processed"
          PROVE  [payslip[e] EXCEPT !.status = "processed"] = payslip[e]
      BY <2>2, <3>1 DEF PayslipRows
    <3> QED BY <2>1, <3>1 DEF FinalKept, ProcessMoves
  <2> QED BY <2>1, <2>3 DEF FineTypeOK, fineVars
<1> QED BY <1>1, <1>2, <1>3 DEF RunStep

LEMMA RunHistory ==
  ASSUME SummaryInv, FineTypeOK, RunInv, HistoryInv, NEW r \in Runs, RunStep(r)
  PROVE  HistoryInv'
<1>1. CASE CreateRun(r) \/ BeginGeneration(r) \/ LoadSummaries(r) \/ LoadFines(r) \/ GenerationFails(r)
  <2>1. UNCHANGED <<summaryVars, payslip>>
    BY <1>1, RunCreated, RunGenerating
  <2> QED BY <2>1, HistoryUntouched DEF HistoryInv, summaryVars
<1>2. CASE CommitGeneration(r)
  <2>1. ASSUME NEW e \in Employees
        PROVE  Known(versions, job, e, payslip'[e])
    <3>1. CASE payslip'[e] = payslip[e]
      BY <3>1 DEF HistoryInv
    <3>2. CASE summary[e].status # "absent" /\ payslip'[e] = NewPayslip(r, e)
      <4>1. Known(versions, job, e, summary[e])
        BY DEF HistoryInv
      <4> QED BY <3>2, <4>1, NewPayslipOK, KnownSame
    <3> QED BY <1>2, <3>1, <3>2, RunCommitted
  <2>2. UNCHANGED summaryVars
    BY <1>2, RunCommitted
  <2> QED BY <2>1, <2>2, HistoryUntouched DEF HistoryInv, summaryVars
<1>3. CASE ProcessRun(r)
  <2>1. ProcessMoves(r) /\ UNCHANGED <<versions, job>>
    BY <1>3, RunProcessed
  <2>2. ASSUME NEW e \in Employees
        PROVE  Known(versions, job, e, summary'[e])
    <3>1. Known(versions, job, e, summary[e]) /\ summary[e] \in SummaryRows
      BY DEF HistoryInv, SummaryInv, TablesInv, Filled
    <3> DEFINE done == [summary[e] EXCEPT !.status = "payroll_processed"]
    <3>2. done.version = summary[e].version /\ done.figures = summary[e].figures
      BY <3>1 DEF SummaryRows
    <3>3. \/ summary'[e] = summary[e]
          \/ summary[e].status # "absent" /\ summary'[e] = done
      BY <2>1 DEF ProcessMoves
    <3> HIDE DEF done
    <3> QED BY <3>1, <3>2, <3>3, KnownSame
  <2>3. ASSUME NEW e \in Employees
        PROVE  Known(versions, job, e, payslip'[e])
    <3>1. /\ Known(versions, job, e, payslip[e]) /\ payslip[e] \in PayslipRows
          /\ payslip[e].status = "absent" => payslip[e].run = NoRun
      BY DEF HistoryInv, RunInv
    <3> DEFINE done == [payslip[e] EXCEPT !.status = "processed"]
    <3>2. done.version = payslip[e].version /\ done.figures = payslip[e].figures
      BY <3>1 DEF PayslipRows
    <3>3. \/ payslip'[e] = payslip[e]
          \/ payslip[e].status # "absent" /\ payslip'[e] = done
      BY <2>1, <3>1, PayrollAssumption DEF ProcessMoves
    <3> HIDE DEF done
    <3> QED BY <3>1, <3>2, <3>3, KnownSame
  <2> QED BY <2>1, <2>2, <2>3, HistoryUntouched
<1> QED BY <1>1, <1>2, <1>3 DEF RunStep
-----------------------------------------------------------------------------
(* The invariant.                                                           *)

LEMMA InvInit == PayrollInit => PayrollInv
<1> SUFFICES ASSUME PayrollInit PROVE PayrollInv
  OBVIOUS
<1>1. Filled(AbsentRow)
  BY AbsentFilled
<1>2. SummaryInv
  BY <1>1, NoJobOK DEF PayrollInit, SummaryInit, SummaryInv, TablesInv, JobsInv, NoJob, AfterWrite, Owing
<1>3. FineTypeOK
  BY DEF PayrollInit, FineInit, FineTypeOK, FineRows, FineStatuses
<1>4. RunInv
  <2>1. NoPayslip \in PayslipRows /\ NoPayslip.run = NoRun
    BY SummaryAssumption DEF NoPayslip, PayslipRows
  <2>2. \A e \in Employees : summary[e].status = "absent"
    BY DEF PayrollInit, SummaryInit, AbsentRow
  <2>3. /\ payslip \in [Employees -> PayslipRows]
        /\ \A e \in Employees : payslip[e].run = NoRun
    BY <2>1 DEF PayrollInit
  <2>4. /\ generation \in [Runs -> Generations]
        /\ \A r \in Runs : generation[r] = NoGeneration
    BY NoGenerationOK DEF PayrollInit
  <2>5. ProcessedRunClosed
    BY DEF PayrollInit, ProcessedRunClosed
  <2>6. ProcessedTogether
    BY <2>2 DEF ProcessedTogether
  <2> QED BY <2>3, <2>4, <2>5, <2>6, NoGenerationOK DEF PayrollInit, RunInv, Generating
<1>5. HistoryInv
  BY DEF PayrollInit, SummaryInit, AbsentRow, NoPayslip, NoJob, HistoryInv, Known
<1> QED BY <1>2, <1>3, <1>4, <1>5 DEF PayrollInv

LEMMA InvNext == PayrollInv /\ [PayrollNext]_payrollVars => PayrollInv' /\ FinalKept
<1> SUFFICES ASSUME PayrollInv, [PayrollNext]_payrollVars
             PROVE  PayrollInv' /\ FinalKept
  OBVIOUS
<1>1. SummaryInv /\ FineTypeOK /\ RunInv /\ (~CanFail => HistoryInv)
  BY DEF PayrollInv
<1>2. CASE SummariesMove
  <2>1. SummaryNext /\ UNCHANGED runVars /\ UNCHANGED fineVars
    BY <1>2 DEF SummariesMove
  <2>2. SummaryInv' /\ SummaryMoves
    BY <1>1, <2>1, SummaryStep
  <2>3. RunInv'
    BY <1>1, <2>1, <2>2, RunKept
  <2>4. UNCHANGED payslip /\ FineTypeOK'
    BY <1>1, <2>1 DEF runVars, fineVars, FineTypeOK
  <2>5. ~CanFail => HistoryInv'
    BY <1>1, <2>1, <2>4, HistoryStep
  <2> QED BY <2>2, <2>3, <2>4, <2>5 DEF PayrollInv, FinalKept
<1>3. CASE FinesMove \/ UNCHANGED payrollVars
  <2>1. UNCHANGED summaryVars /\ UNCHANGED runVars
    BY <1>3 DEF FinesMove, payrollVars
  <2>2. SummaryInv'
    BY <1>1, <2>1, Untouched
  <2>3. RunInv'
    BY <1>1, <2>1, RunKept, Unmoved DEF summaryVars
  <2>4. FineTypeOK'
    <3>1. CASE FinesMove
      BY <1>1, <3>1, FineMoves DEF FinesMove
    <3>2. CASE UNCHANGED payrollVars
      BY <1>1, <3>2 DEF payrollVars, fineVars, FineTypeOK
    <3> QED BY <1>3, <3>1, <3>2
  <2>5. ~CanFail => HistoryInv'
    BY <1>1, <2>1, HistoryUntouched DEF HistoryInv, summaryVars, runVars
  <2> QED BY <2>1, <2>2, <2>3, <2>4, <2>5 DEF PayrollInv, FinalKept, runVars
<1>4. ASSUME NEW r \in Runs, RunStep(r)
      PROVE  PayrollInv' /\ FinalKept
  BY <1>1, <1>4, RunSteps, RunHistory DEF PayrollInv
<1> QED BY <1>2, <1>3, <1>4 DEF PayrollNext

LEMMA InvHolds == PayrollSpec => []PayrollInv
BY InvInit, InvNext, PTL DEF PayrollSpec
-----------------------------------------------------------------------------
(* The locks.                                                               *)

\* What FrozenIsFrozen says of a step.
FrozenKept ==
  \A e \in Employees : summary[e].status \in Frozen /\ summary'[e].status \in Frozen =>
    summary'[e].figures = summary[e].figures /\ summary'[e].version = summary[e].version

\* One row is written: it says what it said, or it is left without a lock.
LEMMA FrozenRowSet ==
  ASSUME TablesInv, NEW d, NEW row, summary' = [summary EXCEPT ![d] = row],
         \/ row.status \notin Frozen
         \/ row.figures = summary[d].figures /\ row.version = summary[d].version
  PROVE  FrozenKept
BY DEF FrozenKept, TablesInv

\* What a worker writes back takes its status from a row that was not frozen.
LEMMA FrozenWrites ==
  ASSUME SummaryInv, NEW w \in Workers, WriteSummary(w) \/ WriteAdjustment(w)
  PROVE  FrozenKept
<1>1. CASE WriteSummary(w)
  <2> PICK row : row = Upserted(job[w])
    OBVIOUS
  <2>1. /\ JobOK(job[w]) /\ job[w].step = "write"
        /\ summary' = [summary EXCEPT ![job[w].emp] = row]
    BY <1>1, WriteSummaryCases DEF Wrote
  <2>2. row.status \notin Frozen
    BY <2>1, JobKind DEF Upserted, Frozen
  <2> QED BY <2>1, <2>2, FrozenRowSet DEF SummaryInv
<1>2. CASE WriteAdjustment(w)
  <2>1. PICK f \in Figures :
          Wrote(w, [status |-> "pending_review", figures |-> f,
                    version |-> summary[job[w].emp].version + 1], "last_version")
    BY <1>2 DEF WriteAdjustment
  <2> PICK row : row = [status |-> "pending_review", figures |-> f,
                        version |-> summary[job[w].emp].version + 1]
    OBVIOUS
  <2>2. row.status \notin Frozen /\ summary' = [summary EXCEPT ![job[w].emp] = row]
    BY <2>1 DEF Wrote, Frozen
  <2> QED BY <2>2, FrozenRowSet DEF SummaryInv
<1> QED BY <1>1, <1>2

\* Marking, locking, reviewing and processing write a status and nothing else.
StatusOnly ==
  \A e \in Employees : \/ summary'[e] = summary[e]
                       \/ \E to : summary'[e] = [summary[e] EXCEPT !.status = to]

LEMMA FrozenStatus ==
  ASSUME SummaryInv, StatusOnly
  PROVE  FrozenKept
<1> SUFFICES ASSUME NEW e \in Employees
             PROVE  summary'[e].figures = summary[e].figures /\ summary'[e].version = summary[e].version
  BY DEF FrozenKept
<1>1. summary[e] \in SummaryRows
  BY DEF SummaryInv, TablesInv, Filled
<1> QED BY <1>1 DEF StatusOnly, SummaryRows

LEMMA StatusSteps ==
  ASSUME SummaryInv,
         \/ \E w \in Workers : MarkRecomputed(w) \/ LockApproved(w)
         \/ \E e \in Employees : ReviewStep(e)
         \/ \E r \in Runs : ProcessRun(r)
  PROVE  StatusOnly
<1>0. summary = [e \in Employees |-> summary[e]]
  BY DEF SummaryInv, TablesInv
<1>1. ASSUME NEW w \in Workers, MarkRecomputed(w) PROVE StatusOnly
  BY <1>0, <1>1 DEF MarkRecomputed, Wrote, StatusOnly
<1>2. ASSUME NEW w \in Workers, LockApproved(w) PROVE StatusOnly
  BY <1>2 DEF LockApproved, StatusOnly
<1>3. ASSUME NEW e \in Employees, NEW from, NEW to, Review(e, from, to) PROVE StatusOnly
  BY <1>0, <1>3 DEF Review, StatusOnly
<1>4. ASSUME NEW e \in Employees, ReviewStep(e) PROVE StatusOnly
  BY <1>3, <1>4 DEF ReviewStep, ApproveSummary, UnlockSummary, RejectSummary, RequestCorrection,
                    CancelSummary
<1>5. ASSUME NEW r \in Runs, ProcessRun(r) PROVE StatusOnly
  BY <1>5 DEF ProcessRun, StatusOnly
<1> QED BY <1>1, <1>2, <1>4, <1>5

LEMMA FrozenStep ==
  ASSUME PayrollInv, [PayrollNext]_payrollVars
  PROVE  FrozenKept
<1>0. SummaryInv /\ RunInv /\ FineTypeOK
  BY DEF PayrollInv
<1>1. CASE UNCHANGED summary
  BY <1>1 DEF FrozenKept
<1>2. CASE SummaryNext
  <2>1. ASSUME NEW w \in Workers, StartJob(w) PROVE FrozenKept
    BY <1>1, <2>1 DEF StartJob, BeginJob, CheckBlockers
  <2>2. ASSUME NEW w \in Workers, WorkerStep(w) PROVE FrozenKept
    <3>1. CASE ReadSummary(w) \/ ComputeFigures(w) \/ WriteVersion(w) \/ JobFails(w)
      BY <1>1, <3>1 DEF ReadSummary, ComputeFigures, WriteVersion, JobFails
    <3> QED BY <1>0, <2>2, <3>1, FrozenWrites, StatusSteps, FrozenStatus DEF WorkerStep
  <2> QED BY <1>0, <1>2, <2>1, <2>2, StatusSteps, FrozenStatus DEF SummaryNext
<1>3. ASSUME NEW r \in Runs, RunStep(r) PROVE FrozenKept
  <2>1. CASE UNCHANGED summaryVars
    BY <1>1, <2>1 DEF summaryVars
  <2>2. CASE ProcessRun(r)
    BY <1>0, <2>2, StatusSteps, FrozenStatus
  <2> QED BY <1>0, <1>3, <2>1, <2>2, RunCreated, RunGenerating, RunCommitted DEF RunStep
<1> QED BY <1>1, <1>2, <1>3 DEF PayrollNext, SummariesMove, FinesMove, payrollVars, summaryVars

-----------------------------------------------------------------------------
(* The theorems.                                                            *)

\* Every table of AttendanceSummaryService, FinesService and PayrollService
\* keeps its type, whatever their requests overwrite of each other.
THEOREM PayrollTypes == PayrollSpec => []PayrollTypeOK
<1>1. PayrollInv => PayrollTypeOK
  BY DEF PayrollInv, SummaryInv, TablesInv, JobsInv, RunInv, PayrollTypeOK, SummaryTypeOK, Filled, JobOK
<1> QED BY <1>1, InvHolds, PTL

\* processPayrollRun leaves no draft payslip in its run, and no generation adds
\* one: generatePayslips refuses a processed run and one that is generating
\* cannot be processed.
THEOREM RunsClose == PayrollSpec => []ProcessedRunClosed
<1>1. PayrollInv => ProcessedRunClosed
  BY DEF PayrollInv, RunInv
<1> QED BY <1>1, InvHolds, PTL

\* A summary that is payroll_processed has a final payslip, in the run that
\* processed it: no summary operation makes one processed, and the upsert of a
\* worker that read the row earlier does not put that status back.
THEOREM ProcessedHasPayslip == PayrollSpec => []ProcessedTogether
<1>1. PayrollInv => ProcessedTogether
  BY DEF PayrollInv, RunInv
<1> QED BY <1>1, InvHolds, PTL

\* No generation of any run and no processing of another run changes a final
\* payslip.
THEOREM FinalPayslips == PayrollSpec => PayslipFinal
<1>1. PayrollInv /\ [PayrollNext]_payrollVars =>
        [\A e \in Employees : payslip[e].status = "processed" => payslip'[e] = payslip[e]]_payrollVars
  BY InvNext DEF FinalKept
<1> QED BY <1>1, InvHolds, PTL DEF PayrollSpec, PayslipFinal

\* However many computes, recomputes, adjustments, reviews, locks and runs
\* overlap, no statement of any of them puts other figures or another version
\* under a lock that stays: compute upserts the status of the row it read, which
\* was not frozen, so where it comes too late it takes the lock away.
THEOREM FrozenStays == PayrollSpec => FrozenIsFrozen
<1>1. PayrollInv /\ [PayrollNext]_payrollVars =>
        [\A e \in Employees : summary[e].status \in Frozen /\ summary'[e].status \in Frozen =>
           /\ summary'[e].figures = summary[e].figures
           /\ summary'[e].version = summary[e].version]_summaryVars
  BY FrozenStep DEF FrozenKept
<1> QED BY <1>1, InvHolds, PTL DEF PayrollSpec, FrozenIsFrozen

\* If no request dies between two statements, every summary that nobody is
\* working on agrees in the compared fields with a version row of its number:
\* computes, adjustments and recomputes may overwrite each other's rows, not
\* each other's version rows.  (Not in the hours and overtime terms: a compute
\* that finds the compared fields unchanged overwrites those without a version.)
THEOREM HistoryComplete == ~CanFail => (PayrollSpec => []HistoryHoldsSummary)
<1> SUFFICES ASSUME ~CanFail PROVE PayrollSpec => []HistoryHoldsSummary
  OBVIOUS
<1>1. PayrollInv => HistoryHoldsSummary
  BY DEF PayrollInv, HistoryInv, Known, Kept, Owed, Owing, HistoryHoldsSummary, InHistory, Settled
<1> QED BY <1>1, InvHolds, PTL

\* Then the compared figures a payslip was made from are there too, under the
\* version it names, long after its summary was unlocked, recomputed and locked
\* again.
THEOREM PayslipsTraceable == ~CanFail => (PayrollSpec => []PayslipTraceable)
<1> SUFFICES ASSUME ~CanFail PROVE PayrollSpec => []PayslipTraceable
  OBVIOUS
<1>1. PayrollInv => PayslipTraceable
  BY DEF PayrollInv, HistoryInv, Known, Kept, Owed, Owing, PayslipTraceable, InHistory, Settled
<1> QED BY <1>1, InvHolds, PTL
=============================================================================
