------------------------- MODULE AttendanceSummary -------------------------
(***************************************************************************)
(* The payroll attendance summaries of one period: AttendanceSummaryService*)
(* computes, reviews and adjusts them, PayrollLockService locks them for   *)
(* payroll.  Reviews are single conditional UPDATEs; compute, recompute,   *)
(* the manual adjustment and lock read first and write later.              *)
(***************************************************************************)
EXTENDS Integers, FiniteSets

CONSTANTS
  Employees,
  Workers,        \* requests and the monthly cron, running concurrently
  Figures,        \* what a summary can say: day counts, hours, overtime terms, policy
  Compared,       \* what the eleven COMPARABLE_FIELDS say of it
  MaxVersion,     \* bound on generation_version
  Jobs,           \* the read-then-write operations in use
  Declines,       \* whether summaries are rejected, sent back and cancelled too
  CanFail         \* whether a worker may die between two statements

AllJobs == {"compute", "recompute", "adjust", "lock"}
NoFigures == "no figures"
Unreviewed == "unreviewed"

ASSUME SummaryAssumption ==
  /\ Figures # {} /\ NoFigures \notin Figures /\ Unreviewed \notin Figures
  /\ DOMAIN Compared = Figures
  /\ MaxVersion \in Nat \ {0}
  /\ Jobs \subseteq AllJobs /\ CanFail \in BOOLEAN /\ Declines \in BOOLEAN

VARIABLES
  summary,       \* payroll_attendance_summary
  versions,      \* payroll_attendance_summary_versions
  reviewed,      \* the figures a reviewer last approved, for each employee
  job            \* what each worker is doing

summaryVars == <<summary, versions, reviewed, job>>

Frozen   == {"payroll_locked", "payroll_processed"}
SummaryStatuses == {"absent", "draft", "pending_review", "approved", "rejected",
                    "cancelled"} \cup Frozen
SummaryRows == [status : SummaryStatuses, figures : Figures \cup {NoFigures},
                version : 0..MaxVersion]
AbsentRow  == [status |-> "absent", figures |-> NoFigures, version |-> 0]

NoJob == [step |-> "idle"]
JobRecords ==
  [step : {"read", "figures", "write", "version", "mark", "last_version"}, op : AllJobs, emp : Employees,
   copy : SummaryRows, figures : Figures \cup {NoFigures}]
LockRecords == [step : {"lock"}, scope : SUBSET Employees]

SummaryTypeOK ==
  /\ summary \in [Employees -> SummaryRows]
  /\ versions \in [Employees -> SUBSET ((1..MaxVersion) \X Figures)]
  /\ reviewed \in [Employees -> Figures \cup {Unreviewed}]
  /\ job \in [Workers -> {NoJob} \cup JobRecords \cup LockRecords]

SummaryInit ==
  /\ summary = [e \in Employees |-> AbsentRow]
  /\ versions = [e \in Employees |-> {}]
  /\ reviewed = [e \in Employees |-> Unreviewed]
  /\ job = [w \in Workers |-> NoJob]

-----------------------------------------------------------------------------

NewJob(w, step, op, e, row) ==
  job' = [job EXCEPT ![w] = [step |-> step, op |-> op, emp |-> e,
                             copy |-> row, figures |-> NoFigures]]

\* compute takes up the next employee of its scope; recompute and
\* applyManualAdjustment look the summary up and refuse a frozen one.
BeginJob(w, op, e) ==
  /\ job[w] = NoJob
  /\ op # "compute" => summary[e].status \notin Frozen \cup {"absent"}
  /\ NewJob(w, IF op = "adjust" THEN "write" ELSE "read", op, e, AbsentRow)
  /\ UNCHANGED <<summary, versions, reviewed>>

\* Mutant: frozen summaries are not skipped.
ReadAnySummary(w) ==
  /\ job[w].step = "read"
  /\ NewJob(w, "figures", job[w].op, job[w].emp, summary[job[w].emp])
  /\ UNCHANGED <<summary, versions, reviewed>>

\* compute reads the row and skips a frozen one, in which case recompute still
\* goes on to mark it.
ReadSummary(w) ==
  LET e == job[w].emp IN
  /\ job[w].step = "read"
  /\ IF summary[e].status \notin Frozen THEN NewJob(w, "figures", job[w].op, e, summary[e])
     ELSE IF job[w].op = "recompute" THEN NewJob(w, "mark", "recompute", e, AbsentRow)
     ELSE job' = [job EXCEPT ![w] = NoJob]
  /\ UNCHANGED <<summary, versions, reviewed>>

\* _computeFigures: many queries over attendance, leave, overtime and policies,
\* which anything may have changed since the last time.
ComputeFigures(w) ==
  /\ job[w].step = "figures"
  /\ \E f \in Figures : job' = [job EXCEPT ![w].step = "write", ![w].figures = f]
  /\ UNCHANGED <<summary, versions, reviewed>>

\* The statement returns the row it wrote, which the next one refers to.
Wrote(w, row, step) ==
  /\ summary' = [summary EXCEPT ![job[w].emp] = row]
  /\ NewJob(w, step, job[w].op, job[w].emp, IF step = "mark" THEN AbsentRow ELSE row)

\* Mutants of the upsert: a change keeps the status; a change keeps the version.
WriteKeepingStatus(w) ==
  LET j == job[w] IN
  /\ j.step = "write" /\ j.op \in {"compute", "recompute"}
  /\ j.copy.version < MaxVersion
  /\ Wrote(w, [status |-> IF j.copy.status = "absent" THEN "pending_review" ELSE j.copy.status,
               figures |-> j.figures, version |-> j.copy.version + 1], "version")
  /\ UNCHANGED <<versions, reviewed>>
WriteKeepingVersion(w) ==
  LET j == job[w] IN
  /\ j.step = "write" /\ j.op \in {"compute", "recompute"}
  /\ Wrote(w, [status |-> "pending_review", figures |-> j.figures,
               version |-> IF j.copy.version = 0 THEN 1 ELSE j.copy.version], "version")
  /\ UNCHANGED <<versions, reviewed>>

\* Whether compute counts the figures as changed: it compares eleven columns.
Changed(j) == j.copy.status = "absent" \/ Compared[j.copy.figures] # Compared[j.figures]

\* The upsert: version and status come from the row that was read, and it
\* replaces whatever row is there by now with everything it computed, whether
\* or not that counts as changed.
WriteSummary(w) ==
  LET j       == job[w]
      changed == Changed(j)
      row     == [status  |-> IF changed THEN "pending_review" ELSE j.copy.status,
                  figures |-> j.figures,
                  version |-> IF changed THEN j.copy.version + 1 ELSE j.copy.version]
  IN
  /\ j.step = "write" /\ j.op \in {"compute", "recompute"}
  /\ row.version <= MaxVersion
  /\ IF changed THEN Wrote(w, row, "version")
     ELSE IF j.op = "recompute" THEN Wrote(w, row, "mark")
     ELSE summary' = [summary EXCEPT ![j.emp] = row] /\ job' = [job EXCEPT ![w] = NoJob]
  /\ UNCHANGED <<versions, reviewed>>

\* The UPDATE of applyManualAdjustment: the figures HR typed in, the version
\* counted up from the row itself, and no condition on the status.
WriteAdjustment(w) ==
  LET e == job[w].emp IN
  /\ job[w].step = "write" /\ job[w].op = "adjust"
  /\ summary[e].version < MaxVersion
  /\ \E f \in Figures :
       Wrote(w, [status |-> "pending_review", figures |-> f,
                 version |-> summary[e].version + 1], "last_version")
  /\ UNCHANGED <<versions, reviewed>>

\* Mutant: the version row takes the version that was read before the change.
WriteVersionBefore(w) ==
  LET j == job[w] IN
  /\ j.step \in {"version", "last_version"}
  /\ versions' = [versions EXCEPT ![j.emp] = @ \cup {<<1, j.copy.figures>>}]
  /\ IF j.step = "version" /\ j.op = "recompute"
     THEN NewJob(w, "mark", "recompute", j.emp, AbsentRow)
     ELSE job' = [job EXCEPT ![w] = NoJob]
  /\ UNCHANGED <<summary, reviewed>>

\* _writeVersion: a snapshot of the row the statement before returned.
WriteVersion(w) ==
  LET j == job[w] IN
  /\ j.step \in {"version", "last_version"}
  /\ versions' = [versions EXCEPT ![j.emp] = @ \cup {<<j.copy.version, j.copy.figures>>}]
  /\ IF j.step = "version" /\ j.op = "recompute"
     THEN NewJob(w, "mark", "recompute", j.emp, AbsentRow)
     ELSE job' = [job EXCEPT ![w] = NoJob]
  /\ UNCHANGED <<summary, reviewed>>

\* _markRecomputedForReview, whatever the status is by now; recompute then adds
\* a version row even when nothing changed.
MarkRecomputed(w) ==
  LET now == summary[job[w].emp] IN
  /\ job[w].step = "mark"
  /\ Wrote(w, [now EXCEPT !.status = IF @ \in {"draft", "rejected"} THEN "pending_review"
                                     ELSE @], "last_version")
  /\ UNCHANGED <<versions, reviewed>>

\* The process dies, or a statement fails, between two statements.
JobFails(w) ==
  /\ CanFail
  /\ job[w] # NoJob
  /\ job' = [job EXCEPT ![w] = NoJob]
  /\ UNCHANGED <<summary, versions, reviewed>>

\* A review: one UPDATE whose WHERE names the statuses it may leave.
Review(e, from, to) ==
  /\ summary[e].status \in from
  /\ summary' = [summary EXCEPT ![e].status = to]
  /\ UNCHANGED <<versions, job>>

ApproveSummary(e) ==
  /\ Review(e, {"pending_review"}, "approved")
  /\ reviewed' = [reviewed EXCEPT ![e] = summary[e].figures]
RejectSummary(e) ==
  Review(e, {"pending_review"}, "rejected") /\ UNCHANGED reviewed
RequestCorrection(e) ==
  Review(e, {"pending_review", "rejected"}, "draft") /\ UNCHANGED reviewed
CancelSummary(e) ==
  /\ Review(e, SummaryStatuses \ (Frozen \cup {"absent"}), "cancelled")
  /\ UNCHANGED reviewed

\* PayrollLockService.lock: no draft or pending summary in the scope ...
CheckBlockers(w, S) ==
  /\ job[w] = NoJob
  /\ \A e \in S : summary[e].status \notin {"draft", "pending_review"}
  /\ job' = [job EXCEPT ![w] = [step |-> "lock", scope |-> S]]
  /\ UNCHANGED <<summary, versions, reviewed>>

\* Mutant: a status that the table does not know.
LockMisnamed(w) ==
  /\ job[w].step = "lock"
  /\ summary' = [e \in Employees |->
       IF e \in job[w].scope /\ summary[e].status = "approved"
       THEN [summary[e] EXCEPT !.status = "locked"] ELSE summary[e]]
  /\ job' = [job EXCEPT ![w] = NoJob]
  /\ UNCHANGED <<versions, reviewed>>

\* ... and then whatever is approved in the scope by now is locked.
LockApproved(w) ==
  /\ job[w].step = "lock"
  /\ summary' = [e \in Employees |->
       IF e \in job[w].scope /\ summary[e].status = "approved"
       THEN [summary[e] EXCEPT !.status = "payroll_locked"] ELSE summary[e]]
  /\ job' = [job EXCEPT ![w] = NoJob]
  /\ UNCHANGED <<versions, reviewed>>

UnlockSummary(e) ==
  Review(e, {"payroll_locked"}, "approved") /\ UNCHANGED reviewed

WorkerStep(w) ==
  \/ ReadSummary(w) \/ ComputeFigures(w) \/ WriteSummary(w) \/ WriteAdjustment(w)
  \/ WriteVersion(w) \/ MarkRecomputed(w) \/ LockApproved(w) \/ JobFails(w)

StartJob(w) ==
  \/ \E op \in Jobs \ {"lock"}, e \in Employees : BeginJob(w, op, e)
  \/ "lock" \in Jobs /\ \E S \in SUBSET Employees : S # {} /\ CheckBlockers(w, S)

ReviewStep(e) ==
  \/ ApproveSummary(e) \/ UnlockSummary(e)
  \/ Declines /\ (RejectSummary(e) \/ RequestCorrection(e) \/ CancelSummary(e))

SummaryNext ==
  \/ \E w \in Workers : StartJob(w) \/ WorkerStep(w)
  \/ \E e \in Employees : ReviewStep(e)

SummarySpec == SummaryInit /\ [][SummaryNext]_summaryVars

-----------------------------------------------------------------------------
(* Properties.                                                              *)

\* compute() "always skips any employee whose existing summary is" locked or
\* processed, yet it reads the summary long before it writes it.  Whatever is
\* locked meanwhile: no statement of any worker puts other figures, compared or
\* not, or another version under a lock that stays.
FrozenIsFrozen ==
  [][\A e \in Employees : summary[e].status \in Frozen /\ summary'[e].status \in Frozen =>
       /\ summary'[e].figures = summary[e].figures
       /\ summary'[e].version = summary[e].version]_summaryVars

\* "A real change to the figures invalidates any prior review decision", in the
\* code's sense of a change: in the compared fields, what is approved, locked or
\* processed says what it said when a reviewer approved it.
ApprovedWasReviewed ==
  \A e \in Employees : summary[e].status \in {"approved"} \cup Frozen =>
    /\ reviewed[e] # Unreviewed
    /\ Compared[summary[e].figures] = Compared[reviewed[e]]

\* What payroll pays from a locked summary, hours and overtime terms included,
\* "always matches what was actually approved": it does not, see README.
LockedAsApproved ==
  \A e \in Employees : summary[e].status \in Frozen => summary[e].figures = reviewed[e]

\* Versions are snapshots that stay: the snapshots of one version number agree
\* in the compared fields, however often it is written.
VersionNamesFigures ==
  \A e \in Employees : \A v, u \in versions[e] :
    v[1] = u[1] => Compared[v[2]] = Compared[u[2]]

Settled(e) == \A w \in Workers : job[w].step \in {"idle", "lock"} \/ job[w].emp # e

\* Whether the history of e has a version of this number that says the same in
\* the compared fields.
InHistory(e, version, figures) ==
  \E v \in versions[e] : v[1] = version /\ Compared[v[2]] = Compared[figures]

\* Whatever the workers overwrote of each other, once none is at work on a
\* summary its compared figures are in its history, under its version.
HistoryHoldsSummary ==
  \A e \in Employees : Settled(e) /\ summary[e].status # "absent" =>
    InHistory(e, summary[e].version, summary[e].figures)
=============================================================================
