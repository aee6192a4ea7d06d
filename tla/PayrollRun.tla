----------------------------- MODULE PayrollRun -----------------------------
(***************************************************************************)
(* The payroll of one period (PayrollService) over the attendance summaries*)
(* and the fines it reads and writes.  A period may have a run for the     *)
(* whole organisation and one for each branch, over the same payslips.     *)
(*                                                                         *)
(* generatePayslips is one READ COMMITTED transaction: each of its reads   *)
(* is a step, its writes show when it commits, and the rows it has updated *)
(* or selected FOR UPDATE cannot be written by anybody else until then.    *)
(* processPayrollRun is a transaction too, all of it conditional on the    *)
(* run row it locks first, so it is one step.                              *)
(***************************************************************************)
EXTENDS AttendanceSummary, EmployeeFines

CONSTANTS
  Runs,          \* the runs the period may have: the organisation's, a branch's
  Scope,         \* the employees each run covers
  FineScope,     \* the fines each run looks at: a branch run skips those with no branch
  Owner,         \* whose fine it is
  Overlapping    \* whether requests and generations may overlap, or run one by one

NoRun == "no run"

ASSUME PayrollAssumption ==
  /\ NoRun \notin Runs
  /\ Scope \in [Runs -> SUBSET Employees]
  /\ FineScope \in [Runs -> SUBSET Fines]
  /\ Owner \in [Fines -> Employees]
  /\ Overlapping \in BOOLEAN

VARIABLES
  run,           \* payroll_runs.status
  payslip,       \* payslips
  backing,       \* payroll_attendance_summary.payroll_run_id
  generation     \* the transaction of each run's generatePayslips

runVars == <<run, payslip, backing, generation>>
payrollVars == <<summaryVars, fineVars, runVars>>

PayslipRows ==
  [status : {"absent", "draft", "processed"}, run : Runs \cup {NoRun}, version : 0..MaxVersion,
   figures : Figures \cup {NoFigures}, refs : SUBSET Fines]
NoPayslip ==
  [status |-> "absent", run |-> NoRun, version |-> 0, figures |-> NoFigures, refs |-> {}]
NoGeneration == [step |-> "none", reset |-> {}, loaded |-> {}, fines |-> {}]
Generations ==
  [step : {"none", "summaries", "fines", "commit"}, reset : SUBSET Fines,
   loaded : SUBSET Employees, fines : SUBSET Fines]

PayrollTypeOK ==
  /\ SummaryTypeOK /\ FineTypeOK
  /\ run \in [Runs -> {"absent", "draft", "processed"}]
  /\ payslip \in [Employees -> PayslipRows]
  /\ backing \in [Employees -> Runs \cup {NoRun}]
  /\ generation \in [Runs -> Generations]

PayrollInit ==
  /\ SummaryInit /\ FineInit
  /\ run = [r \in Runs |-> "absent"]
  /\ payslip = [e \in Employees |-> NoPayslip]
  /\ backing = [e \in Employees |-> NoRun]
  /\ generation = [r \in Runs |-> NoGeneration]

-----------------------------------------------------------------------------

Generating(r) == generation[r].step # "none"
NoGenerations == \A r \in Runs : ~Generating(r)
NoFineJobs    == \A w \in FineWorkers : fineJob[w] = FineIdle
NoSummaryJobs == \A w \in Workers : job[w] = NoJob

\* Rows of a transaction still open.
SummaryHeld(e) == \E r \in Runs : e \in generation[r].loaded
FineHeld(f)    == \E r \in Runs : f \in generation[r].reset

\* createPayrollRun; generation_status defaults to 'completed'.
CreateRun(r) ==
  /\ run[r] = "absent" /\ ~Generating(r)
  /\ run' = [run EXCEPT ![r] = "draft"]
  /\ UNCHANGED <<summaryVars, fineVars, payslip, backing, generation>>

\* The generation sets the fines of draft payslips free again.
OpenGeneration(r) ==
  LET reset == {f \in Fines : /\ fine[f].linked /\ Owner[f] \in Scope[r]
                              /\ payslip[Owner[f]].status = "draft"}
  IN
  /\ ~Generating(r)
  /\ Overlapping \/ (NoGenerations /\ NoFineJobs /\ NoSummaryJobs)
  /\ \A f \in reset : ~FineHeld(f)
  /\ generation' = [generation EXCEPT ![r] =
       [step |-> "summaries", reset |-> reset, loaded |-> {}, fines |-> {}]]
  /\ UNCHANGED <<summaryVars, fineVars, run, payslip, backing>>

\* Only a run that is not processed is generated (or, absent, created by the
\* generation itself).
BeginGeneration(r) == run[r] # "processed" /\ OpenGeneration(r)

\* It selects the locked summaries FOR UPDATE, and gives up if there is none.
LoadSummaries(r) ==
  LET locked == {e \in Scope[r] : summary[e].status = "payroll_locked"} IN
  /\ generation[r].step = "summaries"
  /\ \A e \in locked : ~SummaryHeld(e)
  /\ generation' = [generation EXCEPT ![r] =
       IF locked = {} THEN NoGeneration ELSE [@ EXCEPT !.step = "fines", !.loaded = locked]]
  /\ UNCHANGED <<summaryVars, fineVars, run, payslip, backing>>

\* It reads the approved fines, its own resets among them, and locks none.
LoadFines(r) ==
  /\ generation[r].step = "fines"
  /\ generation' = [generation EXCEPT ![r] = [@ EXCEPT !.step = "commit",
       !.fines = {f \in FineScope[r] : fine[f].status = "approved" \/ f \in generation[r].reset}]]
  /\ UNCHANGED <<summaryVars, fineVars, run, payslip, backing>>

\* ON CONFLICT ... DO UPDATE ... WHERE payslips.status = 'draft'.
AnyPayslip(e) == TRUE                                      \* mutant
Replaceable(e) == payslip[e].status \in {"absent", "draft"}

FinesOf(r, e) == {f \in generation[r].fines : Owner[f] = e}

\* What a payslip pays: the figures of the summary, or (mutant) live ones.
LiveFigures(e) == CHOOSE f \in Figures : Compared[f] # Compared[summary[e].figures]
PaidFigures(e) == summary[e].figures

NewPayslip(r, e) ==
  [status |-> "draft", run |-> r, version |-> summary[e].version, figures |-> PaidFigures(e),
   refs |-> FinesOf(r, e)]

\* Of the employees paid, whose fines are marked: those whose payslip was written.
MarkedBeforeUpsert(paid) == paid                           \* mutant
Written(paid) == {e \in paid : Replaceable(e)}

\* The payments left when the transaction has deleted those of the resets and
\* inserted those of the fines it charged.
PaymentsAfter(f, reset, charged) ==
  (payments[f] \ IF f \in reset THEN {"payroll_deduction"} ELSE {})
    \cup IF f \in charged THEN {"payroll_deduction"} ELSE {}

\* The employees with a salary structure or template get their payslip, unless
\* theirs is final; the fines on it are marked, whatever they are by now.
CommitGeneration(r) ==
  \E paid \in SUBSET generation[r].loaded :
    LET written == {e \in paid : Replaceable(e)}
        reset   == generation[r].reset
        charged == {f \in generation[r].fines : Owner[f] \in Written(paid)}
    IN
    /\ generation[r].step = "commit"
    /\ \A f \in charged \ reset : ~FineHeld(f)
    /\ run' = [run EXCEPT ![r] = IF @ = "absent" THEN "draft" ELSE @]
    /\ payslip' = [e \in Employees |-> IF e \in written THEN NewPayslip(r, e) ELSE payslip[e]]
    /\ backing' = [e \in Employees |-> IF e \in written THEN r ELSE backing[e]]
    /\ fine' = [f \in Fines |->
         IF f \in charged THEN [fine[f] EXCEPT !.status = "payroll_deducted", !.linked = TRUE]
         ELSE IF f \in reset THEN [fine[f] EXCEPT !.status = "approved", !.linked = FALSE]
         ELSE fine[f]]
    /\ payments' = [f \in Fines |-> PaymentsAfter(f, reset, charged)]
    /\ generation' = [generation EXCEPT ![r] = NoGeneration]
    /\ UNCHANGED <<summaryVars, fineJob>>

\* An error, a deadlock that PostgreSQL breaks or a lost connection: rollback.
GenerationFails(r) ==
  /\ Generating(r)
  /\ generation' = [generation EXCEPT ![r] = NoGeneration]
  /\ UNCHANGED <<summaryVars, fineVars, run, payslip, backing>>

\* The employees whose summary a run processes: those with a payslip in it.
ScopeOf(r)  == Scope[r]                                    \* mutant
PaidBy(r)   == {e \in Employees : payslip[e].run = r}

ProcessRun(r) ==
  LET closed == {e \in PaidBy(r) : summary[e].status = "payroll_locked"} IN
  /\ run[r] = "draft" /\ ~Generating(r)
  /\ \A e \in closed : ~SummaryHeld(e)
  /\ run' = [run EXCEPT ![r] = "processed"]
  /\ payslip' = [e \in Employees |->
       IF payslip[e].run = r THEN [payslip[e] EXCEPT !.status = "processed"] ELSE payslip[e]]
  /\ summary' = [e \in Employees |->
       IF e \in closed THEN [summary[e] EXCEPT !.status = "payroll_processed"] ELSE summary[e]]
  /\ backing' = [e \in Employees |-> IF e \in closed THEN r ELSE backing[e]]
  /\ UNCHANGED <<versions, reviewed, job, fineVars, generation>>

RunStep(r) ==
  \/ CreateRun(r) \/ BeginGeneration(r) \/ LoadSummaries(r) \/ LoadFines(r)
  \/ CommitGeneration(r) \/ GenerationFails(r) \/ ProcessRun(r)

\* The summaries and fines move as their own services move them, but no row
\* that a generation holds.
SummariesMove ==
  /\ Overlapping \/ (NoGenerations /\ NoFineJobs)
  /\ SummaryNext
  /\ \A e \in Employees : SummaryHeld(e) => summary'[e] = summary[e]
  /\ UNCHANGED <<fineVars, runVars>>

\* validatePayrollNotLocked: one run of the period, whichever comes first, is a
\* draft, and no payslip of the period is final.
PeriodOpen ==
  /\ (\A r \in Runs : run[r] = "absent") \/ (\E r \in Runs : run[r] = "draft")
  /\ \A e \in Employees : payslip[e].status # "processed"

FinesMove ==
  /\ Overlapping \/ (NoGenerations /\ NoSummaryJobs)
  /\ FineStep(PeriodOpen)
  /\ \A f \in Fines : FineHeld(f) => fine'[f] = fine[f]
  /\ UNCHANGED <<summaryVars, runVars>>

PayrollNext == SummariesMove \/ FinesMove \/ \E r \in Runs : RunStep(r)

PayrollSpec == PayrollInit /\ [][PayrollNext]_payrollVars

-----------------------------------------------------------------------------
(* Properties.                                                              *)

\* "Never silently overwrite a finalized payslip": whatever is unlocked,
\* adjusted, locked and generated again by either run, a processed payslip
\* keeps its figures, its fines and its run.
PayslipFinal ==
  [][\A e \in Employees : payslip[e].status = "processed" => payslip'[e] = payslip[e]]_payrollVars

\* A processed run is closed: no draft payslip of it is left or added.
ProcessedRunClosed ==
  \A r \in Runs, e \in Employees :
    run[r] = "processed" /\ payslip[e].run = r => payslip[e].status = "processed"

\* A processed summary has its processed payslip, in the run it names.
ProcessedTogether ==
  \A e \in Employees : summary[e].status = "payroll_processed" =>
    payslip[e].status = "processed" /\ payslip[e].run = backing[e]

\* A fine marked as deducted is on the payslip it names and has its payment
\* record, after any number of generations by either run.
FineHasPayslip ==
  \A f \in Fines : fine[f].status = "payroll_deducted" =>
    f \in payslip[Owner[f]].refs /\ "payroll_deduction" \in payments[f]

\* Whatever happened to the summary since, the compared figures a payslip was
\* made from are in the version history, under the version the payslip names.
PayslipTraceable ==
  \A e \in Employees : Settled(e) /\ payslip[e].status # "absent" =>
    InHistory(e, payslip[e].version, payslip[e].figures)
=============================================================================
