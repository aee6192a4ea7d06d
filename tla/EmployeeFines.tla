--------------------------- MODULE EmployeeFines ---------------------------
(***************************************************************************)
(* The fines of one payroll period (FinesService): raised, decided by the  *)
(* approval engine, then cancelled, waived or settled by hand unless the   *)
(* payroll deducts them first.  Each manual operation reads the fine and   *)
(* updates it later, with no condition on what it read.                    *)
(***************************************************************************)
EXTENDS Integers, FiniteSets

CONSTANTS
  Fines,        \* fines of this period whose mode is payroll deduction
  FineWorkers   \* requests that may be at work on fines at the same time

VARIABLES
  fine,       \* employee_fines
  payments,   \* deduction_payments in force, for each fine: what kinds it has
  fineJob     \* what each request is doing

fineVars == <<fine, payments, fineJob>>

FineStatuses == {"absent", "pending_approval", "approved", "rejected", "payroll_deducted",
                 "partially_paid", "waived", "cancelled"}
\* linked: the fine has a payslip_id; asked: its approval request is undecided.
FineRows == [status : FineStatuses, linked : BOOLEAN, asked : BOOLEAN]
Payments == {"payroll_deduction", "waiver", "manual_pending"}
FineOps  == {"cancel", "waive", "settle"}
FineIdle == [step |-> "idle"]

FineTypeOK ==
  /\ fine \in [Fines -> FineRows]
  /\ payments \in [Fines -> SUBSET Payments]
  /\ fineJob \in [FineWorkers -> {FineIdle} \cup [step : {"pay", "write"}, op : FineOps, fine : Fines]]

FineInit ==
  /\ fine = [f \in Fines |-> [status |-> "absent", linked |-> FALSE, asked |-> FALSE]]
  /\ payments = [f \in Fines |-> {}]
  /\ fineJob = [w \in FineWorkers |-> FineIdle]

-----------------------------------------------------------------------------

\* createFine: the row and its approval request.
CreateFine(f) ==
  /\ fine[f].status = "absent"
  /\ fine' = [fine EXCEPT ![f] = [@ EXCEPT !.status = "pending_approval", !.asked = TRUE]]
  /\ UNCHANGED <<payments, fineJob>>

\* The approval engine writes its verdict to the fine, whatever the fine has
\* become meanwhile.
DecideFine(f, verdict) ==
  /\ fine[f].asked
  /\ fine' = [fine EXCEPT ![f] = [@ EXCEPT !.status = verdict, !.asked = FALSE]]
  /\ UNCHANGED <<payments, fineJob>>

Accepts(op) ==
  IF op = "cancel" THEN {"pending_approval", "approved"} ELSE {"approved", "partially_paid"}

\* An operation reads the fine; periodOpen is validatePayrollNotLocked, which
\* only cancelFine asks for.
BeginFineJob(w, op, f, periodOpen) ==
  /\ fineJob[w] = FineIdle
  /\ fine[f].status \in Accepts(op)
  /\ op = "cancel" => periodOpen
  /\ fineJob' = [fineJob EXCEPT ![w] =
       [step |-> IF op = "cancel" THEN "write" ELSE "pay", op |-> op, fine |-> f]]
  /\ UNCHANGED <<fine, payments>>

\* waiveFine and settleFine insert their payment before they update the fine.
InsertPayment(w) ==
  LET j == fineJob[w] IN
  /\ j.step = "pay"
  /\ payments' = [payments EXCEPT ![j.fine] =
       @ \cup {IF j.op = "waive" THEN "waiver" ELSE "manual_pending"}]
  /\ fineJob' = [fineJob EXCEPT ![w] = [j EXCEPT !.step = "write"]]
  /\ UNCHANGED fine

Result(op) == CASE op = "cancel" -> "cancelled" [] op = "waive" -> "waived"
                [] OTHER -> "partially_paid"

WriteFine(w) ==
  LET j == fineJob[w] IN
  /\ j.step = "write"
  /\ fine' = [fine EXCEPT ![j.fine] = [@ EXCEPT !.status = Result(j.op)]]
  /\ fineJob' = [fineJob EXCEPT ![w] = FineIdle]
  /\ UNCHANGED payments

\* verifyPayment, either verdict: the payment is no longer pending; the statement
\* that should carry a verified amount over to the fine names no $1 and is
\* refused by PostgreSQL.
VerifyPayment(f) ==
  /\ "manual_pending" \in payments[f]
  /\ payments' = [payments EXCEPT ![f] = @ \ {"manual_pending"}]
  /\ UNCHANGED <<fine, fineJob>>

\* A request dies between two statements.
FineJobFails(w) ==
  /\ fineJob[w] # FineIdle
  /\ fineJob' = [fineJob EXCEPT ![w] = FineIdle]
  /\ UNCHANGED <<fine, payments>>

FineStep(periodOpen) ==
  \/ \E f \in Fines :
       \/ CreateFine(f) \/ VerifyPayment(f)
       \/ \E v \in {"approved", "rejected"} : DecideFine(f, v)
       \/ \E w \in FineWorkers, op \in FineOps : BeginFineJob(w, op, f, periodOpen)
  \/ \E w \in FineWorkers : InsertPayment(w) \/ WriteFine(w) \/ FineJobFails(w)
=============================================================================
