------------------------ MODULE PayrollPaymentProofs ------------------------
(***************************************************************************)
(* Proofs about PayrollPayment for any number of payslips, requests,       *)
(* payments, payouts, attempts and stalls, and whether or not answers are  *)
(* lost, the queue fails and transactions commit.                          *)
(***************************************************************************)
EXTENDS PayrollPayment, TLAPS

(* The inductive invariant, one part per table.                             *)

Written(p) == payment[p].status # "absent"

\* A payment that names a payout went through the gateway and has left pending.
RowsSound ==
  \A p \in Payments :
    /\ Written(p) => payment[p].slip \in Payslips
    /\ payment[p].payout # None =>
         /\ payment[p].gateway = "razorpay"
         /\ payment[p].status \notin {"absent", "pending"}
         /\ payout[payment[p].payout].pmt = p

\* A worker that lost its lock on the job of p is past the guard.
Shared(p) == \E n \in Stalls : late[n].pmt = p /\ late[n].state # "none"

\* Only gateway payments have jobs; a job that is past the guard of the worker
\* belongs to a payment that is still pending, unless two workers are past it.
JobsSound ==
  \A p \in Payments :
    /\ job[p].state = "none" => job[p] = NoJob
    /\ job[p].state # "none" => Written(p) /\ payment[p].gateway = "razorpay"
    /\ job[p].state \in {"waiting", "running", "sent", "recorded"} => job[p].tries < MaxAttempts
    /\ job[p].state \in {"running", "sent"} => payment[p].status = "pending" \/ Shared(p)
    /\ job[p].state = "sent" => job[p].payout \in Payouts /\ payout[job[p].payout].pmt = p

\* What a request remembers of a payment is still true of it.
Remembers(c) == clerk[c].pmt \in Payments /\ Written(clerk[c].pmt)

ClerksSound ==
  \A c \in Clerks :
    /\ clerk[c].step # "idle" => clerk[c].slip \in Payslips
    /\ clerk[c].step = "enqueue" =>
         /\ Remembers(c)
         /\ payment[clerk[c].pmt].gateway = "razorpay"
         /\ job[clerk[c].pmt] = NoJob
         /\ \A d \in Clerks \ {c} : clerk[d].step = "enqueue" => clerk[d].pmt # clerk[c].pmt
    /\ clerk[c].step = "confirm" =>
         /\ Remembers(c)
         /\ payment[clerk[c].pmt].gateway = "manual"
         /\ payment[clerk[c].pmt].slip = clerk[c].slip
    /\ clerk[c].step = "reverse" =>
         /\ Remembers(c)
         /\ payment[clerk[c].pmt].status # "pending"
         /\ payment[clerk[c].pmt].slip = clerk[c].slip

PayoutsSound ==
  \A o \in Payouts : payout[o].pmt # None => Written(payout[o].pmt)

\* A worker without a lock knows what the worker of a job knows.
LateSound ==
  \A n \in Stalls :
    /\ late[n].state # "none" =>
         /\ late[n].pmt \in Payments /\ Written(late[n].pmt)
         /\ payment[late[n].pmt].gateway = "razorpay"
    /\ late[n].state = "sent" =>
         late[n].payout \in Payouts /\ payout[late[n].payout].pmt = late[n].pmt

\* An event being handled is one the gateway has sent for a payout of the payment.
HookSound ==
  hook # NoHook =>
    /\ hook.pmt \in Payments
    /\ payment[hook.pmt].payout # None
    /\ \E o \in Payouts : payout[o].pmt = hook.pmt /\ hook.event \in payout[o].past

PaymentInv ==
  /\ PaymentTypeOK
  /\ RowsSound
  /\ JobsSound
  /\ ClerksSound
  /\ PayoutsSound
  /\ LateSound
  /\ HookSound
  /\ OneActivePayment
  /\ PaidHasMoney

-----------------------------------------------------------------------------
(* Types.                                                                   *)

\* NewPayment and NewPayout pick a row that is not in use.
LEMMA NewPaymentUnused == Unused # {} => NewPayment \in Unused
BY DEF NewPayment

LEMMA NewPayoutFree == FreePayouts # {} => NewPayout \in FreePayouts
BY DEF NewPayout

\* Row numbers start at 1, so None names no row.
LEMMA NoneIsNoRow == None \notin Payments /\ None \notin Payouts
BY PaymentAssumption DEF None, Payments, Payouts

\* Creating a payout keeps the type of the gateway's table.
LEMMA CreatesType ==
  ASSUME PaymentTypeOK, NEW p \in Payments, NEW status \in PayoutStatuses, Creates(p, status)
  PROVE  /\ NewPayout \in Payouts /\ payout[NewPayout].pmt = None
         /\ payout' \in [Payouts -> [pmt : Payments \cup {None}, status : PayoutStatuses,
                                     past : SUBSET PayoutStatuses]]
<1>1. NewPayout \in Payouts /\ payout[NewPayout].pmt = None
  BY NewPayoutFree DEF Creates, FreePayouts
<1> QED BY <1>1 DEF Creates, PaymentTypeOK

-----------------------------------------------------------------------------
(* What an assignment to one field leaves of a row and of the other rows.   *)

SamePayment(q) ==
  /\ payment'[q].slip = payment[q].slip
  /\ payment'[q].gateway = payment[q].gateway

\* UPDATE payroll_payments SET status.
LEMMA StatusSet ==
  ASSUME PaymentTypeOK, NEW p \in Payments, NEW st \in PaymentStatuses,
         payment' = [payment EXCEPT ![p].status = st]
  PROVE  /\ payment' \in [Payments -> PaymentRows]
         /\ \A q \in Payments : SamePayment(q) /\ payment'[q].payout = payment[q].payout
         /\ payment'[p].status = st
         /\ \A q \in Payments \ {p} : payment'[q] = payment[q]
<1>1. payment \in [Payments -> PaymentRows]
  BY DEF PaymentTypeOK
<1> QED BY <1>1 DEF PaymentRows, SamePayment

\* UPDATE payroll_payments SET status, gateway_payout_id.
LEMMA PayoutSet ==
  ASSUME PaymentTypeOK, NEW p \in Payments, NEW st \in PaymentStatuses, NEW o \in Payouts,
         payment' = [payment EXCEPT ![p] =
           [status |-> st, slip |-> payment[p].slip, gateway |-> payment[p].gateway, payout |-> o]]
  PROVE  /\ payment' \in [Payments -> PaymentRows]
         /\ \A q \in Payments : SamePayment(q)
         /\ payment'[p].status = st /\ payment'[p].payout = o
         /\ \A q \in Payments \ {p} : payment'[q] = payment[q]
<1>1. payment \in [Payments -> PaymentRows]
  BY DEF PaymentTypeOK
<1> QED BY <1>1 DEF PaymentRows, SamePayment

PayslipRows == [status : {"processed", "paid"}, active : Payments \cup {None}]

\* UPDATE payslips SET status = 'paid'.
LEMMA PayslipPaid ==
  ASSUME PaymentTypeOK, NEW s \in Payslips,
         payslip' = [payslip EXCEPT ![s].status = "paid"]
  PROVE  /\ payslip' \in [Payslips -> PayslipRows]
         /\ payslip'[s].status = "paid"
         /\ \A t \in Payslips \ {s} : payslip'[t] = payslip[t]
BY DEF PaymentTypeOK, PayslipRows

\* UPDATE payslips SET active_payment_id.
LEMMA PayslipPointed ==
  ASSUME PaymentTypeOK, NEW s \in Payslips, NEW p \in Payments,
         payslip' = [payslip EXCEPT ![s].active = p]
  PROVE  /\ payslip' \in [Payslips -> PayslipRows]
         /\ \A t \in Payslips : payslip'[t].status = payslip[t].status
BY DEF PaymentTypeOK, PayslipRows

JobRows == [state : JobStates, tries : 0..MaxAttempts, payout : Payouts \cup {None}]
LateRows == [pmt : Payments \cup {None}, state : WorkerStates, payout : Payouts \cup {None}]

\* The queue hands a job out, or takes one in.
LEMMA JobMoved ==
  ASSUME PaymentTypeOK, NEW p \in Payments, NEW st \in JobStates,
         job' = [job EXCEPT ![p].state = st]
  PROVE  /\ job' \in [Payments -> JobRows]
         /\ job'[p].state = st /\ job'[p].tries = job[p].tries
         /\ job'[p].payout = job[p].payout
         /\ \A q \in Payments \ {p} : job'[q] = job[q]
BY DEF PaymentTypeOK, JobRows

\* The worker has the answer of the gateway.
LEMMA JobSent ==
  ASSUME PaymentTypeOK, NEW p \in Payments, NEW o \in Payouts,
         job' = [job EXCEPT ![p].state = "sent", ![p].payout = o]
  PROVE  /\ job' \in [Payments -> JobRows]
         /\ job'[p].state = "sent" /\ job'[p].payout = o /\ job'[p].tries = job[p].tries
         /\ \A q \in Payments \ {p} : job'[q] = job[q]
<1>1. job \in [Payments -> JobRows] /\ "sent" \in JobStates
  BY DEF PaymentTypeOK, JobRows, JobStates, WorkerStates
<1> QED BY <1>1 DEF JobRows

\* A failed attempt is counted, and no attempt is made after the last.
LEMMA JobFailed ==
  ASSUME PaymentTypeOK, NEW p \in Payments, job[p].tries < MaxAttempts,
         job' = [job EXCEPT ![p] = Failed(p)]
  PROVE  /\ job' \in [Payments -> JobRows]
         /\ job'[p].state \in {"waiting", "exhausted"}
         /\ job'[p].state = "waiting" => job'[p].tries < MaxAttempts
         /\ \A q \in Payments \ {p} : job'[q] = job[q]
<1>1. job[p].tries \in 0..MaxAttempts /\ MaxAttempts \in Nat
  BY PaymentAssumption DEF PaymentTypeOK
<1>2. job[p].tries + 1 \in 0..MaxAttempts
  BY <1>1
<1>3. Failed(p) \in JobRows
  BY <1>1, <1>2 DEF Failed, JobRows, JobStates, WorkerStates
<1> QED BY <1>1, <1>3 DEF Failed, PaymentTypeOK, JobRows

\* The job of a stalled worker waits again.
LEMMA JobStalled ==
  ASSUME PaymentTypeOK, NEW p \in Payments,
         job' = [job EXCEPT ![p] =
           [state |-> "waiting", tries |-> job[p].tries, payout |-> None]]
  PROVE  /\ job' \in [Payments -> JobRows]
         /\ job'[p].state = "waiting" /\ job'[p].tries = job[p].tries
         /\ \A q \in Payments \ {p} : job'[q] = job[q]
BY DEF PaymentTypeOK, JobRows, JobStates, WorkerStates

\* A job is done.
LEMMA JobGone ==
  ASSUME PaymentTypeOK, NEW p \in Payments, job' = [job EXCEPT ![p] = NoJob]
  PROVE  /\ job' \in [Payments -> JobRows]
         /\ job'[p] = NoJob
         /\ \A q \in Payments \ {p} : job'[q] = job[q]
BY PaymentAssumption DEF PaymentTypeOK, JobRows, JobStates, WorkerStates, NoJob

ClerkRows == [step : ClerkSteps, slip : Payslips \cup {None}, pmt : Payments \cup {None},
              gateway : Gateways]

\* A request goes on to its next query, or ends.
LEMMA ClerkGoes ==
  ASSUME PaymentTypeOK, NEW c \in Clerks, NEW step \in ClerkSteps, Goes(c, step)
  PROVE  /\ clerk' \in [Clerks -> ClerkRows]
         /\ clerk'[c].step = step
         /\ step # "idle" => /\ clerk'[c].slip = clerk[c].slip /\ clerk'[c].pmt = clerk[c].pmt
                             /\ clerk'[c].gateway = clerk[c].gateway
         /\ \A d \in Clerks \ {c} : clerk'[d] = clerk[d]
<1>1. CASE step = "idle"
  BY <1>1 DEF PaymentTypeOK, ClerkRows, ClerkSteps, Gateways, Goes, Idle
<1>2. CASE step # "idle"
  <2>1. clerk' = [clerk EXCEPT ![c].step = step]
    BY <1>2 DEF Goes
  <2>2. clerk \in [Clerks -> ClerkRows]
    BY DEF PaymentTypeOK, ClerkRows
  <2> QED BY <1>2, <2>1, <2>2 DEF ClerkRows
<1> QED BY <1>1, <1>2

-----------------------------------------------------------------------------
(* Requests.                                                                *)

\* The invariant speaks of the tables only through these parts.
LEMMA TypeParts ==
  ASSUME payslip' \in [Payslips -> PayslipRows], payment' \in [Payments -> PaymentRows],
         clerk' \in [Clerks -> ClerkRows], job' \in [Payments -> JobRows],
         late' \in [Stalls -> LateRows],
         payout' \in [Payouts -> [pmt : Payments \cup {None}, status : PayoutStatuses,
                                  past : SUBSET PayoutStatuses]],
         hook' \in [pmt : Payments \cup {None}, event : PayoutStatuses]
  PROVE  PaymentTypeOK'
BY DEF PaymentTypeOK, PayslipRows, ClerkRows, JobRows, LateRows

LEMMA TypePartsBefore ==
  ASSUME PaymentTypeOK
  PROVE  /\ payslip \in [Payslips -> PayslipRows]
         /\ payment \in [Payments -> PaymentRows]
         /\ clerk \in [Clerks -> ClerkRows]
         /\ job \in [Payments -> JobRows]
         /\ late \in [Stalls -> LateRows]
         /\ payout \in [Payouts -> [pmt : Payments \cup {None}, status : PayoutStatuses,
                                    past : SUBSET PayoutStatuses]]
         /\ hook \in [pmt : Payments \cup {None}, event : PayoutStatuses]
BY DEF PaymentTypeOK, PayslipRows, ClerkRows, JobRows, LateRows

\* Rows that are written stay written and keep their gateway, and payouts are kept:
\* then the workers without a lock still know what they know.
LEMMA LateFrame ==
  ASSUME PaymentInv, late' = late,
         \A q \in Payments : Written(q) => Written(q)' /\ payment'[q].gateway = payment[q].gateway,
         \A o \in Payouts : payout[o].pmt # None => payout'[o].pmt = payout[o].pmt
  PROVE  LateSound'
<1>1. ASSUME NEW n \in Stalls
      PROVE  /\ late[n].state # "none" =>
                  /\ late[n].pmt \in Payments /\ payment'[late[n].pmt].status # "absent"
                  /\ payment'[late[n].pmt].gateway = "razorpay"
             /\ late[n].state = "sent" =>
                  late[n].payout \in Payouts /\ payout'[late[n].payout].pmt = late[n].pmt
  BY NoneIsNoRow DEF PaymentInv, LateSound, Written
<1> QED BY <1>1 DEF LateSound, Written

\* A query that only reads changes nothing but what its request remembers.
LEMMA OnlyClerkMoves ==
  ASSUME PaymentInv, clerk' \in [Clerks -> ClerkRows], ClerksSound',
         UNCHANGED <<payslip, payment, job, late, payout, hook>>
  PROVE  PaymentInv'
<1>1. PaymentTypeOK'
  BY TypeParts, TypePartsBefore DEF PaymentInv
<1>2. RowsSound' /\ JobsSound' /\ PayoutsSound'
  BY DEF PaymentInv, RowsSound, JobsSound, Shared, PayoutsSound, Written
<1>3. HookSound' /\ LateSound'
  BY DEF PaymentInv, HookSound, LateSound, Written
<1>4. OneActivePayment' /\ PaidHasMoney'
  BY DEF PaymentInv, OneActivePayment, ActiveOf, PaidHasMoney
<1> QED BY <1>1, <1>2, <1>3, <1>4 DEF PaymentInv

LEMMA StartKeepsInv ==
  ASSUME PaymentInv, NEW c \in Clerks, ClerkStarts(c)
  PROVE  PaymentInv'
<1> USE NoneIsNoRow
<1>1. ASSUME NEW s \in Payslips, NEW g \in Gateways,
             NEW step \in {"check_active", "insert_paid"}, ReadPayslip(c, s, g, step)
      PROVE  PaymentInv'
  <2>1. clerk' \in [Clerks -> ClerkRows]
    BY <1>1, TypePartsBefore DEF ReadPayslip, PaymentInv, ClerkRows, ClerkSteps
  <2>2. clerk'[c].step = step /\ clerk'[c].slip = s /\ \A d \in Clerks \ {c} : clerk'[d] = clerk[d]
    BY <1>1, TypePartsBefore DEF ReadPayslip, PaymentInv
  <2>3. UNCHANGED <<payslip, payment, job, late, payout, hook>>
    BY <1>1 DEF ReadPayslip
  <2>4. ClerksSound'
    BY <2>2, <2>3 DEF PaymentInv, ClerksSound, Remembers, Written
  <2> QED BY <2>1, <2>3, <2>4, OnlyClerkMoves
<1>2. ASSUME NEW p \in Payments, NEW step \in {"check_active", "confirm", "reverse"},
             ReadPayment(c, p, step)
      PROVE  PaymentInv'
  <2>0. payment[p] \in PaymentRows
    BY TypePartsBefore DEF PaymentInv
  <2>1. clerk' \in [Clerks -> ClerkRows]
    BY <1>2, <2>0, TypePartsBefore DEF ReadPayment, PaymentInv, ClerkRows, ClerkSteps, PaymentRows
  <2>2. /\ clerk'[c].step = step /\ clerk'[c].slip = payment[p].slip /\ clerk'[c].pmt = p
        /\ \A d \in Clerks \ {c} : clerk'[d] = clerk[d]
    BY <1>2, TypePartsBefore DEF ReadPayment, PaymentInv
  <2>3. UNCHANGED <<payslip, payment, job, late, payout, hook>>
    BY <1>2 DEF ReadPayment
  <2>4. /\ payment[p].status \notin {"absent"}
        /\ step = "confirm" => payment[p].gateway = "manual"
        /\ step = "reverse" => payment[p].status = "paid"
    BY <1>2 DEF ReadPayment, ActivePayment
  <2>5. ClerksSound'
    BY <2>2, <2>3, <2>4 DEF PaymentInv, ClerksSound, RowsSound, Remembers, Written
  <2> QED BY <2>1, <2>3, <2>5, OnlyClerkMoves
<1> QED BY <1>1, <1>2 DEF ClerkStarts, Gateways

LEMMA CheckKeepsInv ==
  ASSUME PaymentInv, NEW c \in Clerks, CheckActive(c) \/ EnqueueFails(c)
  PROVE  PaymentInv'
<1>1. PICK step \in {"insert", "idle"} : Goes(c, step)
  BY DEF CheckActive, EnqueueFails
<1>2. UNCHANGED <<payslip, payment, job, late, payout, hook>> /\ clerk[c].step # "idle"
  BY DEF CheckActive, EnqueueFails
<1>3. /\ clerk' \in [Clerks -> ClerkRows]
      /\ clerk'[c].step = step /\ (step # "idle" => clerk'[c].slip = clerk[c].slip)
      /\ \A d \in Clerks \ {c} : clerk'[d] = clerk[d]
  BY <1>1, ClerkGoes DEF PaymentInv, ClerkSteps
<1>4. ClerksSound'
  BY <1>2, <1>3 DEF PaymentInv, ClerksSound, Remembers, Written
<1> QED BY <1>2, <1>3, <1>4, OnlyClerkMoves

\* A new row changes no other row, and nothing refers to it yet.
LEMMA RowInserted ==
  ASSUME PaymentInv, NEW p \in Unused, NEW row \in PaymentRows,
         payment' = [payment EXCEPT ![p] = row]
  PROVE  /\ payment' \in [Payments -> PaymentRows]
         /\ payment'[p] = row
         /\ \A q \in Payments \ {p} : payment'[q] = payment[q]
         /\ p \in Payments /\ ~Written(p) /\ job[p] = NoJob
         /\ \A d \in Clerks : clerk[d].step \in {"enqueue", "confirm", "reverse"} =>
              clerk[d].pmt # p
         /\ \A o \in Payouts : payout[o].pmt # p
         /\ hook # NoHook => hook.pmt # p
<1> USE NoneIsNoRow
<1>1. p \in Payments /\ ~Written(p)
  BY DEF Unused, Written
<1>2. /\ payment' \in [Payments -> PaymentRows]
      /\ payment'[p] = row
      /\ \A q \in Payments \ {p} : payment'[q] = payment[q]
  BY <1>1 DEF PaymentInv, PaymentTypeOK
<1>3. job[p] = NoJob
  BY <1>1 DEF PaymentInv, JobsSound, Shared
<1>4. \A d \in Clerks : clerk[d].step \in {"enqueue", "confirm", "reverse"} => clerk[d].pmt # p
  BY <1>1 DEF PaymentInv, ClerksSound, Remembers
<1>5. \A o \in Payouts : payout[o].pmt # p
  BY <1>1 DEF PaymentInv, PayoutsSound
<1>6. hook # NoHook => hook.pmt # p
  BY <1>1, <1>5 DEF PaymentInv, HookSound
<1> QED BY <1>1, <1>2, <1>3, <1>4, <1>5, <1>6

\* Whatever the new row says, the parts about the worker and the gateway hold on.
LEMMA InsertionFrame ==
  ASSUME PaymentInv, NEW p \in Unused, NEW row \in PaymentRows,
         payment' = [payment EXCEPT ![p] = row],
         row.status # "absent", row.slip \in Payslips, row.payout = None,
         UNCHANGED <<job, late, payout, hook>>
  PROVE  RowsSound' /\ JobsSound' /\ PayoutsSound' /\ LateSound' /\ HookSound'
<1>1. /\ payment'[p] = row
      /\ \A q \in Payments \ {p} : payment'[q] = payment[q]
      /\ p \in Payments /\ job[p] = NoJob
      /\ \A o \in Payouts : payout[o].pmt # p
      /\ hook # NoHook => hook.pmt # p
  BY RowInserted
<1>2. RowsSound'
  BY <1>1 DEF PaymentInv, RowsSound, Written
<1>3. JobsSound'
  BY <1>1 DEF PaymentInv, JobsSound, Shared, Written, NoJob
<1>4. PayoutsSound'
  <2>1. \A o \in Payouts : payout[o].pmt \in Payments \cup {None}
    BY TypePartsBefore DEF PaymentInv
  <2> QED BY <1>1, <2>1 DEF PaymentInv, PayoutsSound, Written
<1>5. HookSound'
  BY <1>1 DEF PaymentInv, HookSound
<1>6. LateSound'
  <2>1. ~Written(p)
    BY RowInserted
  <2>2. \A q \in Payments : Written(q) => Written(q)' /\ payment'[q].gateway = payment[q].gateway
    BY <1>1, <2>1 DEF Written
  <2> QED BY <2>2, LateFrame
<1> QED BY <1>2, <1>3, <1>4, <1>5, <1>6

LEMMA InsertKeepsInv ==
  ASSUME PaymentInv, NEW c \in Clerks, InsertPayment(c)
  PROVE  PaymentInv'
<1> USE NoneIsNoRow
<1> DEFINE p == NewPayment
           s == clerk[c].slip
           row == [status |-> "pending", slip |-> s, gateway |-> clerk[c].gateway, payout |-> None]
<1>1. p \in Unused /\ s \in Payslips /\ clerk[c].gateway \in Gateways /\ clerk[c].step = "insert"
  BY NewPaymentUnused, TypePartsBefore DEF InsertPayment, PaymentInv, ClerksSound, ClerkRows
<1>2. CASE ~IndexAllows(p, s, "pending")
  <2>1. Goes(c, "idle") /\ UNCHANGED <<payslip, payment, job, late, payout, hook>>
    BY <1>2 DEF InsertPayment
  <2>2. /\ clerk' \in [Clerks -> ClerkRows]
        /\ clerk'[c].step = "idle"
        /\ \A d \in Clerks \ {c} : clerk'[d] = clerk[d]
    BY <2>1, ClerkGoes DEF PaymentInv, ClerkSteps
  <2>3. ClerksSound'
    BY <2>1, <2>2 DEF PaymentInv, ClerksSound, Remembers, Written
  <2> QED BY <2>1, <2>2, <2>3, OnlyClerkMoves
<1>3. CASE IndexAllows(p, s, "pending")
  <2>1. row \in PaymentRows
    BY <1>1 DEF PaymentRows, PaymentStatuses, ActivePayment
  <2>2. /\ payment' = [payment EXCEPT ![p] = row]
        /\ payslip' = [payslip EXCEPT ![s].active = p]
        /\ clerk' = [clerk EXCEPT ![c] = IF clerk[c].gateway = "razorpay"
             THEN [step |-> "enqueue", slip |-> s, pmt |-> p, gateway |-> "razorpay"] ELSE Idle]
        /\ UNCHANGED <<job, late, payout, hook>>
    BY <1>3 DEF InsertPayment
  <2>3. row.status = "pending" /\ row.slip = s /\ row.payout = None /\ row.gateway = clerk[c].gateway
    OBVIOUS
  <2> HIDE DEF p, s, row
  <2>4. /\ payment' \in [Payments -> PaymentRows]
        /\ payment'[p] = row
        /\ \A q \in Payments \ {p} : payment'[q] = payment[q]
        /\ p \in Payments /\ ~Written(p) /\ job[p] = NoJob
        /\ \A d \in Clerks : clerk[d].step \in {"enqueue", "confirm", "reverse"} =>
             clerk[d].pmt # p
        /\ \A o \in Payouts : payout[o].pmt # p
    BY <1>1, <2>1, <2>2, RowInserted
  <2>5. /\ clerk' \in [Clerks -> ClerkRows]
        /\ \A d \in Clerks \ {c} : clerk'[d] = clerk[d]
        /\ \/ clerk'[c].step = "idle"
           \/ /\ clerk'[c].step = "enqueue" /\ clerk'[c].slip = s /\ clerk'[c].pmt = p
              /\ clerk[c].gateway = "razorpay"
    BY <1>1, <2>2, <2>4, TypePartsBefore DEF PaymentInv, ClerkRows, ClerkSteps, Gateways, Idle
  <2>6. /\ payslip' \in [Payslips -> PayslipRows]
        /\ \A t \in Payslips : payslip'[t].status = payslip[t].status
    BY <1>1, <2>2, <2>4, PayslipPointed DEF PaymentInv
  <2>7. PaymentTypeOK'
    BY <2>2, <2>4, <2>5, <2>6, TypeParts, TypePartsBefore DEF PaymentInv
  <2>8. RowsSound' /\ JobsSound' /\ PayoutsSound' /\ LateSound' /\ HookSound'
    BY <1>1, <2>1, <2>2, <2>3, InsertionFrame
  <2>9. ClerksSound'
    BY <1>1, <2>2, <2>3, <2>4, <2>5 DEF PaymentInv, ClerksSound, Remembers, Written
  <2>10. OneActivePayment'
    <3>1. ActiveOf(s) \ {p} = {}
      BY <1>3 DEF IndexAllows, ActivePayment
    <3>2. \A t \in Payslips : ActiveOf(t)' \subseteq ActiveOf(t) \cup {p}
      BY <2>4 DEF ActiveOf
    <3>3. \A t \in Payslips : p \in ActiveOf(t)' => t = s
      BY <2>3, <2>4 DEF ActiveOf
    <3> QED BY <3>1, <3>2, <3>3 DEF PaymentInv, OneActivePayment
  <2>11. PaidHasMoney'
    BY <2>2, <2>4, <2>6 DEF PaymentInv, PaidHasMoney, Written
  <2> QED BY <2>7, <2>8, <2>9, <2>10, <2>11 DEF PaymentInv
<1> QED BY <1>2, <1>3

\* A payment that leaves pending keeps the tables that refer to it sound.
LEMMA StatusFrame ==
  ASSUME PaymentInv, NEW p \in Payments, Written(p), NEW st \in PaymentStatuses \ {"pending"},
         payment' = [payment EXCEPT ![p].status = st],
         payout' = payout, late' = late, hook' \in {hook, NoHook}
  PROVE  /\ RowsSound' /\ PayoutsSound' /\ LateSound' /\ HookSound'
         /\ IndexAllows(p, payment[p].slip, st) => OneActivePayment'
<1>1. /\ \A q \in Payments : /\ payment'[q].slip = payment[q].slip
                             /\ payment'[q].gateway = payment[q].gateway
                             /\ payment'[q].payout = payment[q].payout
      /\ payment'[p].status = st
      /\ \A q \in Payments \ {p} : payment'[q] = payment[q]
  BY StatusSet DEF PaymentInv, SamePayment
<1>2. st # "absent" /\ st # "pending"
  BY DEF PaymentStatuses, ActivePayment
<1>3. RowsSound'
  BY <1>1, <1>2 DEF PaymentInv, RowsSound, Written
<1>4. PayoutsSound'
  <2>1. \A o \in Payouts : payout[o].pmt \in Payments \cup {None}
    BY TypePartsBefore DEF PaymentInv
  <2> QED BY <1>1, <1>2, <2>1 DEF PaymentInv, PayoutsSound, Written
<1>5. HookSound'
  BY <1>1 DEF PaymentInv, HookSound
<1>6. ASSUME IndexAllows(p, payment[p].slip, st)
      PROVE  OneActivePayment'
  <2>1. CASE st \notin ActivePayment
    <3>1. \A t \in Payslips : ActiveOf(t)' \subseteq ActiveOf(t)
      BY <1>1, <2>1 DEF ActiveOf
    <3> QED BY <3>1 DEF PaymentInv, OneActivePayment
  <2>2. CASE st \in ActivePayment
    <3>1. ActiveOf(payment[p].slip) \ {p} = {}
      BY <1>6, <2>2 DEF IndexAllows
    <3>2. \A t \in Payslips : ActiveOf(t)' \subseteq ActiveOf(t) \cup {p}
      BY <1>1 DEF ActiveOf
    <3>3. \A t \in Payslips : p \in ActiveOf(t)' => t = payment[p].slip
      BY <1>1 DEF ActiveOf
    <3> QED BY <3>1, <3>2, <3>3 DEF PaymentInv, OneActivePayment
  <2> QED BY <2>1, <2>2
<1>7. LateSound'
  <2>1. \A q \in Payments : Written(q) => Written(q)' /\ payment'[q].gateway = payment[q].gateway
    BY <1>1, <1>2 DEF Written
  <2> QED BY <2>1, LateFrame
<1> QED BY <1>3, <1>4, <1>5, <1>6, <1>7

LEMMA EnqueueKeepsInv ==
  ASSUME PaymentInv, NEW c \in Clerks, Enqueue(c)
  PROVE  PaymentInv'
<1> USE NoneIsNoRow
<1> DEFINE p == clerk[c].pmt
<1>1. /\ clerk[c].step = "enqueue" /\ p \in Payments /\ Written(p)
      /\ payment[p].gateway = "razorpay" /\ job[p] = NoJob
      /\ \A d \in Clerks \ {c} : clerk[d].step = "enqueue" => clerk[d].pmt # p
  BY DEF Enqueue, PaymentInv, ClerksSound, Remembers
<1>2. /\ job' = [job EXCEPT ![p].state = "waiting"] /\ Goes(c, "idle")
      /\ UNCHANGED <<payslip, payment, late, payout, hook>>
  BY DEF Enqueue
<1> HIDE DEF p
<1>3. /\ job' \in [Payments -> JobRows]
      /\ job'[p].state = "waiting" /\ job'[p].tries = job[p].tries
      /\ \A q \in Payments \ {p} : job'[q] = job[q]
  BY <1>1, <1>2, JobMoved DEF PaymentInv, JobStates, WorkerStates
<1>4. /\ clerk' \in [Clerks -> ClerkRows] /\ clerk'[c].step = "idle"
      /\ \A d \in Clerks \ {c} : clerk'[d] = clerk[d]
  BY <1>2, ClerkGoes DEF PaymentInv, ClerkSteps
<1>5. PaymentTypeOK'
  BY <1>2, <1>3, <1>4, TypeParts, TypePartsBefore DEF PaymentInv
<1>6. RowsSound' /\ PayoutsSound' /\ LateSound' /\ HookSound' /\ OneActivePayment' /\ PaidHasMoney'
  BY <1>2 DEF PaymentInv, RowsSound, PayoutsSound, LateSound, HookSound, OneActivePayment, ActiveOf,
              PaidHasMoney, Written
<1>7. JobsSound'
  <2>1. job[p].tries < MaxAttempts
    BY <1>1, PaymentAssumption DEF NoJob
  <2> QED BY <1>1, <1>2, <1>3, <2>1 DEF PaymentInv, JobsSound, Shared, Written
<1>8. ClerksSound'
  BY <1>1, <1>2, <1>3, <1>4 DEF PaymentInv, ClerksSound, Remembers, Written
<1> QED BY <1>5, <1>6, <1>7, <1>8 DEF PaymentInv

\* Confirming and reversing write the payment and the payslip by id; what the
\* request has read still tells which payslip the payment is of.
LEMMA ConfirmKeepsInv ==
  ASSUME PaymentInv, NEW c \in Clerks, ConfirmManual(c)
  PROVE  PaymentInv'
<1> USE NoneIsNoRow
<1> DEFINE p == clerk[c].pmt
           s == clerk[c].slip
<1>1. /\ p \in Payments /\ Written(p) /\ s \in Payslips
      /\ payment[p].gateway = "manual" /\ payment[p].slip = s
  BY DEF ConfirmManual, PaymentInv, ClerksSound, Remembers
<1>2. /\ payment' = [payment EXCEPT ![p].status = "paid"]
      /\ payslip' = [payslip EXCEPT ![s].status = "paid"]
      /\ Goes(c, "idle")
      /\ UNCHANGED <<job, late, payout, hook>>
  BY DEF ConfirmManual
<1> HIDE DEF p, s
<1>3. /\ payment' \in [Payments -> PaymentRows]
      /\ \A q \in Payments : payment'[q].slip = payment[q].slip
                             /\ payment'[q].gateway = payment[q].gateway
      /\ payment'[p].status = "paid"
      /\ \A q \in Payments \ {p} : payment'[q] = payment[q]
  BY <1>1, <1>2, StatusSet DEF PaymentInv, PaymentStatuses, SamePayment
<1>4. /\ payslip' \in [Payslips -> PayslipRows]
      /\ payslip'[s].status = "paid"
      /\ \A t \in Payslips \ {s} : payslip'[t] = payslip[t]
  BY <1>1, <1>2, PayslipPaid DEF PaymentInv
<1>5. /\ clerk' \in [Clerks -> ClerkRows] /\ clerk'[c].step = "idle"
      /\ \A d \in Clerks \ {c} : clerk'[d] = clerk[d]
  BY <1>2, ClerkGoes DEF PaymentInv, ClerkSteps
<1>6. PaymentTypeOK'
  BY <1>2, <1>3, <1>4, <1>5, TypeParts, TypePartsBefore DEF PaymentInv
<1>7. RowsSound' /\ PayoutsSound' /\ LateSound' /\ HookSound' /\ OneActivePayment'
  <2>1. "paid" \in PaymentStatuses \ {"pending"} /\ IndexAllows(p, payment[p].slip, "paid")
    BY DEF PaymentStatuses, ActivePayment, IndexAllows
  <2>2. payout' = payout /\ late' = late /\ hook' \in {hook, NoHook}
    BY <1>2
  <2> QED BY <1>1, <1>2, <2>1, <2>2, StatusFrame
<1>8. JobsSound'
  <2>1. job[p].state = "none"
    BY <1>1 DEF PaymentInv, JobsSound, Shared
  <2> QED BY <1>1, <1>2, <1>3, <2>1 DEF PaymentInv, JobsSound, Shared, Written
<1>9. ClerksSound'
  BY <1>1, <1>2, <1>3, <1>5 DEF PaymentInv, ClerksSound, Remembers, Written
<1>10. PaidHasMoney'
  BY <1>1, <1>2, <1>3, <1>4 DEF PaymentInv, PaidHasMoney
<1> QED BY <1>6, <1>7, <1>8, <1>9, <1>10 DEF PaymentInv

LEMMA ReverseKeepsInv ==
  ASSUME PaymentInv, NEW c \in Clerks, ReversePayment(c)
  PROVE  PaymentInv'
<1> USE NoneIsNoRow
<1> DEFINE p == clerk[c].pmt
           s == clerk[c].slip
<1>1. /\ p \in Payments /\ Written(p) /\ s \in Payslips
      /\ payment[p].status # "pending" /\ payment[p].slip = s
  BY DEF ReversePayment, PaymentInv, ClerksSound, Remembers
<1>2. /\ payment' = [payment EXCEPT ![p].status = "reversed"]
      /\ payslip' = [payslip EXCEPT ![s] = [status |-> "processed", active |-> None]]
      /\ Goes(c, "idle")
      /\ UNCHANGED <<job, late, payout, hook>>
  BY DEF ReversePayment
<1> HIDE DEF p, s
<1>3. /\ payment' \in [Payments -> PaymentRows]
      /\ \A q \in Payments : payment'[q].slip = payment[q].slip
                             /\ payment'[q].gateway = payment[q].gateway
      /\ payment'[p].status = "reversed"
      /\ \A q \in Payments \ {p} : payment'[q] = payment[q]
  BY <1>1, <1>2, StatusSet DEF PaymentInv, PaymentStatuses, SamePayment
<1>4. /\ payslip' \in [Payslips -> PayslipRows]
      /\ payslip'[s].status = "processed"
      /\ \A t \in Payslips \ {s} : payslip'[t] = payslip[t]
  BY <1>1, <1>2, TypePartsBefore DEF PaymentInv, PayslipRows
<1>5. /\ clerk' \in [Clerks -> ClerkRows] /\ clerk'[c].step = "idle"
      /\ \A d \in Clerks \ {c} : clerk'[d] = clerk[d]
  BY <1>2, ClerkGoes DEF PaymentInv, ClerkSteps
<1>6. PaymentTypeOK'
  BY <1>2, <1>3, <1>4, <1>5, TypeParts, TypePartsBefore DEF PaymentInv
<1>7. RowsSound' /\ PayoutsSound' /\ LateSound' /\ HookSound' /\ OneActivePayment'
  <2>1. "reversed" \in PaymentStatuses \ {"pending"} /\ IndexAllows(p, payment[p].slip, "reversed")
    BY DEF PaymentStatuses, ActivePayment, IndexAllows
  <2>2. payout' = payout /\ late' = late /\ hook' \in {hook, NoHook}
    BY <1>2
  <2> QED BY <1>1, <1>2, <2>1, <2>2, StatusFrame
<1>8. JobsSound'
  BY <1>1, <1>2, <1>3 DEF PaymentInv, JobsSound, Shared, Written
<1>9. ClerksSound'
  BY <1>1, <1>2, <1>3, <1>5 DEF PaymentInv, ClerksSound, Remembers, Written
<1>10. PaidHasMoney'
  BY <1>1, <1>2, <1>3, <1>4 DEF PaymentInv, PaidHasMoney
<1> QED BY <1>6, <1>7, <1>8, <1>9, <1>10 DEF PaymentInv

LEMMA InsertPaidKeepsInv ==
  ASSUME PaymentInv, NEW c \in Clerks, InsertPaid(c)
  PROVE  PaymentInv'
<1> USE NoneIsNoRow
<1> DEFINE p == NewPayment
           s == clerk[c].slip
           row == [status |-> "paid", slip |-> s, gateway |-> "manual", payout |-> None]
<1>1. p \in Unused /\ s \in Payslips
  BY NewPaymentUnused DEF InsertPaid, PaymentInv, ClerksSound
<1>2. row \in PaymentRows
  BY <1>1 DEF PaymentRows, PaymentStatuses, Gateways
<1>3. /\ payment' = [payment EXCEPT ![p] = row]
      /\ payslip' = [payslip EXCEPT ![s] = [status |-> "paid", active |-> p]]
      /\ Goes(c, "idle")
      /\ UNCHANGED <<job, late, payout, hook>>
  BY DEF InsertPaid
<1>4. row.status = "paid" /\ row.slip = s /\ row.payout = None /\ row.gateway = "manual"
  OBVIOUS
<1> HIDE DEF p, s, row
<1>5. /\ payment' \in [Payments -> PaymentRows]
      /\ payment'[p] = row
      /\ \A q \in Payments \ {p} : payment'[q] = payment[q]
      /\ p \in Payments /\ ~Written(p) /\ job[p] = NoJob
      /\ \A d \in Clerks : clerk[d].step \in {"enqueue", "confirm", "reverse"} =>
           clerk[d].pmt # p
      /\ \A o \in Payouts : payout[o].pmt # p
  BY <1>1, <1>2, <1>3, RowInserted
<1>6. /\ payslip' \in [Payslips -> PayslipRows]
      /\ \A t \in Payslips \ {s} : payslip'[t] = payslip[t]
  BY <1>1, <1>3, <1>5, TypePartsBefore DEF PaymentInv, PayslipRows
<1>7. /\ clerk' \in [Clerks -> ClerkRows] /\ clerk'[c].step = "idle"
      /\ \A d \in Clerks \ {c} : clerk'[d] = clerk[d]
  BY <1>3, ClerkGoes DEF PaymentInv, ClerkSteps
<1>8. PaymentTypeOK'
  BY <1>3, <1>5, <1>6, <1>7, TypeParts, TypePartsBefore DEF PaymentInv
<1>9. RowsSound' /\ JobsSound' /\ PayoutsSound' /\ LateSound' /\ HookSound'
  BY <1>1, <1>2, <1>3, <1>4, InsertionFrame
<1>10. ClerksSound'
  BY <1>3, <1>5, <1>7 DEF PaymentInv, ClerksSound, Remembers, Written
<1>11. OneActivePayment'
  <2>1. \A t \in Payslips : ActiveOf(t)' \subseteq ActiveOf(t)
    BY <1>4, <1>5 DEF ActiveOf, ActivePayment
  <2> QED BY <2>1 DEF PaymentInv, OneActivePayment
<1>12. PaidHasMoney'
  BY <1>3, <1>4, <1>5, <1>6 DEF PaymentInv, PaidHasMoney, Written
<1> QED BY <1>8, <1>9, <1>10, <1>11, <1>12 DEF PaymentInv

-----------------------------------------------------------------------------
(* The worker.                                                              *)

\* A step of the queue alone: nothing but the one job changes.
LEMMA OnlyJobMoves ==
  ASSUME PaymentInv, NEW p \in Payments, job[p].state # "none",
         job' \in [Payments -> JobRows], \A q \in Payments \ {p} : job'[q] = job[q],
         JobsSound', UNCHANGED <<payslip, payment, clerk, late, payout, hook>>
  PROVE  PaymentInv'
<1>1. PaymentTypeOK'
  BY TypeParts, TypePartsBefore DEF PaymentInv
<1>2. RowsSound' /\ PayoutsSound' /\ LateSound' /\ HookSound' /\ OneActivePayment' /\ PaidHasMoney'
  BY DEF PaymentInv, RowsSound, PayoutsSound, LateSound, HookSound, OneActivePayment, ActiveOf,
         PaidHasMoney, Written
<1>3. ClerksSound'
  BY DEF PaymentInv, ClerksSound, Remembers, Written, NoJob
<1> QED BY <1>1, <1>2, <1>3 DEF PaymentInv

LEMMA StartJobKeepsInv ==
  ASSUME PaymentInv, NEW p \in Payments, StartJob(p)
  PROVE  PaymentInv'
<1>1. /\ job[p].state = "waiting" /\ UNCHANGED <<payslip, payment, clerk, late, payout, hook>>
      /\ Written(p) /\ payment[p].gateway = "razorpay" /\ job[p].tries < MaxAttempts
  BY DEF StartJob, PaymentInv, JobsSound, Shared
<1>2. CASE payment[p].status = "pending"
  <2>1. job' = [job EXCEPT ![p].state = "running"]
    BY <1>2 DEF StartJob
  <2>2. /\ job' \in [Payments -> JobRows]
        /\ job'[p].state = "running" /\ job'[p].tries = job[p].tries
        /\ \A q \in Payments \ {p} : job'[q] = job[q]
    BY <2>1, JobMoved DEF PaymentInv, JobStates, WorkerStates
  <2>3. JobsSound'
    BY <1>1, <1>2, <2>2 DEF PaymentInv, JobsSound, Shared, Written
  <2> QED BY <1>1, <2>2, <2>3, OnlyJobMoves
<1>3. CASE payment[p].status # "pending"
  <2>1. job' = [job EXCEPT ![p] = NoJob]
    BY <1>3 DEF StartJob
  <2>2. /\ job' \in [Payments -> JobRows]
        /\ job'[p] = NoJob
        /\ \A q \in Payments \ {p} : job'[q] = job[q]
    BY <2>1, JobGone DEF PaymentInv
  <2>3. JobsSound'
    BY <1>1, <2>2 DEF PaymentInv, JobsSound, Shared, Written, NoJob
  <2> QED BY <1>1, <2>2, <2>3, OnlyJobMoves
<1> QED BY <1>2, <1>3

LEMMA SendFailsKeepsInv ==
  ASSUME PaymentInv, NEW p \in Payments, SendFails(p)
  PROVE  PaymentInv'
<1>1. /\ job[p].state = "running" /\ UNCHANGED <<payslip, payment, clerk, late, payout, hook>>
      /\ Written(p) /\ payment[p].gateway = "razorpay" /\ job[p].tries < MaxAttempts
  BY DEF SendFails, PaymentInv, JobsSound, Shared
<1>2. /\ job' \in [Payments -> JobRows]
      /\ job'[p].state \in {"waiting", "exhausted"}
      /\ job'[p].state = "waiting" => job'[p].tries < MaxAttempts
      /\ \A q \in Payments \ {p} : job'[q] = job[q]
  BY <1>1, JobFailed DEF SendFails, PaymentInv
<1>3. JobsSound'
  BY <1>1, <1>2 DEF PaymentInv, JobsSound, Shared, Written
<1> QED BY <1>1, <1>2, <1>3, OnlyJobMoves

LEMMA AcknowledgeKeepsInv ==
  ASSUME PaymentInv, NEW p \in Payments, Acknowledge(p)
  PROVE  PaymentInv'
<1>1. /\ job[p].state = "recorded" /\ UNCHANGED <<payslip, payment, clerk, late, payout, hook>>
  BY DEF Acknowledge
<1>2. /\ job' \in [Payments -> JobRows]
      /\ job'[p] = NoJob
      /\ \A q \in Payments \ {p} : job'[q] = job[q]
  BY JobGone DEF Acknowledge, PaymentInv
<1>3. JobsSound'
  BY <1>1, <1>2 DEF PaymentInv, JobsSound, Shared, Written, NoJob
<1> QED BY <1>1, <1>2, <1>3, OnlyJobMoves

LEMMA NewStallFree == FreeStalls # {} => NewStall \in FreeStalls
BY DEF NewStall

\* A worker that lost its lock keeps what it knew; the job waits again or is gone.
LEMMA StallKeepsInv ==
  ASSUME PaymentInv, NEW p \in Payments, Stall(p)
  PROVE  PaymentInv'
<1> USE NoneIsNoRow
<1> DEFINE n == NewStall
           row == [pmt |-> p, state |-> IF job[p].state = "recorded" THEN "none" ELSE job[p].state,
                   payout |-> job[p].payout]
<1>1. /\ job[p].state \in {"running", "sent", "recorded"}
      /\ UNCHANGED <<payslip, payment, clerk, payout, hook>>
      /\ Written(p) /\ payment[p].gateway = "razorpay" /\ job[p].tries < MaxAttempts
      /\ job[p].state = "sent" => job[p].payout \in Payouts /\ payout[job[p].payout].pmt = p
  BY DEF Stall, PaymentInv, JobsSound
<1>2. n \in Stalls /\ late[n].pmt = None /\ late[n].state = "none"
  BY NewStallFree DEF Stall, FreeStalls, PaymentInv, LateSound
<1>3. /\ job' \in [Payments -> JobRows]
      /\ \A q \in Payments \ {p} : job'[q] = job[q]
      /\ job'[p] = NoJob \/ (job'[p].state = "waiting" /\ job'[p].tries = job[p].tries)
  <2>1. CASE job' = [job EXCEPT ![p] = NoJob]
    BY <2>1, JobGone DEF PaymentInv
  <2>2. CASE job' = [job EXCEPT ![p] =
               [state |-> "waiting", tries |-> job[p].tries, payout |-> None]]
    BY <2>2, JobStalled DEF PaymentInv
  <2> QED BY <2>1, <2>2 DEF Stall
<1>4. row \in LateRows /\ row.pmt = p /\ (row.state # "none" => row.state = job[p].state)
      /\ row.payout = job[p].payout
  BY <1>1, TypePartsBefore DEF PaymentInv, LateRows, JobRows, WorkerStates
<1>5. late' = [late EXCEPT ![n] = row]
  BY DEF Stall
<1> HIDE DEF n, row
<1>6. /\ late' \in [Stalls -> LateRows] /\ late'[n] = row
      /\ \A m \in Stalls \ {n} : late'[m] = late[m]
  BY <1>2, <1>4, <1>5, TypePartsBefore DEF PaymentInv
<1>7. PaymentTypeOK'
  BY <1>1, <1>3, <1>6, TypeParts, TypePartsBefore DEF PaymentInv
<1>8. RowsSound' /\ PayoutsSound' /\ HookSound' /\ OneActivePayment' /\ PaidHasMoney'
  BY <1>1 DEF PaymentInv, RowsSound, PayoutsSound, HookSound, OneActivePayment, ActiveOf,
              PaidHasMoney, Written
<1>9. LateSound'
  <2>1. ASSUME NEW m \in Stalls \ {n}
        PROVE  /\ late[m].state # "none" =>
                    /\ late[m].pmt \in Payments /\ payment'[late[m].pmt].status # "absent"
                    /\ payment'[late[m].pmt].gateway = "razorpay"
               /\ late[m].state = "sent" =>
                    late[m].payout \in Payouts /\ payout'[late[m].payout].pmt = late[m].pmt
    BY <1>1 DEF PaymentInv, LateSound, Written
  <2>2. /\ payment'[p].status # "absent" /\ payment'[p].gateway = "razorpay"
        /\ row.state = "sent" => row.payout \in Payouts /\ payout'[row.payout].pmt = p
    BY <1>1, <1>4 DEF Written
  <2> QED BY <1>4, <1>6, <2>1, <2>2 DEF LateSound, Written
<1>10. \A q \in Payments : Shared(q) => Shared(q)'
  BY <1>2, <1>6 DEF Shared
<1>11. JobsSound'
  BY <1>1, <1>3, <1>10 DEF PaymentInv, JobsSound, Written, NoJob
<1>12. ClerksSound'
  BY <1>1, <1>3 DEF PaymentInv, ClerksSound, Remembers, Written, NoJob
<1> QED BY <1>7, <1>8, <1>9, <1>11, <1>12 DEF PaymentInv

\* Nothing refers to the new payout, and every older payout is left alone.
LEMMA CreationFrame ==
  ASSUME PaymentInv, NEW p \in Payments, NEW status \in PayoutStatuses, Creates(p, status),
         Written(p), UNCHANGED <<payslip, payment, hook>>
  PROVE  /\ NewPayout \in Payouts /\ payout'[NewPayout].pmt = p
         /\ payout' \in [Payouts -> [pmt : Payments \cup {None}, status : PayoutStatuses,
                                     past : SUBSET PayoutStatuses]]
         /\ \A o \in Payouts : payout[o].pmt # None => payout'[o] = payout[o]
         /\ \A o \in Payouts : payout'[o].pmt # None => payment'[payout'[o].pmt].status # "absent"
         /\ RowsSound' /\ HookSound' /\ OneActivePayment' /\ PaidHasMoney'
<1> USE NoneIsNoRow
<1> DEFINE o == NewPayout
<1>1. /\ o \in Payouts /\ payout[o].pmt = None
      /\ payout' \in [Payouts -> [pmt : Payments \cup {None}, status : PayoutStatuses,
                                  past : SUBSET PayoutStatuses]]
  BY CreatesType DEF PaymentInv
<1>2. payout'[o].pmt = p /\ \A x \in Payouts \ {o} : payout'[x] = payout[x]
  BY <1>1, TypePartsBefore DEF Creates, PaymentInv
<1> HIDE DEF o
<1>3. \A x \in Payouts : payout[x].pmt # None => payout'[x] = payout[x]
  BY <1>1, <1>2
<1>4. RowsSound'
  <2>1. \A q \in Payments : payment[q].payout \in Payouts \cup {None}
    BY TypePartsBefore DEF PaymentInv, PaymentRows
  <2> QED BY <1>3, <2>1 DEF PaymentInv, RowsSound, Written
<1>5. \A x \in Payouts : payout'[x].pmt # None => payment'[payout'[x].pmt].status # "absent"
  BY <1>2, <1>3 DEF PaymentInv, PayoutsSound, Written
<1>6. HookSound'
  BY <1>3 DEF PaymentInv, HookSound
<1>7. OneActivePayment'
  BY DEF PaymentInv, OneActivePayment, ActiveOf
<1>8. PaidHasMoney'
  BY <1>3 DEF PaymentInv, PaidHasMoney
<1> QED BY <1>1, <1>2, <1>3, <1>4, <1>5, <1>6, <1>7, <1>8 DEF o

LEMMA SendKeepsInv ==
  ASSUME PaymentInv, NEW p \in Payments, SendPayout(p) \/ AnswerLost(p)
  PROVE  PaymentInv'
<1> USE NoneIsNoRow
<1> DEFINE o == NewPayout
<1>1. /\ job[p].state = "running" /\ UNCHANGED <<payslip, payment, clerk, late, hook>>
      /\ Written(p) /\ payment[p].gateway = "razorpay"
      /\ payment[p].status = "pending" \/ Shared(p)
      /\ job[p].tries < MaxAttempts
  BY DEF SendPayout, AnswerLost, PaymentInv, JobsSound
<1>2. PICK status \in PayoutStatuses : Creates(p, status)
  BY DEF SendPayout, AnswerLost, PayoutStatuses
<1>3. /\ o \in Payouts /\ payout'[o].pmt = p
      /\ payout' \in [Payouts -> [pmt : Payments \cup {None}, status : PayoutStatuses,
                                  past : SUBSET PayoutStatuses]]
      /\ \A x \in Payouts : payout[x].pmt # None => payout'[x] = payout[x]
      /\ \A x \in Payouts : payout'[x].pmt # None => payment'[payout'[x].pmt].status # "absent"
      /\ RowsSound' /\ HookSound' /\ OneActivePayment' /\ PaidHasMoney'
  BY <1>1, <1>2, CreationFrame
<1>4. /\ job' \in [Payments -> JobRows]
      /\ \A q \in Payments \ {p} : job'[q] = job[q]
      /\ \/ job'[p].state = "sent" /\ job'[p].payout = o /\ job'[p].tries = job[p].tries
         \/ /\ job'[p].state \in {"waiting", "exhausted"}
            /\ job'[p].state = "waiting" => job'[p].tries < MaxAttempts
  <2>1. CASE SendPayout(p)
    <3>1. job' = [job EXCEPT ![p].state = "sent", ![p].payout = o]
      BY <2>1 DEF SendPayout
    <3> HIDE DEF o
    <3> QED BY <1>3, <3>1, JobSent DEF PaymentInv
  <2>2. CASE AnswerLost(p)
    <3>1. job' = [job EXCEPT ![p] = Failed(p)]
      BY <2>2 DEF AnswerLost
    <3> QED BY <1>1, <3>1, JobFailed DEF PaymentInv
  <2> QED BY <2>1, <2>2
<1> HIDE DEF o
<1>5. PaymentTypeOK'
  BY <1>1, <1>3, <1>4, TypeParts, TypePartsBefore DEF PaymentInv
<1>6. JobsSound'
  BY <1>1, <1>3, <1>4 DEF PaymentInv, JobsSound, Shared, Written
<1>7. ClerksSound'
  BY <1>1, <1>4 DEF PaymentInv, ClerksSound, Remembers, Written, NoJob
<1>8. LateSound'
  BY <1>1, <1>3, LateFrame DEF Written
<1>9. PayoutsSound'
  BY <1>3 DEF PayoutsSound, Written
<1> QED BY <1>3, <1>5, <1>6, <1>7, <1>8, <1>9 DEF PaymentInv

\* The transaction that records a payout: whatever became of the payment since, the
\* index keeps two payments from being active, and the payout was made for it.
LEMMA SavesFrame ==
  ASSUME PaymentInv, NEW p \in Payments, NEW o \in Payouts, Written(p),
         payment[p].gateway = "razorpay", payout[o].pmt = p,
         IndexAllows(p, payment[p].slip, Answer(o)), Saves(p, o), UNCHANGED <<payout, hook>>
  PROVE  /\ payment' \in [Payments -> PaymentRows]
         /\ \A q \in Payments : /\ payment'[q].slip = payment[q].slip
                                /\ payment'[q].gateway = payment[q].gateway
         /\ payment'[p].status \in {"paid", "processing"}
         /\ \A q \in Payments \ {p} : payment'[q] = payment[q]
         /\ payslip' \in [Payslips -> PayslipRows]
         /\ RowsSound' /\ HookSound' /\ OneActivePayment' /\ PaidHasMoney'
<1> USE NoneIsNoRow
<1> DEFINE s == payment[p].slip
           answer == Answer(o)
<1>1. /\ IndexAllows(p, s, answer) /\ s \in Payslips
      /\ payment' = [payment EXCEPT ![p] =
           [status |-> answer, slip |-> s, gateway |-> payment[p].gateway, payout |-> o]]
      /\ payslip' = IF answer = "paid" THEN [payslip EXCEPT ![s].status = "paid"] ELSE payslip
  BY DEF Saves, PaymentInv, RowsSound
<1>2. answer \in {"paid", "processing"} /\ (answer = "paid" => "paid" \in payout[o].past)
  BY DEF Answer
<1> HIDE DEF answer
<1>3. /\ payment' \in [Payments -> PaymentRows]
      /\ \A q \in Payments : /\ payment'[q].slip = payment[q].slip
                             /\ payment'[q].gateway = payment[q].gateway
      /\ payment'[p].status = answer /\ payment'[p].payout = o
      /\ \A q \in Payments \ {p} : payment'[q] = payment[q]
  BY <1>1, <1>2, PayoutSet DEF PaymentInv, PaymentStatuses, ActivePayment, SamePayment
<1>4. /\ payslip' \in [Payslips -> PayslipRows]
      /\ \A t \in Payslips \ {s} : payslip'[t] = payslip[t]
      /\ answer # "paid" => payslip' = payslip
  BY <1>1, PayslipPaid, TypePartsBefore DEF PaymentInv
<1> HIDE DEF s
<1>5. payment[p].slip = s
  BY DEF s
<1>6. RowsSound'
  BY <1>1, <1>2, <1>3, <1>5 DEF PaymentInv, RowsSound, Written
<1>7. HookSound'
  BY <1>3 DEF PaymentInv, HookSound
<1>8. OneActivePayment'
  <2>1. answer \in ActivePayment => ActiveOf(s) \ {p} = {}
    BY <1>1 DEF IndexAllows
  <2>2. \A t \in Payslips : ActiveOf(t)' \subseteq ActiveOf(t) \cup {p}
    BY <1>3 DEF ActiveOf
  <2>3. \A t \in Payslips : p \in ActiveOf(t)' => t = s /\ answer \in ActivePayment
    BY <1>3, <1>5 DEF ActiveOf
  <2> QED BY <2>1, <2>2, <2>3 DEF PaymentInv, OneActivePayment
<1>9. PaidHasMoney'
  BY <1>1, <1>2, <1>3, <1>4, <1>5 DEF PaymentInv, PaidHasMoney
<1> QED BY <1>2, <1>3, <1>4, <1>6, <1>7, <1>8, <1>9

\* Payouts belong to rows that are written, and rows stay written.
LEMMA PayoutsFrame ==
  ASSUME PaymentInv, payout' = payout, \A q \in Payments : Written(q) => Written(q)'
  PROVE  PayoutsSound'
<1>1. \A x \in Payouts : payout[x].pmt \in Payments \cup {None}
  BY TypePartsBefore DEF PaymentInv
<1> QED BY <1>1 DEF PaymentInv, PayoutsSound

LEMMA RecordKeepsInv ==
  ASSUME PaymentInv, NEW p \in Payments, RecordPayout(p)
  PROVE  PaymentInv'
<1> USE NoneIsNoRow
<1> DEFINE o == job[p].payout
<1>1. /\ job[p].state = "sent" /\ UNCHANGED <<clerk, late, payout, hook>>
      /\ Written(p) /\ payment[p].gateway = "razorpay" /\ job[p].tries < MaxAttempts
      /\ o \in Payouts /\ payout[o].pmt = p
  BY DEF RecordPayout, PaymentInv, JobsSound
<1>2. CASE job' = [job EXCEPT ![p] = Failed(p)] /\ UNCHANGED <<payment, payslip>>
  <2>1. /\ job' \in [Payments -> JobRows]
        /\ job'[p].state \in {"waiting", "exhausted"}
        /\ job'[p].state = "waiting" => job'[p].tries < MaxAttempts
        /\ \A q \in Payments \ {p} : job'[q] = job[q]
    BY <1>1, <1>2, JobFailed DEF PaymentInv
  <2>2. JobsSound'
    BY <1>1, <1>2, <2>1 DEF PaymentInv, JobsSound, Shared, Written
  <2> QED BY <1>1, <1>2, <2>1, <2>2, OnlyJobMoves
<1>3. CASE /\ IndexAllows(p, payment[p].slip, Answer(o))
           /\ Saves(p, o)
           /\ job' = [job EXCEPT ![p].state = "recorded", ![p].payout = None]
  <2>1. /\ job' \in [Payments -> JobRows]
        /\ job'[p].state = "recorded" /\ job'[p].tries = job[p].tries
        /\ \A q \in Payments \ {p} : job'[q] = job[q]
    <3>1. job \in [Payments -> JobRows] /\ "recorded" \in JobStates
      BY TypePartsBefore DEF PaymentInv, JobStates, WorkerStates
    <3> QED BY <1>3, <3>1 DEF JobRows
  <2> HIDE DEF o
  <2>2. /\ payment' \in [Payments -> PaymentRows]
        /\ \A q \in Payments : /\ payment'[q].slip = payment[q].slip
                               /\ payment'[q].gateway = payment[q].gateway
        /\ payment'[p].status \in {"paid", "processing"}
        /\ \A q \in Payments \ {p} : payment'[q] = payment[q]
        /\ payslip' \in [Payslips -> PayslipRows]
        /\ RowsSound' /\ HookSound' /\ OneActivePayment' /\ PaidHasMoney'
    BY <1>1, <1>3, SavesFrame
  <2>3. PaymentTypeOK'
    BY <1>1, <2>1, <2>2, TypeParts, TypePartsBefore DEF PaymentInv
  <2>4. JobsSound'
    BY <1>1, <2>1, <2>2 DEF PaymentInv, JobsSound, Shared, Written
  <2>5. ClerksSound'
    BY <1>1, <2>1, <2>2 DEF PaymentInv, ClerksSound, Remembers, Written, NoJob
  <2>6. \A q \in Payments : Written(q) => Written(q)' /\ payment'[q].gateway = payment[q].gateway
    BY <2>2 DEF Written
  <2>7. PayoutsSound' /\ LateSound'
    BY <1>1, <2>6, PayoutsFrame, LateFrame
  <2> QED BY <2>2, <2>3, <2>4, <2>5, <2>7 DEF PaymentInv
<1> QED BY <1>2, <1>3 DEF RecordPayout

\* Workers without a lock take the same steps, only the job is not theirs.
LEMMA LateSendsKeepsInv ==
  ASSUME PaymentInv, NEW n \in Stalls, LateSends(n)
  PROVE  PaymentInv'
<1> USE NoneIsNoRow
<1> DEFINE o == NewPayout
           p == late[n].pmt
<1>1. /\ late[n].state = "running" /\ UNCHANGED <<payslip, payment, clerk, job, hook>>
      /\ p \in Payments /\ Written(p) /\ payment[p].gateway = "razorpay"
  BY DEF LateSends, PaymentInv, LateSound
<1>2. PICK status \in PayoutStatuses : Creates(p, status)
  BY DEF LateSends, PayoutStatuses
<1>3. late' = [late EXCEPT ![n].state = "sent", ![n].payout = o]
  BY DEF LateSends
<1> HIDE DEF p
<1>4. /\ o \in Payouts /\ payout'[o].pmt = p
      /\ payout' \in [Payouts -> [pmt : Payments \cup {None}, status : PayoutStatuses,
                                  past : SUBSET PayoutStatuses]]
      /\ \A x \in Payouts : payout[x].pmt # None => payout'[x] = payout[x]
      /\ \A x \in Payouts : payout'[x].pmt # None => payment'[payout'[x].pmt].status # "absent"
      /\ RowsSound' /\ HookSound' /\ OneActivePayment' /\ PaidHasMoney'
  BY <1>1, <1>2, CreationFrame
<1> HIDE DEF o
<1>5. /\ late' \in [Stalls -> LateRows]
      /\ late'[n].pmt = p /\ late'[n].state = "sent" /\ late'[n].payout = o
      /\ \A m \in Stalls \ {n} : late'[m] = late[m]
  <2>1. late \in [Stalls -> LateRows] /\ "sent" \in WorkerStates /\ late[n].pmt = p
    BY TypePartsBefore DEF PaymentInv, WorkerStates, p
  <2> QED BY <1>3, <1>4, <2>1 DEF LateRows
<1>6. PaymentTypeOK'
  BY <1>1, <1>4, <1>5, TypeParts, TypePartsBefore DEF PaymentInv
<1>7. PayoutsSound' /\ LateSound'
  <2>1. PayoutsSound'
    BY <1>4 DEF PayoutsSound, Written
  <2>2. ASSUME NEW m \in Stalls \ {n}
        PROVE  /\ late[m].state # "none" =>
                    /\ late[m].pmt \in Payments /\ payment'[late[m].pmt].status # "absent"
                    /\ payment'[late[m].pmt].gateway = "razorpay"
               /\ late[m].state = "sent" =>
                    late[m].payout \in Payouts /\ payout'[late[m].payout].pmt = late[m].pmt
    BY <1>1, <1>4 DEF PaymentInv, LateSound, Written
  <2>3. payment'[p].status # "absent" /\ payment'[p].gateway = "razorpay"
    BY <1>1 DEF Written
  <2>4. LateSound'
    BY <1>1, <1>4, <1>5, <2>2, <2>3 DEF LateSound, Written
  <2> QED BY <2>1, <2>4
<1>8. \A q \in Payments : Shared(q) => Shared(q)'
  BY <1>5 DEF Shared, p
<1>9. JobsSound'
  BY <1>1, <1>4, <1>8 DEF PaymentInv, JobsSound, Written
<1>10. ClerksSound'
  BY <1>1 DEF PaymentInv, ClerksSound, Remembers, Written
<1> QED BY <1>4, <1>6, <1>7, <1>9, <1>10 DEF PaymentInv

LEMMA LateRecordsKeepsInv ==
  ASSUME PaymentInv, NEW n \in Stalls, LateRecords(n)
  PROVE  PaymentInv'
<1> USE NoneIsNoRow
<1> DEFINE o == late[n].payout
           p == late[n].pmt
<1>1. /\ late[n].state = "sent" /\ UNCHANGED <<clerk, job, payout, hook>>
      /\ p \in Payments /\ Written(p) /\ payment[p].gateway = "razorpay"
      /\ o \in Payouts /\ payout[o].pmt = p
      /\ IndexAllows(p, payment[p].slip, Answer(o)) /\ Saves(p, o)
  BY DEF LateRecords, PaymentInv, LateSound
<1>2. late' = [late EXCEPT ![n].state = "recorded", ![n].payout = None]
  BY DEF LateRecords
<1>3. /\ late' \in [Stalls -> LateRows]
      /\ late'[n].pmt = p /\ late'[n].state = "recorded"
      /\ \A m \in Stalls \ {n} : late'[m] = late[m]
  <2>1. late \in [Stalls -> LateRows] /\ "recorded" \in WorkerStates
    BY TypePartsBefore DEF PaymentInv, WorkerStates
  <2> QED BY <1>2, <2>1 DEF LateRows
<1>4. /\ late[n].pmt = p /\ \A q \in Payments : Shared(q) => Shared(q)'
      /\ \A q \in Payments : q = p => Shared(q)'
  BY <1>3 DEF Shared
<1> HIDE DEF o, p
<1>5. /\ payment' \in [Payments -> PaymentRows]
      /\ \A q \in Payments : /\ payment'[q].slip = payment[q].slip
                             /\ payment'[q].gateway = payment[q].gateway
      /\ payment'[p].status \in {"paid", "processing"}
      /\ \A q \in Payments \ {p} : payment'[q] = payment[q]
      /\ payslip' \in [Payslips -> PayslipRows]
      /\ RowsSound' /\ HookSound' /\ OneActivePayment' /\ PaidHasMoney'
  BY <1>1, SavesFrame
<1>6. PaymentTypeOK'
  BY <1>1, <1>3, <1>5, TypeParts, TypePartsBefore DEF PaymentInv
<1>7. JobsSound'
  <2>1. ASSUME NEW q \in Payments, job[q].state \in {"running", "sent"}
        PROVE  payment'[q].status = "pending" \/ Shared(q)'
    BY <1>4, <1>5, <2>1 DEF PaymentInv, JobsSound
  <2>2. \A q \in Payments : Written(q) => Written(q)' /\ payment'[q].gateway = payment[q].gateway
    BY <1>5 DEF Written
  <2> QED BY <1>1, <2>1, <2>2 DEF PaymentInv, JobsSound
<1>8. ClerksSound'
  BY <1>1, <1>5 DEF PaymentInv, ClerksSound, Remembers, Written
<1>9. PayoutsSound' /\ LateSound'
  <2>1. \A q \in Payments : Written(q) => Written(q)' /\ payment'[q].gateway = payment[q].gateway
    BY <1>5 DEF Written
  <2>2. PayoutsSound'
    BY <1>1, <2>1, PayoutsFrame
  <2>3. ASSUME NEW m \in Stalls
        PROVE  /\ late[m].state # "none" =>
                    /\ late[m].pmt \in Payments /\ payment'[late[m].pmt].status # "absent"
                    /\ payment'[late[m].pmt].gateway = "razorpay"
               /\ late[m].state = "sent" =>
                    late[m].payout \in Payouts /\ payout'[late[m].payout].pmt = late[m].pmt
    BY <1>1, <2>1 DEF PaymentInv, LateSound, Written
  <2>4. late[n].state # "none"
    BY <1>1
  <2>5. LateSound'
    BY <1>3, <1>4, <2>3, <2>4 DEF LateSound, Written
  <2> QED BY <2>2, <2>5
<1> QED BY <1>5, <1>6, <1>7, <1>8, <1>9 DEF PaymentInv

LEMMA OnFailedKeepsInv ==
  ASSUME PaymentInv, NEW p \in Payments, OnFailed(p)
  PROVE  PaymentInv'
<1> USE NoneIsNoRow
<1>1. /\ job[p].state = "exhausted" /\ UNCHANGED <<payslip, clerk, late, payout, hook>>
      /\ Written(p) /\ payment[p].gateway = "razorpay"
      /\ job' = [job EXCEPT ![p] = NoJob]
  BY DEF OnFailed, PaymentInv, JobsSound, Shared
<1>2. /\ job' \in [Payments -> JobRows]
      /\ job'[p] = NoJob
      /\ \A q \in Payments \ {p} : job'[q] = job[q]
  BY <1>1, JobGone DEF PaymentInv
<1>3. CASE payment' = payment
  <2>1. JobsSound'
    BY <1>1, <1>2, <1>3 DEF PaymentInv, JobsSound, Shared, Written, NoJob
  <2> QED BY <1>1, <1>2, <1>3, <2>1, OnlyJobMoves
<1>4. CASE payment' = [payment EXCEPT ![p].status = "failed"]
  <2>1. /\ payment' \in [Payments -> PaymentRows]
        /\ \A q \in Payments : /\ payment'[q].slip = payment[q].slip
                               /\ payment'[q].gateway = payment[q].gateway
        /\ payment'[p].status = "failed"
        /\ \A q \in Payments \ {p} : payment'[q] = payment[q]
    BY <1>4, StatusSet DEF PaymentInv, PaymentStatuses, SamePayment
  <2>2. PaymentTypeOK'
    BY <1>1, <1>2, <2>1, TypeParts, TypePartsBefore DEF PaymentInv
  <2>3. RowsSound' /\ PayoutsSound' /\ LateSound' /\ HookSound' /\ OneActivePayment'
    <3>1. "failed" \in PaymentStatuses \ {"pending"} /\ IndexAllows(p, payment[p].slip, "failed")
      BY DEF PaymentStatuses, ActivePayment, IndexAllows
    <3>2. payout' = payout /\ late' = late /\ hook' \in {hook, NoHook}
      BY <1>1
    <3> QED BY <1>1, <1>4, <3>1, <3>2, StatusFrame
  <2>4. JobsSound'
    BY <1>1, <1>2, <2>1 DEF PaymentInv, JobsSound, Shared, Written, NoJob
  <2>5. ClerksSound'
    BY <1>1, <1>2, <2>1 DEF PaymentInv, ClerksSound, Remembers, Written, NoJob
  <2>6. PaidHasMoney'
    BY <1>1, <2>1 DEF PaymentInv, PaidHasMoney
  <2> QED BY <2>2, <2>3, <2>4, <2>5, <2>6 DEF PaymentInv
<1> QED BY <1>3, <1>4 DEF OnFailed

-----------------------------------------------------------------------------
(* The gateway.                                                             *)

LEMMA PayoutMovesKeepsInv ==
  ASSUME PaymentInv, NEW o \in Payouts, PayoutMoves(o)
  PROVE  PaymentInv'
<1>1. UNCHANGED <<payslip, payment, clerk, job, late, hook>>
  BY DEF PayoutMoves
<1>2. PICK new \in PayoutStatuses :
        payout' = [payout EXCEPT ![o].status = new, ![o].past = @ \cup {new}]
  BY DEF PayoutMoves
<1>3. /\ payout' \in [Payouts -> [pmt : Payments \cup {None}, status : PayoutStatuses,
                                  past : SUBSET PayoutStatuses]]
      /\ \A x \in Payouts : payout'[x].pmt = payout[x].pmt /\ payout[x].past \subseteq payout'[x].past
  BY <1>2, TypePartsBefore DEF PaymentInv
<1>4. PaymentTypeOK'
  BY <1>1, <1>3, TypeParts, TypePartsBefore DEF PaymentInv
<1>5. RowsSound'
  <2>1. \A q \in Payments : payment[q].payout \in Payouts \cup {None}
    BY TypePartsBefore DEF PaymentInv, PaymentRows
  <2> QED BY <1>1, <1>3, <2>1 DEF PaymentInv, RowsSound, Written
<1>6. JobsSound' /\ ClerksSound' /\ PayoutsSound'
  BY <1>1, <1>3 DEF PaymentInv, JobsSound, Shared, ClerksSound, PayoutsSound, Remembers, Written
<1>10. LateSound'
  BY <1>1, <1>3, LateFrame DEF Written
<1>7. HookSound'
  BY <1>1, <1>3 DEF PaymentInv, HookSound
<1>8. OneActivePayment'
  BY <1>1 DEF PaymentInv, OneActivePayment, ActiveOf
<1>9. PaidHasMoney'
  BY <1>1, <1>3 DEF PaymentInv, PaidHasMoney
<1> QED BY <1>4, <1>5, <1>6, <1>7, <1>8, <1>9, <1>10 DEF PaymentInv

LEMMA ReceiveKeepsInv ==
  ASSUME PaymentInv, NEW o \in Payouts, ReceiveEvent(o)
  PROVE  PaymentInv'
<1> USE NoneIsNoRow
<1>1. UNCHANGED <<payslip, payment, clerk, job, late, payout>>
  BY DEF ReceiveEvent
<1>2. PICK e \in payout[o].past, p \in Payments :
        payment[p].payout = o /\ hook' = [pmt |-> p, event |-> e]
  BY DEF ReceiveEvent
<1>3. hook' \in [pmt : Payments \cup {None}, event : PayoutStatuses]
  BY <1>2, TypePartsBefore DEF PaymentInv
<1>4. PaymentTypeOK'
  BY <1>1, <1>3, TypeParts, TypePartsBefore DEF PaymentInv
<1>5. RowsSound' /\ JobsSound' /\ ClerksSound' /\ PayoutsSound' /\ LateSound'
  BY <1>1 DEF PaymentInv, RowsSound, JobsSound, Shared, ClerksSound, PayoutsSound, LateSound,
              Remembers, Written
<1>6. HookSound'
  <2>1. payout[o].pmt = p
    BY <1>2 DEF PaymentInv, RowsSound
  <2>2. hook'.pmt = p /\ hook'.event = e
    BY <1>2
  <2> QED BY <1>1, <1>2, <2>1, <2>2 DEF HookSound
<1>7. OneActivePayment' /\ PaidHasMoney'
  BY <1>1 DEF PaymentInv, OneActivePayment, ActiveOf, PaidHasMoney
<1> QED BY <1>4, <1>5, <1>6, <1>7 DEF PaymentInv

LEMMA ApplyKeepsInv ==
  ASSUME PaymentInv, ApplyEvent
  PROVE  PaymentInv'
<1> USE NoneIsNoRow
<1> DEFINE p == hook.pmt
           e == hook.event
           s == payment[p].slip
<1>1. /\ hook # NoHook /\ hook' = NoHook /\ UNCHANGED <<clerk, job, late, payout>>
      /\ p \in Payments /\ e \in PayoutStatuses /\ payment[p].gateway = "razorpay"
      /\ payment[p].status \notin {"absent", "pending"} /\ Written(p) /\ s \in Payslips
  BY TypePartsBefore DEF ApplyEvent, PaymentInv, HookSound, RowsSound, Written
<1>2. PICK o \in Payouts : payout[o].pmt = p /\ e \in payout[o].past
  BY <1>1 DEF PaymentInv, HookSound
<1>3. hook' \in [pmt : Payments \cup {None}, event : PayoutStatuses] /\ HookSound'
  BY <1>1 DEF NoHook, PayoutStatuses, HookSound
<1>4. CASE UNCHANGED <<payment, payslip>>
  <2>1. PaymentTypeOK'
    BY <1>1, <1>3, <1>4, TypeParts, TypePartsBefore DEF PaymentInv
  <2>2. RowsSound' /\ JobsSound' /\ ClerksSound' /\ PayoutsSound' /\ LateSound'
    BY <1>1, <1>4 DEF PaymentInv, RowsSound, JobsSound, Shared, ClerksSound, PayoutsSound,
                      LateSound, Remembers, Written
  <2>3. OneActivePayment' /\ PaidHasMoney'
    BY <1>1, <1>4 DEF PaymentInv, OneActivePayment, ActiveOf, PaidHasMoney
  <2> QED BY <1>3, <2>1, <2>2, <2>3 DEF PaymentInv
<1>5. CASE /\ IndexAllows(p, s, e)
           /\ payment' = [payment EXCEPT ![p].status = e]
           /\ payslip' = CASE e = "paid" -> [payslip EXCEPT ![s].status = "paid"]
                           [] e = "reversed" -> [payslip EXCEPT ![s] =
                                [status |-> "processed", active |-> None]]
                           [] OTHER -> payslip
  <2> HIDE DEF p, e
  <2>1. e \in PaymentStatuses \ {"pending"} /\ e # "absent"
    BY <1>1 DEF PayoutStatuses, PaymentStatuses, ActivePayment
  <2>2. /\ payment' \in [Payments -> PaymentRows]
        /\ \A q \in Payments : /\ payment'[q].slip = payment[q].slip
                               /\ payment'[q].gateway = payment[q].gateway
        /\ payment'[p].status = e
        /\ \A q \in Payments \ {p} : payment'[q] = payment[q]
    BY <1>1, <1>5, <2>1, StatusSet DEF PaymentInv, SamePayment
  <2>3. /\ payslip' \in [Payslips -> PayslipRows]
        /\ \A t \in Payslips \ {s} : payslip'[t] = payslip[t]
        /\ (e # "paid" /\ payslip'[s].status = "paid") => payslip[s].status = "paid"
    <3> HIDE DEF s
    <3>1. CASE e = "paid"
      BY <1>1, <1>5, <3>1, PayslipPaid DEF PaymentInv
    <3>2. CASE e = "reversed"
      <4>1. payslip' = [payslip EXCEPT ![s] = [status |-> "processed", active |-> None]]
        BY <1>5, <3>2
      <4> QED BY <1>1, <3>2, <4>1, TypePartsBefore DEF PaymentInv, PayslipRows
    <3>3. CASE e \notin {"paid", "reversed"}
      <4>1. payslip' = payslip
        BY <1>5, <3>3
      <4> QED BY <4>1, TypePartsBefore DEF PaymentInv
    <3> QED BY <3>1, <3>2, <3>3
  <2>4. PaymentTypeOK'
    BY <1>1, <1>3, <2>2, <2>3, TypeParts, TypePartsBefore DEF PaymentInv
  <2>5. RowsSound' /\ PayoutsSound' /\ LateSound' /\ OneActivePayment'
    BY <1>1, <1>5, <2>1, StatusFrame
  <2>6. JobsSound'
    BY <1>1, <2>1, <2>2 DEF PaymentInv, JobsSound, Shared, Written
  <2>7. ClerksSound'
    BY <1>1, <2>1, <2>2 DEF PaymentInv, ClerksSound, Remembers, Written
  <2>8. PaidHasMoney'
    BY <1>1, <1>2, <2>2, <2>3 DEF PaymentInv, PaidHasMoney
  <2> QED BY <1>3, <2>4, <2>5, <2>6, <2>7, <2>8 DEF PaymentInv
<1> QED BY <1>4, <1>5 DEF ApplyEvent

-----------------------------------------------------------------------------
(* The invariant, and what follows from it.                                 *)

LEMMA PaymentInvInit == PaymentInit => PaymentInv
<1> SUFFICES ASSUME PaymentInit PROVE PaymentInv
  OBVIOUS
<1> USE NoneIsNoRow, PaymentAssumption
<1>1. PaymentTypeOK
  <2>1. NoJob \in JobRows /\ Idle \in ClerkRows /\ NoLate \in LateRows
    BY DEF NoJob, Idle, NoLate, JobRows, LateRows, JobStates, WorkerStates, ClerkRows, ClerkSteps,
           Gateways
  <2> QED BY <2>1 DEF PaymentInit, PaymentTypeOK, JobRows, LateRows, ClerkRows, PaymentRows,
                      Gateways, PayoutStatuses, NoHook
<1>2. RowsSound /\ JobsSound
  BY DEF PaymentInit, RowsSound, JobsSound, Shared, Written, NoJob
<1>3. ClerksSound /\ PayoutsSound /\ LateSound /\ HookSound
  BY DEF PaymentInit, ClerksSound, PayoutsSound, LateSound, HookSound, Idle, NoLate
<1>4. OneActivePayment /\ PaidHasMoney
  BY DEF PaymentInit, OneActivePayment, ActiveOf, ActivePayment, PaidHasMoney
<1> QED BY <1>1, <1>2, <1>3, <1>4 DEF PaymentInv

LEMMA PaymentInvStep == PaymentInv /\ [PaymentNext]_paymentVars => PaymentInv'
<1> SUFFICES ASSUME PaymentInv, [PaymentNext]_paymentVars PROVE PaymentInv'
  OBVIOUS
<1>1. ASSUME NEW c \in Clerks, ClerkStarts(c)
      PROVE  PaymentInv'
  BY <1>1, StartKeepsInv
<1>2. ASSUME NEW c \in Clerks, ClerkGoesOn(c)
      PROVE  PaymentInv'
  BY <1>2, CheckKeepsInv, InsertKeepsInv, EnqueueKeepsInv, ConfirmKeepsInv, ReverseKeepsInv,
     InsertPaidKeepsInv DEF ClerkGoesOn
<1>3. ASSUME NEW p \in Payments, WorkerGoesOn(p) \/ Stall(p)
      PROVE  PaymentInv'
  BY <1>3, StartJobKeepsInv, SendKeepsInv, SendFailsKeepsInv, RecordKeepsInv,
     AcknowledgeKeepsInv, OnFailedKeepsInv, StallKeepsInv DEF WorkerGoesOn
<1>4. ASSUME NEW o \in Payouts, PayoutMoves(o) \/ ReceiveEvent(o)
      PROVE  PaymentInv'
  BY <1>4, PayoutMovesKeepsInv, ReceiveKeepsInv
<1>7. ASSUME NEW n \in Stalls, LateSends(n) \/ LateRecords(n)
      PROVE  PaymentInv'
  BY <1>7, LateSendsKeepsInv, LateRecordsKeepsInv
<1>5. CASE ApplyEvent
  BY <1>5, ApplyKeepsInv
<1>6. CASE UNCHANGED paymentVars
  <2>1. UNCHANGED <<payslip, payment, clerk, job, late, payout, hook>>
    BY <1>6 DEF paymentVars
  <2>2. clerk' \in [Clerks -> ClerkRows]
    BY <2>1, TypePartsBefore DEF PaymentInv
  <2>3. ClerksSound'
    BY <2>1 DEF PaymentInv, ClerksSound, Remembers, Written
  <2> QED BY <2>1, <2>2, <2>3, OnlyClerkMoves
<1> QED BY <1>1, <1>2, <1>3, <1>4, <1>5, <1>6, <1>7 DEF PaymentNext

\* The invariant holds in every reachable state.
THEOREM PaymentInvHolds == PaymentSpec => []PaymentInv
BY PaymentInvInit, PaymentInvStep, PTL DEF PaymentSpec

\* The tables keep their types; in particular no job is tried more than
\* MaxAttempts times.
THEOREM PaymentTypesHold == PaymentSpec => []PaymentTypeOK
<1>1. PaymentInv => PaymentTypeOK
  BY DEF PaymentInv
<1> QED BY <1>1, PaymentInvHolds, PTL

\* No payslip ever has two active payments, however requests race, jobs run
\* again and late events move settled payments back.
THEOREM NeverTwoActive == PaymentSpec => []OneActivePayment
<1>1. PaymentInv => OneActivePayment
  BY DEF PaymentInv
<1> QED BY <1>1, PaymentInvHolds, PTL

\* A payslip is shown as paid only if a payment of it was confirmed by hand and
\* not reversed, or the gateway did pay one.
THEOREM PaidMeansMoney == PaymentSpec => []PaidHasMoney
<1>1. PaymentInv => PaidHasMoney
  BY DEF PaymentInv
<1> QED BY <1>1, PaymentInvHolds, PTL

\* The guard at the head of handlePayout is enough as long as one worker at a time
\* has the job: nothing settles the payment between it and the call of the gateway.
THEOREM NothingSentOnceSettled == PaymentSpec => SentOnlyWhilePending
<1> DEFINE Sent == \A o \in Payouts : payout[o].pmt = None /\ payout'[o].pmt # None =>
                     LET p == payout'[o].pmt IN
                       \/ payment[p].status = "pending"
                       \/ \E n \in Stalls : late[n].pmt = p /\ late[n].state # "none"
<1>1. PaymentInv /\ [PaymentNext]_paymentVars => [Sent]_paymentVars
  <2> SUFFICES ASSUME PaymentInv, PaymentNext PROVE Sent
    OBVIOUS
  <2>1. CASE payout' = payout
    BY <2>1
  <2>2. ASSUME NEW p \in Payments, payment[p].status = "pending" \/ Shared(p),
               NEW status \in PayoutStatuses, Creates(p, status)
        PROVE  Sent
    <3>1. NewPayout \in Payouts
      BY <2>2, CreatesType DEF PaymentInv
    <3>2. payout'[NewPayout].pmt = p /\ \A o \in Payouts \ {NewPayout} : payout'[o] = payout[o]
      BY <2>2, <3>1, TypePartsBefore DEF Creates, PaymentInv
    <3> QED BY <2>2, <3>1, <3>2 DEF Shared
  <2>3. ASSUME NEW p \in Payments, SendPayout(p) \/ AnswerLost(p)
        PROVE  Sent
    <3>1. payment[p].status = "pending" \/ Shared(p)
      BY <2>3 DEF SendPayout, AnswerLost, PaymentInv, JobsSound
    <3>2. PICK status \in PayoutStatuses : Creates(p, status)
      BY <2>3 DEF SendPayout, AnswerLost, PayoutStatuses
    <3> QED BY <2>2, <3>1, <3>2
  <2>4. ASSUME NEW n \in Stalls, LateSends(n)
        PROVE  Sent
    <3>1. late[n].pmt \in Payments /\ Shared(late[n].pmt)
      BY <2>4 DEF LateSends, PaymentInv, LateSound, Shared
    <3>2. PICK status \in PayoutStatuses : Creates(late[n].pmt, status)
      BY <2>4 DEF LateSends, PayoutStatuses
    <3> QED BY <2>2, <3>1, <3>2
  <2>5. ASSUME NEW o \in Payouts, PayoutMoves(o)
        PROVE  Sent
    <3>1. \A x \in Payouts : payout'[x].pmt = payout[x].pmt
      BY <2>5, TypePartsBefore DEF PayoutMoves, PaymentInv
    <3> QED BY <3>1
  <2>6. ASSUME NEW c \in Clerks, ClerkStarts(c) \/ ClerkGoesOn(c)
        PROVE  payout' = payout
    BY <2>6 DEF ClerkStarts, ClerkGoesOn, ReadPayslip, ReadPayment, CheckActive, InsertPayment,
                Enqueue, EnqueueFails, ConfirmManual, ReversePayment, InsertPaid
  <2>7. ASSUME NEW p \in Payments, WorkerGoesOn(p) \/ Stall(p)
        PROVE  payout' = payout \/ SendPayout(p) \/ AnswerLost(p)
    BY <2>7 DEF WorkerGoesOn, StartJob, SendFails, RecordPayout, Acknowledge, OnFailed, Stall
  <2>8. ASSUME NEW o \in Payouts, ReceiveEvent(o)
        PROVE  payout' = payout
    BY <2>8 DEF ReceiveEvent
  <2>9. ASSUME NEW n \in Stalls, LateRecords(n)
        PROVE  payout' = payout
    BY <2>9 DEF LateRecords
  <2>10. ApplyEvent => payout' = payout
    BY DEF ApplyEvent
  <2> HIDE DEF Sent
  <2> QED BY <2>1, <2>3, <2>4, <2>5, <2>6, <2>7, <2>8, <2>9, <2>10 DEF PaymentNext
<1>2. PaymentSpec => [][Sent]_paymentVars
  BY <1>1, PaymentInvHolds, PTL DEF PaymentSpec
<1> QED BY <1>2 DEF SentOnlyWhilePending
=============================================================================
