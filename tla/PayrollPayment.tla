--------------------------- MODULE PayrollPayment ---------------------------
(***************************************************************************)
(* Paying payslips: PayrollPaymentService (initiate, retry, confirm,       *)
(* reverse, the legacy mark-paid and the gateway's webhooks) and the       *)
(* PayrollPayoutProcessor that works off the payout queue.  A request is   *)
(* read first and written later in a transaction; the gateway and the      *)
(* queue are modelled from how the code uses them: a payout may be created *)
(* without the worker learning of it, a job may be run again although its  *)
(* first worker goes on, and events arrive late, repeatedly, out of order  *)
(* or never.                                                               *)
(***************************************************************************)
EXTENDS Integers

CONSTANTS
  Payslips,
  Clerks,          \* HTTP requests in flight
  MaxPayments,     \* bound on the rows of payroll_payments
  MaxPayouts,      \* bound on the payouts the gateway creates
  MaxAttempts,     \* attempts of a job (3 in the code)
  MaxStalls,       \* bound on the workers that lose the lock on their job
  AnswersLost,     \* whether createPayout may take effect and yet fail
  QueueFails,      \* whether adding a job to the queue may fail
  Commits          \* whether the transactions of the worker and the webhook,
                   \* which end with an audit row, are committed: {TRUE} if they
                   \* always are, {FALSE} if the audit table refuses the row

ASSUME PaymentAssumption ==
  /\ MaxPayments \in Nat /\ MaxPayouts \in Nat
  /\ MaxAttempts \in Nat \ {0} /\ MaxStalls \in Nat
  /\ AnswersLost \in BOOLEAN /\ QueueFails \in BOOLEAN
  /\ Commits \subseteq BOOLEAN /\ Commits # {}

VARIABLES
  payslip,     \* payslips: status and active_payment_id
  payment,     \* payroll_payments
  clerk,       \* what each request is doing
  job,         \* the payout queue: the job of each payment and its worker
  late,        \* the workers that lost the lock on their job
  payout,      \* the gateway's payouts
  hook         \* the webhook request being handled

paymentVars == <<payslip, payment, clerk, job, late, payout, hook>>

Payments == 1..MaxPayments
Payouts  == 1..MaxPayouts
Stalls   == 1..MaxStalls
None     == 0

ActivePayment   == {"pending", "processing"}
PaymentStatuses == ActivePayment \cup {"paid", "failed", "cancelled", "reversed"}
Gateways        == {"razorpay", "manual"}
PaymentRows == [status : PaymentStatuses \cup {"absent"}, slip : Payslips \cup {None},
                gateway : Gateways, payout : Payouts \cup {None}]
PayoutStatuses == {"processing", "paid", "failed", "reversed"}
WorkerStates == {"none", "running", "sent", "recorded"}
JobStates == WorkerStates \cup {"waiting", "exhausted"}
ClerkSteps == {"idle", "check_active", "insert", "enqueue", "confirm", "reverse",
               "insert_paid"}

\* past: every status the payout has had; the gateway sends an event for each.
PaymentTypeOK ==
  /\ payslip \in [Payslips -> [status : {"processed", "paid"}, active : Payments \cup {None}]]
  /\ payment \in [Payments -> PaymentRows]
  /\ clerk \in [Clerks -> [step : ClerkSteps, slip : Payslips \cup {None}, pmt : Payments \cup {None},
                           gateway : Gateways]]
  /\ job \in [Payments -> [state : JobStates, tries : 0..MaxAttempts, payout : Payouts \cup {None}]]
  /\ late \in [Stalls -> [pmt : Payments \cup {None}, state : WorkerStates,
                         payout : Payouts \cup {None}]]
  /\ payout \in [Payouts -> [pmt : Payments \cup {None}, status : PayoutStatuses,
                             past : SUBSET PayoutStatuses]]
  /\ hook \in [pmt : Payments \cup {None}, event : PayoutStatuses]

NoJob  == [state |-> "none", tries |-> 0, payout |-> None]
NoLate == [pmt |-> None, state |-> "none", payout |-> None]
Idle   == [step |-> "idle", slip |-> None, pmt |-> None, gateway |-> "manual"]
NoHook == [pmt |-> None, event |-> "processing"]

PaymentInit ==
  /\ payslip = [s \in Payslips |-> [status |-> "processed", active |-> None]]
  /\ payment = [p \in Payments |-> [status |-> "absent", slip |-> None,
                                    gateway |-> "manual", payout |-> None]]
  /\ clerk = [c \in Clerks |-> Idle]
  /\ job = [p \in Payments |-> NoJob]
  /\ late = [n \in Stalls |-> NoLate]
  /\ payout = [o \in Payouts |-> [pmt |-> None, status |-> "processing", past |-> {}]]
  /\ hook = NoHook

-----------------------------------------------------------------------------
(* Requests.                                                                *)

ActiveOf(s) == {p \in Payments : payment[p].slip = s /\ payment[p].status \in ActivePayment}

\* Mutant: the unique index is missing.
IndexMissing(p, s, status) == TRUE

\* uq_payroll_payment_active: the statement fails when another payment of the
\* payslip is active.
IndexAllows(p, s, status) == status \in ActivePayment => ActiveOf(s) \ {p} = {}

Unused == {p \in Payments : payment[p].status = "absent"}
NewPayment == CHOOSE p \in Unused : TRUE

Goes(c, step) ==
  clerk' = IF step = "idle" THEN [clerk EXCEPT ![c] = Idle] ELSE [clerk EXCEPT ![c].step = step]

\* initiatePayment and each payslip of bulkInitiatePayments; markPaidLegacy.
ReadPayslip(c, s, gateway, step) ==
  /\ clerk[c].step = "idle"
  /\ payslip[s].status # "paid"
  /\ clerk' = [clerk EXCEPT ![c] =
       [step |-> step, slip |-> s, pmt |-> None, gateway |-> gateway]]
  /\ UNCHANGED <<payslip, payment, job, late, payout, hook>>

\* retryPayment, markManualPaid and reversePayment read the payment first.
ReadPayment(c, p, step) ==
  /\ clerk[c].step = "idle"
  /\ CASE step = "check_active" -> payment[p].status \in {"failed", "cancelled"}
       [] step = "confirm" -> payment[p].status \in ActivePayment
                              /\ payment[p].gateway = "manual"
       [] step = "reverse" -> payment[p].status = "paid"
  /\ clerk' = [clerk EXCEPT ![c] = [step |-> step, slip |-> payment[p].slip, pmt |-> p,
                                    gateway |-> payment[p].gateway]]
  /\ UNCHANGED <<payslip, payment, job, late, payout, hook>>

\* A second query looks for another active payment of the payslip.
CheckActive(c) ==
  /\ clerk[c].step = "check_active"
  /\ Goes(c, IF ActiveOf(clerk[c].slip) \ {clerk[c].pmt} = {} THEN "insert" ELSE "idle")
  /\ UNCHANGED <<payslip, payment, job, late, payout, hook>>

\* The transaction that inserts the payment and points the payslip at it.
InsertPayment(c) ==
  LET p == NewPayment
      s == clerk[c].slip
  IN
  /\ clerk[c].step = "insert"
  /\ Unused # {}
  /\ IF ~IndexAllows(p, s, "pending")
     THEN Goes(c, "idle") /\ UNCHANGED <<payment, payslip>>
     ELSE /\ payment' = [payment EXCEPT ![p] =
               [status |-> "pending", slip |-> s, gateway |-> clerk[c].gateway,
                payout |-> None]]
          /\ payslip' = [payslip EXCEPT ![s].active = p]
          /\ clerk' = [clerk EXCEPT ![c] = IF @.gateway = "razorpay"
               THEN [step |-> "enqueue", slip |-> s, pmt |-> p, gateway |-> "razorpay"]
               ELSE Idle]
  /\ UNCHANGED <<job, late, payout, hook>>

Enqueue(c) ==
  /\ clerk[c].step = "enqueue"
  /\ job' = [job EXCEPT ![clerk[c].pmt].state = "waiting"]
  /\ Goes(c, "idle")
  /\ UNCHANGED <<payslip, payment, late, payout, hook>>

\* The payment is committed by now and stays pending without a job.
EnqueueFails(c) ==
  /\ QueueFails
  /\ clerk[c].step = "enqueue"
  /\ Goes(c, "idle")
  /\ UNCHANGED <<payslip, payment, job, late, payout, hook>>

\* markManualPaid: the transaction, with no condition on what was read.
ConfirmManual(c) ==
  /\ clerk[c].step = "confirm"
  /\ payment' = [payment EXCEPT ![clerk[c].pmt].status = "paid"]
  /\ payslip' = [payslip EXCEPT ![clerk[c].slip].status = "paid"]
  /\ Goes(c, "idle")
  /\ UNCHANGED <<job, late, payout, hook>>

ReversePayment(c) ==
  /\ clerk[c].step = "reverse"
  /\ payment' = [payment EXCEPT ![clerk[c].pmt].status = "reversed"]
  /\ payslip' = [payslip EXCEPT ![clerk[c].slip] = [status |-> "processed", active |-> None]]
  /\ Goes(c, "idle")
  /\ UNCHANGED <<job, late, payout, hook>>

\* markPaidLegacy inserts a paid cash payment; active payments do not matter.
InsertPaid(c) ==
  LET p == NewPayment
      s == clerk[c].slip
  IN
  /\ clerk[c].step = "insert_paid"
  /\ Unused # {}
  /\ payment' = [payment EXCEPT ![p] = [status |-> "paid", slip |-> s,
                                        gateway |-> "manual", payout |-> None]]
  /\ payslip' = [payslip EXCEPT ![s] = [status |-> "paid", active |-> p]]
  /\ Goes(c, "idle")
  /\ UNCHANGED <<job, late, payout, hook>>

-----------------------------------------------------------------------------
(* The payout worker.                                                       *)

\* Mutant: the idempotency guard is missing.
StartAnyJob(p) ==
  /\ job[p].state = "waiting"
  /\ job' = [job EXCEPT ![p].state = "running"]
  /\ UNCHANGED <<payslip, payment, clerk, late, payout, hook>>

\* "Re-fetch payment - skip if no longer pending".
StartJob(p) ==
  /\ job[p].state = "waiting"
  /\ job' = [job EXCEPT ![p] = IF payment[p].status = "pending"
                               THEN [@ EXCEPT !.state = "running"] ELSE NoJob]
  /\ UNCHANGED <<payslip, payment, clerk, late, payout, hook>>

\* Mutant: one attempt too many.
FailedOnceMore(p) ==
  [state |-> IF job[p].tries <= MaxAttempts THEN "waiting" ELSE "exhausted",
   tries |-> job[p].tries + 1, payout |-> None]

\* The exception that Bull counts as an attempt.
Failed(p) ==
  [state |-> IF job[p].tries + 1 < MaxAttempts THEN "waiting" ELSE "exhausted",
   tries |-> job[p].tries + 1, payout |-> None]

FreePayouts == {o \in Payouts : payout[o].pmt = None}
NewPayout   == CHOOSE o \in FreePayouts : TRUE

Creates(p, status) ==
  /\ FreePayouts # {}
  /\ payout' = [payout EXCEPT ![NewPayout] = [pmt |-> p, status |-> status, past |-> {status}]]

\* createPayout: accepted or confirmed at once, and the worker is told.
SendPayout(p) ==
  /\ job[p].state = "running"
  /\ \E status \in {"processing", "paid"} : Creates(p, status)
  /\ job' = [job EXCEPT ![p].state = "sent", ![p].payout = NewPayout]
  /\ UNCHANGED <<payslip, payment, clerk, late, hook>>

\* The gateway refuses or can not be reached, before any effect.
SendFails(p) ==
  /\ job[p].state = "running"
  /\ job' = [job EXCEPT ![p] = Failed(p)]
  /\ UNCHANGED <<payslip, payment, clerk, late, payout, hook>>

\* The gateway creates the payout, the worker times out waiting for the answer.
AnswerLost(p) ==
  /\ AnswersLost
  /\ job[p].state = "running"
  /\ \E status \in {"processing", "paid"} : Creates(p, status)
  /\ job' = [job EXCEPT ![p] = Failed(p)]
  /\ UNCHANGED <<payslip, payment, clerk, late, hook>>

\* Mutant: every accepted payout counts as paid.
RecordAsPaid(p) ==
  /\ job[p].state = "sent"
  /\ payment' = [payment EXCEPT ![p].status = "paid", ![p].payout = job[p].payout]
  /\ payslip' = [payslip EXCEPT ![payment[p].slip].status = "paid"]
  /\ job' = [job EXCEPT ![p].state = "recorded"]
  /\ UNCHANGED <<clerk, late, payout, hook>>

\* What createPayout answered: the first status of the payout.
Answer(o) == IF "paid" \in payout[o].past /\ "processing" \notin payout[o].past
             THEN "paid" ELSE "processing"

\* The payment and the payslip of a payout that was confirmed at once.
Saves(p, o) ==
  /\ payment' = [payment EXCEPT ![p] = [status |-> Answer(o), slip |-> payment[p].slip,
                                        gateway |-> payment[p].gateway, payout |-> o]]
  /\ payslip' = IF Answer(o) = "paid" THEN [payslip EXCEPT ![payment[p].slip].status = "paid"]
                ELSE payslip

\* One transaction, with no condition on the status and with an audit row.
\* createPayout is not part of it and stays when it rolls back.
RecordPayout(p) ==
  LET o == job[p].payout IN
  /\ job[p].state = "sent"
  /\ \E commit \in Commits :
     IF commit /\ IndexAllows(p, payment[p].slip, Answer(o))
     THEN Saves(p, o) /\ job' = [job EXCEPT ![p].state = "recorded", ![p].payout = None]
     ELSE job' = [job EXCEPT ![p] = Failed(p)] /\ UNCHANGED <<payment, payslip>>
  /\ UNCHANGED <<clerk, late, payout, hook>>

Acknowledge(p) ==
  /\ job[p].state = "recorded"
  /\ job' = [job EXCEPT ![p] = NoJob]
  /\ UNCHANGED <<payslip, payment, clerk, late, payout, hook>>

FreeStalls == {n \in Stalls : late[n].pmt = None}
NewStall   == CHOOSE n \in FreeStalls : TRUE

\* A worker that lost its lock: the queue hands the job out again, or drops it if
\* it stalled too often before (maxStalledCount, here at any time); onFailed then
\* returns, the attempts are not used up.
Stall(p) ==
  /\ job[p].state \in {"running", "sent", "recorded"}
  /\ FreeStalls # {}
  /\ late' = [late EXCEPT ![NewStall] =
       [pmt |-> p, state |-> IF job[p].state = "recorded" THEN "none" ELSE job[p].state,
        payout |-> job[p].payout]]
  /\ \E again \in BOOLEAN :
       job' = [job EXCEPT ![p] =
         IF again THEN [state |-> "waiting", tries |-> job[p].tries, payout |-> None] ELSE NoJob]
  /\ UNCHANGED <<payslip, payment, clerk, payout, hook>>

\* That worker may be dead, or it goes on behind the guard it has passed; how it
\* ends is nothing to the queue any more.
LateSends(n) ==
  /\ late[n].state = "running"
  /\ \E status \in {"processing", "paid"} : Creates(late[n].pmt, status)
  /\ late' = [late EXCEPT ![n].state = "sent", ![n].payout = NewPayout]
  /\ UNCHANGED <<payslip, payment, clerk, job, hook>>

LateRecords(n) ==
  LET p == late[n].pmt
      o == late[n].payout
  IN
  /\ late[n].state = "sent"
  /\ TRUE \in Commits /\ IndexAllows(p, payment[p].slip, Answer(o))
  /\ Saves(p, o)
  /\ late' = [late EXCEPT ![n].state = "recorded", ![n].payout = None]
  /\ UNCHANGED <<clerk, job, payout, hook>>

\* onFailed after the last attempt, again one transaction with an audit row.
OnFailed(p) ==
  /\ job[p].state = "exhausted"
  /\ \E commit \in Commits :
       payment' = IF commit THEN [payment EXCEPT ![p].status = "failed"] ELSE payment
  /\ job' = [job EXCEPT ![p] = NoJob]
  /\ UNCHANGED <<payslip, clerk, late, payout, hook>>

-----------------------------------------------------------------------------
(* The gateway and its webhooks.                                            *)

\* What becomes of a payout (external).
PayoutMoves(o) ==
  /\ payout[o].pmt # None
  /\ \E new \in PayoutStatuses :
       /\ \/ payout[o].status = "processing" /\ new \in {"paid", "failed"}
          \/ payout[o].status = "paid" /\ new = "reversed"
       /\ payout' = [payout EXCEPT ![o].status = new, ![o].past = @ \cup {new}]
  /\ UNCHANGED <<payslip, payment, clerk, job, late, hook>>

\* handleGatewayEvent looks the payment up by payout id and compares statuses.
ReceiveEvent(o) ==
  /\ hook = NoHook
  /\ \E e \in payout[o].past, p \in Payments :
       /\ payment[p].payout = o
       /\ payment[p].status # e
       /\ hook' = [pmt |-> p, event |-> e]
  /\ UNCHANGED <<payslip, payment, clerk, job, late, payout>>

\* The transaction; an error is logged and answered with 200.
ApplyEvent ==
  LET p    == hook.pmt
      e    == hook.event
      slip == payment[p].slip
  IN
  /\ hook # NoHook
  /\ \E commit \in Commits :
     IF commit /\ IndexAllows(p, slip, e)
     THEN /\ payment' = [payment EXCEPT ![p].status = e]
          /\ payslip' = CASE e = "paid" -> [payslip EXCEPT ![slip].status = "paid"]
                          [] e = "reversed" -> [payslip EXCEPT ![slip] =
                               [status |-> "processed", active |-> None]]
                          [] OTHER -> payslip
     ELSE UNCHANGED <<payment, payslip>>
  /\ hook' = NoHook
  /\ UNCHANGED <<clerk, job, late, payout>>

-----------------------------------------------------------------------------

ClerkStarts(c) ==
  \/ \E s \in Payslips, g \in Gateways : ReadPayslip(c, s, g, "check_active")
  \/ \E s \in Payslips : ReadPayslip(c, s, "manual", "insert_paid")
  \/ \E p \in Payments, step \in {"check_active", "confirm", "reverse"} :
       ReadPayment(c, p, step)

ClerkGoesOn(c) ==
  \/ CheckActive(c) \/ InsertPayment(c) \/ Enqueue(c) \/ EnqueueFails(c)
  \/ ConfirmManual(c) \/ ReversePayment(c) \/ InsertPaid(c)

WorkerGoesOn(p) ==
  \/ StartJob(p) \/ SendPayout(p) \/ SendFails(p) \/ AnswerLost(p)
  \/ RecordPayout(p) \/ Acknowledge(p) \/ OnFailed(p)

PaymentNext ==
  \/ \E c \in Clerks : ClerkStarts(c) \/ ClerkGoesOn(c)
  \/ \E p \in Payments : WorkerGoesOn(p) \/ Stall(p)
  \/ \E n \in Stalls : LateSends(n) \/ LateRecords(n)
  \/ \E o \in Payouts : PayoutMoves(o) \/ ReceiveEvent(o)
  \/ ApplyEvent

PaymentSpec == PaymentInit /\ [][PaymentNext]_paymentVars

-----------------------------------------------------------------------------
(* Properties.                                                              *)

\* "Only one active (pending/processing) payment per payslip at a time", also
\* when late events move a settled payment back.
OneActivePayment == \A s \in Payslips : \A p, q \in ActiveOf(s) : p = q

\* A payslip is shown as paid only if somebody confirmed a payment of it by hand
\* or the gateway did pay one, whatever events were repeated, lost or reordered.
PaidHasMoney ==
  \A s \in Payslips : payslip[s].status = "paid" =>
    \E p \in Payments :
      /\ payment[p].slip = s
      /\ \/ payment[p].status = "paid" /\ payment[p].gateway = "manual"
         \/ \E o \in Payouts : payout[o].pmt = p /\ "paid" \in payout[o].past

\* The idempotency guard of handlePayout: nothing is sent to the gateway for a
\* payment that is no longer pending, however often its job fails and is tried
\* again.  Once a worker has lost its lock two are past the guard, and the one
\* may send what the other has recorded.
SentOnlyWhilePending ==
  [][\A o \in Payouts : payout[o].pmt = None /\ payout'[o].pmt # None =>
       LET p == payout'[o].pmt IN
         \/ payment[p].status = "pending"
         \/ \E n \in Stalls : late[n].pmt = p /\ late[n].state # "none"]_paymentVars

\* Duplicate payouts: the gateway is asked for one payout per payment.
OnePayoutPerPayment ==
  \A a, b \in Payouts : payout[a].pmt # None /\ payout[a].pmt = payout[b].pmt => a = b
=============================================================================
