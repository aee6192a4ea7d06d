---------------------------- MODULE LeaveService ----------------------------
(***************************************************************************)
(* LeaveService on top of the approval engine: one employee, one leave     *)
(* type, one year.  A domain handler wraps the engine's handler: it reads  *)
(* the balance, lets the engine decide, and takes the days off the balance *)
(* after a full approval.  The approval inbox calls the engine directly.   *)
(***************************************************************************)
EXTENDS ApprovalEngine, FiniteSetsExt

CONSTANTS
  Days,            \* days of each request
  AutoApproved,    \* encashments whose policy needs no approval
  RetainDays,      \* days an encashment must leave in the balance
  InitialPolicy,   \* days the leave policy grants
  PolicyValues,    \* values an administrator may change the policy to
  InboxOps,        \* decisions taken through /approvals instead of /leaves
  PaidType         \* whether the leave type is a paid one

VARIABLES
  balance,     \* the row of leave_balances, once the first sync has made it
  policy,      \* days granted by the resolved leave policy
  call         \* the LeaveService call each handler is in

leaveVars == <<balance, policy, call>>
allVars   == <<vars, leaveVars>>

NoCall    == [phase |-> "none"]
Leaves    == {r \in Requests : Kind[r] = "leave_requests"}
Encashments == {r \in Requests : Kind[r] = "leave_encashment_requests"}

ASSUME LeaveAssumption ==
  /\ Days \in [Requests -> Nat \ {0}]
  /\ AutoApproved \subseteq Encashments
  /\ Requests = Leaves \cup Encashments /\ IsFiniteSet(Requests)
  /\ InitialPolicy \in Nat /\ PolicyValues \subseteq Nat
  /\ InboxOps \subseteq AllOps /\ PaidType \in BOOLEAN

LeaveTypeOK ==
  /\ TypeOK
  /\ balance \in [present : BOOLEAN, allocated : Nat, used : Nat, available : Int]
  /\ policy \in Nat
  /\ call \in [Handlers -> {NoCall} \cup
       [phase : {"synced", "covered", "validated", "approving", "deduct"},
        req : Requests, user : Users]]

-----------------------------------------------------------------------------

LeaveInit ==
  /\ Init
  /\ policy = InitialPolicy
  /\ balance = [present |-> FALSE, allocated |-> 0, used |-> 0, available |-> 0]
  /\ call = [h \in Handlers |-> NoCall]

Free(h) == task[h].pc = "idle" /\ call[h] = NoCall

Enter(h, phase, r, u) ==
  call' = [call EXCEPT ![h] = [phase |-> phase, req |-> r, user |-> u]]

\* validateLeaveAgainstPolicy: the policy grants days of the type, enough of them
\* are available, and enough are left after an encashment.  An unpaid type passes
\* without a row of the balance.
Covers(r) ==
  /\ policy > 0
  /\ \/ ~balance.present /\ ~PaidType
     \/ /\ balance.present /\ balance.available >= Days[r]
        /\ r \in Encashments => balance.available - Days[r] >= RetainDays

\* Mutant: the upsert forgets the used days.
SyncedAfresh ==
  [balance EXCEPT !.present = TRUE, !.allocated = policy, !.available = policy]

\* syncEmployeeBalances: the upsert that makes the row or keeps its used days.
Synced == [balance EXCEPT !.present = TRUE, !.allocated = policy,
                          !.available = policy - balance.used]

\* createRequest up to the balance sync, and the start of createEncashmentRequest:
\* only a leave asks whether the payroll period is locked and syncs the balance.
\* The identifier is a new one, which no other call knows.
BeginCreate(h, r) ==
  /\ Free(h)
  /\ entity[r].status = "absent"
  /\ \A g \in Handlers : call[g] # NoCall => call[g].req # r
  /\ r \in Leaves => r \notin locked
  /\ balance' = IF r \in Leaves THEN Synced ELSE balance
  /\ Enter(h, "synced", r, Submitter[r])
  /\ UNCHANGED <<vars, policy>>

\* The balance check.  What it read is not looked at again before the INSERT.
ValidateCreate(h) ==
  /\ call[h].phase = "synced"
  /\ call' = [call EXCEPT ![h] =
       IF Covers(call[h].req) THEN [@ EXCEPT !.phase = "covered"] ELSE NoCall]
  /\ UNCHANGED <<vars, balance, policy>>

\* The INSERT.  An encashment that needs no approval is inserted as approved and
\* goes straight to the deduction.
InsertRequest(h) ==
  LET r == call[h].req IN
  /\ call[h].phase = "covered" /\ task[h].pc = "idle"
  /\ entity[r].status = "absent"
  /\ IF r \in AutoApproved
     THEN /\ entity' = [entity EXCEPT ![r].status = "approved"]
          /\ call' = [call EXCEPT ![h].phase = "deduct"]
          /\ UNCHANGED <<chainRow, reqs, effect, locked, task, history>>
     ELSE CreateEntity(h, r) /\ call' = [call EXCEPT ![h] = NoCall]
  /\ UNCHANGED <<balance, policy>>

\* approveRequest validates the balance again; approveEncashmentRequest only
\* looks at the status.  Neither holds on to what it saw.
BeginApprove(h, r, u) ==
  /\ Free(h)
  /\ entity[r].status # "absent"
  /\ IF r \in Leaves THEN Covers(r) ELSE entity[r].status = "pending"
  /\ Enter(h, "validated", r, u)
  /\ UNCHANGED <<vars, balance, policy>>

\* approveByEntity starts: it finds the request of the entity or gives up.
CallEngine(h) ==
  LET c == call[h] IN
  /\ c.phase = "validated"
  /\ IF reqs[c.req].status \in Active
     THEN ReadRequest(h, "approve", c.req, c.user) /\ Enter(h, "approving", c.req, c.user)
     ELSE call' = [call EXCEPT ![h] = NoCall] /\ UNCHANGED vars
  /\ UNCHANGED <<balance, policy>>

\* Mutants: every approved step deducts; no approval does.
EngineStepDeducts(h) ==
  /\ HandlerStep(h)
  /\ call' = [call EXCEPT ![h] =
       IF task'[h].pc # "idle" \/ @ = NoCall THEN @ ELSE [@ EXCEPT !.phase = "deduct"]]
  /\ UNCHANGED <<balance, policy>>
EngineStepForgets(h) ==
  /\ HandlerStep(h)
  /\ call' = [call EXCEPT ![h] = IF task'[h].pc = "idle" THEN NoCall ELSE @]
  /\ UNCHANGED <<balance, policy>>

\* A query of the engine; the domain call goes on when the engine returns.
EngineStep(h) ==
  /\ HandlerStep(h)
  /\ call' = [call EXCEPT ![h] =
       IF task'[h].pc # "idle" \/ @ = NoCall THEN @
       ELSE IF task[h].pc = "sync" /\ Outcome(task[h]) = "approved"
            THEN [@ EXCEPT !.phase = "deduct"] ELSE NoCall]
  /\ UNCHANGED <<balance, policy>>

\* Mutant: the days are given back.
DeductSwapped(h) ==
  LET d == Days[call[h].req] IN
  /\ call[h].phase = "deduct"
  /\ balance' = [balance EXCEPT !.used = @ - d, !.available = @ + d]
  /\ call' = [call EXCEPT ![h] = NoCall]
  /\ UNCHANGED <<vars, policy>>

\* deductLeaveBalance: relative to the row, whatever it holds by now; without a
\* row the UPDATE changes nothing.
Deduct(h) ==
  LET d == Days[call[h].req] IN
  /\ call[h].phase = "deduct"
  /\ balance' = IF balance.present
                 THEN [balance EXCEPT !.used = @ + d, !.available = @ - d]
                 ELSE balance
  /\ call' = [call EXCEPT ![h] = NoCall]
  /\ UNCHANGED <<vars, policy>>

\* Rejection through /leaves and decisions through /approvals: engine only.
EngineDecision(h, op, r, u) ==
  /\ Free(h)
  /\ ReadRequest(h, op, r, u)
  /\ UNCHANGED leaveVars

\* getBalances syncs every balance it lists.
ListBalances == balance' = Synced /\ UNCHANGED <<vars, policy, call>>

ChangePolicy ==
  /\ policy' \in PolicyValues
  /\ UNCHANGED <<vars, balance, call>>

LeaveCrash(h) ==
  /\ CanCrash /\ ~Free(h)
  /\ task' = [task EXCEPT ![h] = Idle]
  /\ call' = [call EXCEPT ![h] = NoCall]
  /\ UNCHANGED <<chainRow, reqs, entity, effect, locked, history, balance, policy>>

Progress(h) ==
  ValidateCreate(h) \/ InsertRequest(h) \/ CallEngine(h) \/ EngineStep(h) \/ Deduct(h)

LeaveNext ==
  \/ \E h \in Handlers :
       \/ \E r \in Requests : BeginCreate(h, r)
       \/ \E r \in Requests, u \in Users : BeginApprove(h, r, u)
       \/ \E op \in InboxOps \cup {"reject"}, r \in Requests, u \in Users :
            EngineDecision(h, op, r, u)
       \/ Progress(h)
       \/ LeaveCrash(h)
  \/ ListBalances
  \/ ChangePolicy
  \/ (ExpirySweep \/ EditChain \/ \E r \in Requests : LockPeriod(r) \/ UnlockPeriod(r))
       /\ UNCHANGED leaveVars

LeaveSpec == LeaveInit /\ [][LeaveNext]_allVars

-----------------------------------------------------------------------------
(* Properties.                                                              *)

ApprovedDays == MapThenSumSet(LAMBDA r : Days[r],
                              {r \in Requests : entity[r].status = "approved"})

Resting == \A h \in Handlers : Free(h)

\* The three columns of leave_balances stay consistent under every interleaving
\* of deductions, balance syncs and policy changes: what is available is what
\* the row allocates less what it counts as used.
BalanceAddsUp == balance.available = balance.allocated - balance.used

\* Nobody pays for what was not granted: with one handler at a time, days are
\* only ever taken off for leaves and encashments that stand approved, each of
\* them once, even if the process dies anywhere on the way (approveRequest,
\* approveEncashmentRequest).
OnlyApprovedDeducted == Resting => balance.used <= ApprovedDays

\* No paid leave is free: through the /leaves endpoints, every approved request
\* has been taken off the balance, even when two handlers decide the same request.
ApprovedIsDeducted == PaidType /\ Resting => balance.used >= ApprovedDays

\* Not a property of the code, see README: approveRequest re-validates "to prevent
\* race conditions during approval", so that nobody uses more than was allocated.
NeverOverdrawn == balance.used <= balance.allocated
=============================================================================
