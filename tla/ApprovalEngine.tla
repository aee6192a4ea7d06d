--------------------------- MODULE ApprovalEngine ---------------------------
(***************************************************************************)
(* ApprovalEngineService: the state machine behind every approval of the   *)
(* system.  A decision is an HTTP handler that awaits one database query   *)
(* after another, outside any transaction, so every query is a step of its *)
(* own and the handlers of different users interleave between them.  What  *)
(* a handler read is carried in its task and may be stale when it writes.  *)
(***************************************************************************)
EXTENDS BranchApprovalChain

CONSTANTS
  Handlers,        \* HTTP handlers that run concurrently
  Requests,        \* entities submitted for approval, one request each
  Kind,            \* the entity table of each request
  Submitter,       \* the user each request is submitted by
  OrgAdmins,       \* users that isOrgAdmin accepts
  Unbranched,      \* requests whose employee has no branch
  Fallback,        \* branch admins that may act on a fine appeal without a chain
  WithSla,         \* requests whose chain sets auto_approve_hours
  Ops,             \* the decisions that users take
  SavedChains,     \* chains an administrator may save while requests are open
  InitialChain,    \* the chain at the start
  Lockable,        \* requests whose payroll period may be locked and unlocked
  CanCrash         \* whether the process may die between two queries

VARIABLES
  reqs,            \* approval_requests
  entity,          \* status and approval step of the entity's own table
  effect,          \* requests whose domain side effect was carried out
  locked,          \* requests whose payroll period is payroll_locked
  task,            \* what each handler is doing
  history          \* every decision that was written, in any order

vars == <<chainRow, reqs, entity, effect, locked, task, history>>

Kinds   == {"leave_requests", "overtime_requests", "attendance_corrections",
            "shift_override_requests", "employee_branch_transfers", "payroll_runs",
            "leave_encashment_requests", "expenses", "reimbursements", "biometric_devices",
            "employee_fines", "employee_fine_appeals", "exit_requests", "final_settlements",
            "compliance_documents", "vacancies", "job_descriptions", "offers",
            "probation_reviews", "workforce_plans"}
\* Tables that a locked payroll period guards; tables without a step column.
Guarded  == {"leave_requests", "overtime_requests", "attendance_corrections"}
Stepless == {"leave_encashment_requests", "biometric_devices"}
AllOps  == {"approve", "reject", "cancel", "escalate"}

Active   == {"pending", "under_review", "escalated"}
Terminal == {"approved", "rejected", "cancelled", "expired"}
Statuses == {"absent"} \cup Active \cup Terminal
Closed   == {"approved", "rejected", "cancelled"}

ASSUME EngineAssumption ==
  /\ Kind \in [Requests -> Kinds]
  /\ Submitter \in [Requests -> Users]
  /\ OrgAdmins \subseteq Users /\ Fallback \subseteq Users
  /\ Unbranched \subseteq Requests /\ WithSla \subseteq Requests
  /\ Lockable \subseteq Requests
  /\ Ops \subseteq AllOps
  /\ InitialChain \in AllChains /\ SavedChains \subseteq AllChains
  /\ CanCrash \in BOOLEAN

\* current_step is 1 in a new row; NoNextStep marks a decision with no next step.
StepNumbers == Steps \cup {1}
Actions     == {"approved", "rejected", "cancelled", "escalated"}
Entries     == [step : StepNumbers, actor : Users, action : Actions]
Rows        == [status : Statuses, step : StepNumbers, log : SUBSET Entries]
Pcs         == {"idle", "insert", "authorise", "resolve", "check_lock",
                "decide", "sync", "apply"}

NoRow == [status |-> "absent", step |-> 1, log |-> {}]

IdleTasks == [pc : {"idle"}]
BusyTasks == [pc : Pcs \ {"idle"}, op : AllOps \cup {"submit"}, req : Requests,
              actor : Users, copy : Rows, next : StepNumbers \cup {NoNextStep}]
Idle      == [pc |-> "idle"]

TypeOK ==
  /\ ChainTypeOK
  /\ reqs \in [Requests -> Rows]
  /\ entity \in [Requests -> [status : {"absent", "pending"} \cup Closed,
                              step : StepNumbers]]
  /\ effect \subseteq Requests
  /\ locked \subseteq Requests
  /\ task \in [Handlers -> IdleTasks \cup BusyTasks]
  /\ history \in [Requests -> SUBSET Entries]

-----------------------------------------------------------------------------
(* What a handler decides from the row it read.                            *)

ChainFor(r) == IF r \in Unbranched THEN NoChain ELSE ResolvedChain

\* validateEligibility: org admins always; without a chain only the fallback;
\* a step that the chain no longer has is open to anybody.
Eligible(u, r, step) ==
  \/ u \in OrgAdmins
  \/ r \notin Unbranched /\ DOMAIN ChainFor(r) = {} /\ u \in Fallback
  \/ /\ DOMAIN ChainFor(r) # {}
     /\ step \in DOMAIN ChainFor(r) => u \in ChainFor(r)[step].pool

\* Mutant: no status check.
AdmitsAnything(op, status) == status # "absent"

\* The status check each operation makes on the row it read; escalate has none.
Admits(op, status) ==
  CASE op \in {"approve", "reject"} -> status \in Active
    [] op = "cancel"                -> status \in {"pending", "under_review"}
    [] op = "escalate"              -> status # "absent"

MayAsk(op, u, r) ==
  CASE op = "cancel"   -> u = Submitter[r] \/ u \in OrgAdmins
    [] op = "escalate" -> u \in OrgAdmins
    [] OTHER           -> TRUE

ActionOf(op) == CASE op = "approve" -> "approved" [] op = "reject"   -> "rejected"
                  [] op = "cancel"  -> "cancelled" [] op = "escalate" -> "escalated"

Entry(t) == [step |-> t.copy.step, actor |-> t.actor, action |-> ActionOf(t.op)]

\* The status a decision writes to approval_requests.
Outcome(t) ==
  CASE t.op = "reject" -> "rejected"
    [] t.op = "cancel" -> "cancelled"
    [] OTHER -> IF t.next = NoNextStep THEN "approved"
                ELSE IF t.op = "approve" THEN "under_review" ELSE "escalated"

\* Mutant: the UPDATE leaves current_step out.
StepKept(t) == reqs[t.req].step

\* current_step after the decision: the final approval writes back the step it
\* read, a final escalation, a rejection and a cancellation leave it alone.
StepWritten(t) ==
  CASE t.op \in {"approve", "escalate"} /\ t.next # NoNextStep -> t.next
    [] t.op = "approve" /\ t.next = NoNextStep -> t.copy.step
    [] OTHER -> reqs[t.req].step

\* Mutant: corrections are no longer applied.
HasEffectTransfersOnly(t) ==
  Outcome(t) = "approved" /\ Kind[t.req] = "employee_branch_transfers"

\* The side effects run after an approval; escalate runs only two of the four.
HasEffect(t) ==
  /\ Outcome(t) = "approved"
  /\ Kind[t.req] \in {"employee_branch_transfers", "payroll_runs"}
       \cup (IF t.op = "approve"
             THEN {"shift_override_requests", "attendance_corrections"} ELSE {})

-----------------------------------------------------------------------------

Init ==
  /\ chainRow = [active |-> TRUE, steps |-> InitialChain]
  /\ reqs = [r \in Requests |-> NoRow]
  /\ entity = [r \in Requests |-> [status |-> "absent", step |-> 1]]
  /\ effect = {}
  /\ locked = {}
  /\ task = [h \in Handlers |-> Idle]
  /\ history = [r \in Requests |-> {}]

\* A domain service inserts the entity, then calls submit, which inserts the
\* request: two statements on two connections.
CreateEntity(h, r) ==
  /\ task[h].pc = "idle"
  /\ entity[r].status = "absent"
  /\ entity' = [entity EXCEPT ![r].status = "pending"]
  /\ task' = [task EXCEPT ![h] = [pc |-> "insert", op |-> "submit", req |-> r,
                actor |-> Submitter[r], copy |-> NoRow, next |-> NoNextStep]]
  /\ UNCHANGED <<chainRow, reqs, effect, locked, history>>

Submit(h) ==
  /\ task[h].pc = "insert"
  /\ reqs' = [reqs EXCEPT ![task[h].req].status = "pending"]
  /\ task' = [task EXCEPT ![h] = Idle]
  /\ UNCHANGED <<chainRow, entity, effect, locked, history>>

\* findOne or findByEntity, and the checks made on the row that came back.
ReadRequest(h, op, r, u) ==
  /\ task[h].pc = "idle"
  /\ reqs[r].status # "absent"
  /\ Admits(op, reqs[r].status)
  /\ MayAsk(op, u, r)
  /\ task' = [task EXCEPT ![h] =
       [pc |-> CASE op \in {"approve", "reject"} -> "authorise"
                 [] op = "cancel" -> "decide" [] op = "escalate" -> "resolve",
        op |-> op, req |-> r, actor |-> u, copy |-> reqs[r], next |-> NoNextStep]]
  /\ UNCHANGED <<chainRow, reqs, entity, effect, locked, history>>

\* Mutant: whoever asks is let through.
AuthoriseAnyone(h) ==
  /\ task[h].pc = "authorise"
  /\ task' = [task EXCEPT ![h].pc = IF task[h].op = "approve" THEN "resolve"
                                   ELSE "decide"]
  /\ UNCHANGED <<chainRow, reqs, entity, effect, locked, history>>

\* validateEligibility reads the chain in force and refuses or lets through.
Authorise(h) ==
  LET t == task[h] IN
  /\ t.pc = "authorise"
  /\ task' = [task EXCEPT ![h] =
       IF ~Eligible(t.actor, t.req, t.copy.step) THEN Idle
       ELSE [t EXCEPT !.pc = IF t.op = "approve" THEN "resolve" ELSE "decide"]]
  /\ UNCHANGED <<chainRow, reqs, entity, effect, locked, history>>

\* resolveChain and computeAdvance, on a second read of the chain.
Resolve(h) ==
  LET t    == task[h]
      next == NextStep(ChainFor(t.req), t.copy.step)
  IN
  /\ t.pc = "resolve"
  /\ task' = [task EXCEPT ![h] = [t EXCEPT !.next = next,
       !.pc = IF t.op = "approve" /\ next = NoNextStep /\ Kind[t.req] \in Guarded
              THEN "check_lock" ELSE "decide"]]
  /\ UNCHANGED <<chainRow, reqs, entity, effect, locked, history>>

\* assertPayrollUnlockedForEntity: only a final approval asks.
CheckLock(h) ==
  /\ task[h].pc = "check_lock"
  /\ task' = [task EXCEPT ![h] = IF task[h].req \in locked THEN Idle
                                 ELSE [@ EXCEPT !.pc = "decide"]]
  /\ UNCHANGED <<chainRow, reqs, entity, effect, locked, history>>

\* Mutants of the decision: the log starts afresh; the sync is never reached.
DecideFreshLog(h) ==
  LET t == task[h] IN
  /\ t.pc = "decide"
  /\ reqs' = [reqs EXCEPT ![t.req] =
       [status |-> Outcome(t), step |-> StepWritten(t), log |-> {Entry(t)}]]
  /\ history' = [history EXCEPT ![t.req] = @ \cup {Entry(t)}]
  /\ task' = [task EXCEPT ![h].pc = "sync"]
  /\ UNCHANGED <<chainRow, entity, effect, locked>>
DecideOnly(h) ==
  LET t == task[h] IN
  /\ t.pc = "decide"
  /\ reqs' = [reqs EXCEPT ![t.req] = [status |-> Outcome(t), step |-> StepWritten(t),
                                     log |-> t.copy.log \cup {Entry(t)}]]
  /\ history' = [history EXCEPT ![t.req] = @ \cup {Entry(t)}]
  /\ task' = [task EXCEPT ![h] = Idle]
  /\ UNCHANGED <<chainRow, entity, effect, locked>>

\* The UPDATE of approval_requests: WHERE id = ... and nothing about the status.
Decide(h) ==
  LET t == task[h] IN
  /\ t.pc = "decide"
  /\ reqs' = [reqs EXCEPT ![t.req] =
       [status |-> Outcome(t), step |-> StepWritten(t),
        log |-> t.copy.log \cup {Entry(t)}]]
  /\ history' = [history EXCEPT ![t.req] = @ \cup {Entry(t)}]
  /\ task' = [task EXCEPT ![h].pc = "sync"]
  /\ UNCHANGED <<chainRow, entity, effect, locked>>

\* Mutant: only an approval is copied to the entity.
SyncApprovals(h) ==
  LET t == task[h] IN
  /\ t.pc = "sync"
  /\ entity' = IF Outcome(t) # "approved" THEN entity
               ELSE [entity EXCEPT ![t.req].status = "approved"]
  /\ task' = [task EXCEPT ![h] = IF HasEffect(t) THEN [t EXCEPT !.pc = "apply"]
                                 ELSE Idle]
  /\ UNCHANGED <<chainRow, reqs, effect, locked, history>>

\* syncEntityStep or syncEntityStatus: the entity row follows, whatever it says
\* by now; a table without a step column has no step to follow.
SyncEntity(h) ==
  LET t == task[h] IN
  /\ t.pc = "sync"
  /\ entity' = [entity EXCEPT ![t.req] =
       IF Outcome(t) \in Closed THEN [@ EXCEPT !.status = Outcome(t)]
       ELSE IF Kind[t.req] \in Stepless THEN @ ELSE [@ EXCEPT !.step = t.next]]
  /\ task' = [task EXCEPT ![h] = IF HasEffect(t) THEN [t EXCEPT !.pc = "apply"]
                                 ELSE Idle]
  /\ UNCHANGED <<chainRow, reqs, effect, locked, history>>

\* generateOverridesForRequest, applyAttendanceCorrection, finalizeBranchTransfer,
\* finalizePayrollRun.
ApplyEffect(h) ==
  /\ task[h].pc = "apply"
  /\ effect' = effect \cup {task[h].req}
  /\ task' = [task EXCEPT ![h] = Idle]
  /\ UNCHANGED <<chainRow, reqs, entity, locked, history>>

\* The process dies, or the query fails, before the handler's next query.
Crash(h) ==
  /\ CanCrash
  /\ task[h].pc # "idle"
  /\ task' = [task EXCEPT ![h] = Idle]
  /\ UNCHANGED <<chainRow, reqs, entity, effect, locked, history>>

\* processExpiredRequests: one UPDATE over the requests that are overdue by now.
ExpirySweep ==
  \E S \in SUBSET {r \in Requests : reqs[r].status \in {"pending", "under_review"}
                                  /\ r \in WithSla} :
    /\ S # {}
    /\ reqs' = [r \in Requests |->
         IF r \in S THEN [reqs[r] EXCEPT !.status = "expired"] ELSE reqs[r]]
    /\ UNCHANGED <<chainRow, entity, effect, locked, task, history>>

\* PayrollLockService.lock and unlock, as this component sees them.
LockPeriod(r) ==
  /\ r \in Lockable \ locked
  /\ locked' = locked \cup {r}
  /\ UNCHANGED <<chainRow, reqs, entity, effect, task, history>>

UnlockPeriod(r) ==
  /\ r \in locked
  /\ locked' = locked \ {r}
  /\ UNCHANGED <<chainRow, reqs, entity, effect, task, history>>

EditChain ==
  /\ \/ \E c \in SavedChains, isActive \in BOOLEAN : UpsertChain(c, isActive)
     \/ SavedChains # {} /\ (ActivateChain \/ DeactivateChain)
  /\ UNCHANGED <<reqs, entity, effect, locked, task, history>>

HandlerStep(h) ==
  \/ Submit(h) \/ Authorise(h) \/ Resolve(h) \/ CheckLock(h)
  \/ Decide(h) \/ SyncEntity(h) \/ ApplyEffect(h)

Next ==
  \/ \E h \in Handlers :
       \/ \E r \in Requests : CreateEntity(h, r)
       \/ \E op \in Ops, r \in Requests, u \in Users : ReadRequest(h, op, r, u)
       \/ HandlerStep(h)
       \/ Crash(h)
  \/ ExpirySweep
  \/ \E r \in Requests : LockPeriod(r) \/ UnlockPeriod(r)
  \/ EditChain

Spec == Init /\ [][Next]_vars

\* An awaited query eventually completes and its handler goes on.
FairSpec == Spec /\ \A h \in Handlers : WF_vars(HandlerStep(h))

-----------------------------------------------------------------------------
(* Properties.                                                              *)

Signatures(r, s) ==
  {e \in history[r] :
     /\ e.step = s
     /\ \/ e.action = "escalated" /\ e.actor \in OrgAdmins
        \/ e.action = "approved" /\ Eligible(e.actor, r, s)}

\* However decisions interleave, crash or overwrite each other, a request never
\* stands past a step of its chain, and neither it nor its entity is approved,
\* unless that step was signed by somebody entitled to it or escalated by an
\* org admin (_doApprove and escalate act on the row they read).
StepsSigned ==
  \A r \in Requests : \A s \in DOMAIN ChainFor(r) :
    (\/ s < reqs[r].step
     \/ reqs[r].status = "approved"
     \/ entity[r].status = "approved") => Signatures(r, s) # {}

\* The log of an approved request is itself the evidence for every step, even
\* when concurrent handlers have overwritten each other's entries: status, step
\* and log are written by one UPDATE from one snapshot of the row.
ApprovedLogComplete ==
  \A r \in Requests : reqs[r].status = "approved" =>
    \A s \in DOMAIN ChainFor(r) : Signatures(r, s) \cap reqs[r].log # {}

\* Not a property of the code, see README: approval_log is a "Full immutable audit
\* trail" (migration 054), but of two handlers that overlap one loses its entry.
DecisionsRecorded == \A r \in Requests : history[r] \subseteq reqs[r].log

\* Duplicate decision prevention: a step of a request is decided at most once.
NoDuplicateDecision ==
  \A r \in Requests : \A e, f \in history[r] : e.step = f.step => e = f

\* Status transitions: a resolved request keeps its status and its step.
ResolvedIsFinal ==
  [][\A r \in Requests : reqs[r].status \in Terminal =>
        /\ reqs'[r].status = reqs[r].status
        /\ reqs'[r].step = reqs[r].step]_vars

Quiet(r) == \A h \in Handlers : task[h].pc = "idle" \/ task[h].req # r

\* approval_requests "mirrors approval lifecycle state" of the entity: when no
\* handler is at work on a request, the two rows say the same.
EntityMirrorsRequest ==
  \A r \in Requests : Quiet(r) =>
    entity[r].status = (IF reqs[r].status \in Active THEN "pending" ELSE reqs[r].status)

\* An approval whose kind has a side effect has had it once the handlers rest.
EffectFollowsApproval ==
  \A r \in Requests :
    (Quiet(r) /\ entity[r].status = "approved"
       /\ Kind[r] \in {"employee_branch_transfers", "payroll_runs",
                       "shift_override_requests", "attendance_corrections"})
    => r \in effect

\* A decision written to approval_requests reaches the entity's own table, and
\* the side effect of an approval follows.
DecisionReachesEntity ==
  \A r \in Requests : \A v \in Closed :
    (reqs[r].status = v) ~> (entity[r].status = v)

\* The abstract promise, with a request open while its status is active.
Promise == INSTANCE ApprovalSpec WITH
  outcome  <- [r \in Requests |-> IF reqs[r].status \in Active THEN "open" ELSE reqs[r].status],
  frontier <- [r \in Requests |-> reqs[r].step],
  told     <- [r \in Requests |-> entity[r].status]

\* Decisions taken one after another implement the promise.
KeepsPromise == Promise!Contract
=============================================================================
