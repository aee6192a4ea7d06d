------------------------ MODULE ApprovalEngineProofs ------------------------
(***************************************************************************)
(* Proofs about ApprovalEngine for any number of users, handlers, requests *)
(* and chain steps.                                                        *)
(***************************************************************************)
EXTENDS ApprovalEngine, TLAPS, WellFoundedInduction

(* Lemmas about the chain.                                                  *)

\* LeastOf picks the smallest of a set of step numbers.
LEMMA LeastOfIsLeast ==
  ASSUME NEW S, S \subseteq Nat, S # {}
  PROVE  LeastOf(S) \in S /\ \A t \in S : LeastOf(S) <= t
<1> DEFINE R == OpToRel(<, Nat)
<1>1. IsWellFoundedOn(R, Nat)
  BY NatLessThanWellFounded
<1>2. PICK m \in S : \A t \in S : ~(<<t, m>> \in R)
  <2> HIDE DEF R
  <2> QED BY <1>1, WFMin
<1>3. \A t \in S : m <= t
  <2> TAKE t \in S
  <2>1. t \in Nat /\ m \in Nat
    OBVIOUS
  <2>2. ~(t < m)
    BY <1>2, <2>1 DEF OpToRel
  <2> QED BY <2>1, <2>2
<1> QED BY <1>3 DEF LeastOf

\* Every chain is a function from step numbers to step definitions.
LEMMA ChainSteps ==
  ASSUME NEW c \in AllChains
  PROVE  DOMAIN c \subseteq Steps /\ DOMAIN c \subseteq Nat \ {0}
BY StepsAssumption DEF AllChains, ChainsOver

LEMMA StepNumbersAreNat == StepNumbers \subseteq Nat
BY StepsAssumption DEF StepNumbers

\* The chain that applies to a request is a chain.
LEMMA ChainForType ==
  ASSUME ChainTypeOK, NEW r \in Requests
  PROVE  ChainFor(r) \in AllChains
<1>1. NoChain \in AllChains
  <2>1. NoChain \in [{} -> StepDefs]
    BY DEF NoChain
  <2>2. {} \in SUBSET Steps
    OBVIOUS
  <2> QED BY <2>1, <2>2 DEF AllChains, ChainsOver
<1>2. ResolvedChain \in AllChains
  BY <1>1 DEF ChainTypeOK, ResolvedChain
<1> QED BY <1>1, <1>2 DEF ChainFor

\* computeAdvance returns a step of the chain, or that there is none; no step
\* of the chain lies between the current step and the next one.
LEMMA NextStepAdvances ==
  ASSUME NEW c \in AllChains, NEW k \in StepNumbers
  PROVE  /\ NextStep(c, k) \in Steps \cup {NoNextStep}
         /\ \A s \in DOMAIN c :
              (NextStep(c, k) = NoNextStep \/ s < NextStep(c, k)) => s <= k
<1>1. /\ DOMAIN c \subseteq Steps
      /\ DOMAIN c \subseteq Nat \ {0}
  BY ChainSteps
<1>2. k \in Nat
  BY StepNumbersAreNat
<1>3. CASE StepsAfter(c, k) = {}
  BY <1>1, <1>2, <1>3 DEF NextStep, StepsAfter, NoNextStep
<1>4. CASE StepsAfter(c, k) # {}
  <2>1. StepsAfter(c, k) \subseteq DOMAIN c
    BY DEF StepsAfter
  <2>2. NextStep(c, k) \in StepsAfter(c, k) /\ \A t \in StepsAfter(c, k) : NextStep(c, k) <= t
    <3>1. StepsAfter(c, k) \subseteq Nat
      BY <1>1, <2>1
    <3> QED BY <1>4, <3>1, LeastOfIsLeast DEF NextStep
  <2>3. NextStep(c, k) \in Steps /\ NextStep(c, k) \in Nat \ {0}
    BY <1>1, <2>1, <2>2
  <2> HIDE DEF NextStep
  <2> QED BY <1>1, <1>2, <2>2, <2>3 DEF StepsAfter, NoNextStep
<1> QED BY <1>3, <1>4

-----------------------------------------------------------------------------
(* Type correctness.                                                        *)

\* A handler inserts a request exactly when it is submitting one, so that only
\* decisions reach the later queries.
TaskOps ==
  \A h \in Handlers : task[h].pc # "idle" =>
    (task[h].op = "submit" <=> task[h].pc = "insert")

TypeInv == TypeOK /\ TaskOps

LEMMA BusyTask ==
  ASSUME TypeOK, NEW h \in Handlers, task[h].pc # "idle"
  PROVE  task[h] \in BusyTasks
BY DEF TypeOK, IdleTasks

\* What a decision writes has its type.
LEMMA DecisionTypes ==
  ASSUME NEW t \in BusyTasks, t.op \in AllOps, TypeOK
  PROVE  /\ Entry(t) \in Entries
         /\ Outcome(t) \in Statuses
         /\ StepWritten(t) \in StepNumbers
         /\ Outcome(t) \notin Closed => t.next \in StepNumbers
<1>1. t.copy.step \in StepNumbers /\ t.actor \in Users /\ t.req \in Requests
      /\ t.next \in StepNumbers \cup {NoNextStep}
  BY DEF BusyTasks, Rows
<1>2. ActionOf(t.op) \in Actions
  BY DEF ActionOf, AllOps, Actions
<1>3. Entry(t) \in Entries
  BY <1>1, <1>2 DEF Entry, Entries
<1>4. Outcome(t) \in Statuses
  BY DEF Outcome, Statuses, Active, Terminal
<1>5. StepWritten(t) \in StepNumbers
  <2>1. reqs[t.req].step \in StepNumbers
    BY <1>1 DEF TypeOK, Rows
  <2> QED BY <1>1, <2>1 DEF StepWritten
<1>6. Outcome(t) \notin Closed => t.next \in StepNumbers
  BY <1>1 DEF Outcome, Closed
<1> QED BY <1>3, <1>4, <1>5, <1>6

LEMMA TypeInit == Init => TypeInv
<1> SUFFICES ASSUME Init PROVE TypeInv
  OBVIOUS
<1> USE EngineAssumption
<1>1. ChainTypeOK
  BY DEF Init, ChainTypeOK
<1>2. NoRow \in Rows
  BY DEF NoRow, Rows, Statuses, StepNumbers
<1>3. TypeOK
  BY <1>1, <1>2 DEF Init, TypeOK, StepNumbers, Idle, IdleTasks
<1>4. TaskOps
  BY DEF Init, TaskOps, Idle
<1> QED BY <1>3, <1>4 DEF TypeInv

\* The steps of a handler that is at work.
LEMMA TypeHandlerStep ==
  ASSUME TypeInv, NEW h \in Handlers, HandlerStep(h)
  PROVE  TypeInv'
<1> USE DEF TypeInv
<1> DEFINE t == task[h]
<1>0. t.pc # "idle" /\ t \in BusyTasks
  <2>1. t.pc # "idle"
    BY DEF HandlerStep, Submit, Authorise, Resolve, CheckLock, Decide, SyncEntity, ApplyEffect
  <2> QED BY <2>1, BusyTask
<1>a. Idle \in IdleTasks
  BY DEF Idle, IdleTasks
<1>1. CASE Submit(h)
  <2>1. reqs' \in [Requests -> Rows]
    BY <1>0, <1>1 DEF Submit, TypeOK, Rows, BusyTasks, Statuses, Active
  <2>2. task' \in [Handlers -> IdleTasks \cup BusyTasks]
    BY <1>1, <1>a DEF Submit, TypeOK
  <2>3. TypeOK'
    BY <1>1, <2>1, <2>2 DEF Submit, TypeOK, ChainTypeOK
  <2>4. TaskOps'
    BY <1>1 DEF Submit, TypeOK, TaskOps, Idle
  <2> QED BY <2>3, <2>4
<1>2. CASE Authorise(h)
  <2>1. task' \in [Handlers -> IdleTasks \cup BusyTasks]
    BY <1>0, <1>2, <1>a DEF Authorise, TypeOK, BusyTasks, Pcs
  <2>2. TypeOK'
    BY <1>2, <2>1 DEF Authorise, TypeOK, ChainTypeOK
  <2>3. TaskOps'
    BY <1>0, <1>2 DEF Authorise, TypeOK, TaskOps, Idle, BusyTasks
  <2> QED BY <2>2, <2>3
<1>3. CASE Resolve(h)
  <2>0. NextStep(ChainFor(t.req), t.copy.step) \in StepNumbers \cup {NoNextStep}
    <3>1. t.req \in Requests /\ t.copy.step \in StepNumbers
      BY <1>0 DEF BusyTasks, Rows
    <3>2. ChainFor(t.req) \in AllChains
      BY <3>1, ChainForType DEF TypeOK
    <3> QED BY <3>1, <3>2, NextStepAdvances DEF StepNumbers
  <2>1. task' \in [Handlers -> IdleTasks \cup BusyTasks]
    BY <1>0, <1>3, <2>0 DEF Resolve, TypeOK, BusyTasks, Pcs
  <2>2. TypeOK'
    BY <1>3, <2>1 DEF Resolve, TypeOK, ChainTypeOK
  <2>3. TaskOps'
    BY <1>0, <1>3 DEF Resolve, TypeOK, TaskOps, BusyTasks
  <2> QED BY <2>2, <2>3
<1>4. CASE CheckLock(h)
  <2>1. task' \in [Handlers -> IdleTasks \cup BusyTasks]
    BY <1>0, <1>4, <1>a DEF CheckLock, TypeOK, BusyTasks, Pcs
  <2>2. TypeOK'
    BY <1>4, <2>1 DEF CheckLock, TypeOK, ChainTypeOK
  <2>3. TaskOps'
    BY <1>0, <1>4 DEF CheckLock, TypeOK, TaskOps, Idle, BusyTasks
  <2> QED BY <2>2, <2>3
<1>5. CASE Decide(h)
  <2>0. t.op \in AllOps
    BY <1>0, <1>5 DEF Decide, TaskOps, BusyTasks, AllOps
  <2>1. /\ Entry(t) \in Entries
        /\ Outcome(t) \in Statuses
        /\ StepWritten(t) \in StepNumbers
    BY <1>0, <2>0, DecisionTypes
  <2>2. t.req \in Requests /\ t.copy.log \in SUBSET Entries
    BY <1>0 DEF BusyTasks, Rows
  <2>3. reqs' \in [Requests -> Rows]
    BY <1>5, <2>1, <2>2 DEF Decide, TypeOK, Rows
  <2>4. history' \in [Requests -> SUBSET Entries]
    BY <1>5, <2>1, <2>2 DEF Decide, TypeOK
  <2>5. task' \in [Handlers -> IdleTasks \cup BusyTasks]
    BY <1>0, <1>5 DEF Decide, TypeOK, BusyTasks, Pcs
  <2>6. TypeOK'
    BY <1>5, <2>3, <2>4, <2>5 DEF Decide, TypeOK, ChainTypeOK
  <2>7. TaskOps'
    BY <1>0, <1>5 DEF Decide, TypeOK, TaskOps, BusyTasks
  <2> QED BY <2>6, <2>7
<1>6. CASE SyncEntity(h)
  <2>0. t.op \in AllOps
    BY <1>0, <1>6 DEF SyncEntity, TaskOps, BusyTasks, AllOps
  <2>1. Outcome(t) \notin Closed => t.next \in StepNumbers
    BY <1>0, <2>0, DecisionTypes
  <2>2. t.req \in Requests
    BY <1>0 DEF BusyTasks
  <2>3. entity' \in [Requests -> [status : {"absent", "pending"} \cup Closed, step : StepNumbers]]
    BY <1>6, <2>1, <2>2 DEF SyncEntity, TypeOK
  <2>4. task' \in [Handlers -> IdleTasks \cup BusyTasks]
    BY <1>0, <1>6, <1>a DEF SyncEntity, TypeOK, BusyTasks, Pcs
  <2>5. TypeOK'
    BY <1>6, <2>3, <2>4 DEF SyncEntity, TypeOK, ChainTypeOK
  <2>6. TaskOps'
    BY <1>0, <1>6 DEF SyncEntity, TypeOK, TaskOps, Idle, BusyTasks
  <2> QED BY <2>5, <2>6
<1>7. CASE ApplyEffect(h)
  <2>1. TypeOK'
    BY <1>0, <1>7, <1>a DEF ApplyEffect, TypeOK, ChainTypeOK, BusyTasks
  <2>2. TaskOps'
    BY <1>7 DEF ApplyEffect, TypeOK, TaskOps, Idle
  <2> QED BY <2>1, <2>2
<1> QED BY <1>1, <1>2, <1>3, <1>4, <1>5, <1>6, <1>7 DEF HandlerStep

\* The calls that start a handler, and its death.
LEMMA TypeHandlerStart ==
  ASSUME TypeInv, NEW h \in Handlers,
         \/ \E r \in Requests : CreateEntity(h, r)
         \/ \E op \in AllOps, r \in Requests, u \in Users : ReadRequest(h, op, r, u)
         \/ Crash(h)
  PROVE  TypeInv'
<1> USE EngineAssumption DEF TypeInv
<1>1. ASSUME NEW r \in Requests, CreateEntity(h, r) PROVE TypeInv'
  <2>0. NoRow \in Rows
    BY DEF NoRow, Rows, Statuses, StepNumbers
  <2>1. task' \in [Handlers -> IdleTasks \cup BusyTasks]
    BY <1>1, <2>0 DEF CreateEntity, TypeOK, BusyTasks, Pcs
  <2>2. TypeOK'
    BY <1>1, <2>1 DEF CreateEntity, TypeOK, ChainTypeOK
  <2>3. TaskOps'
    BY <1>1 DEF CreateEntity, TypeOK, TaskOps
  <2> QED BY <2>2, <2>3
<1>2. ASSUME NEW op \in AllOps, NEW r \in Requests, NEW u \in Users, ReadRequest(h, op, r, u)
      PROVE  TypeInv'
  <2>2. task' \in [Handlers -> IdleTasks \cup BusyTasks]
    BY <1>2 DEF ReadRequest, TypeOK, BusyTasks, Pcs, AllOps
  <2>3. TypeOK'
    BY <1>2, <2>2 DEF ReadRequest, TypeOK, ChainTypeOK
  <2>4. TaskOps'
    BY <1>2 DEF ReadRequest, TypeOK, TaskOps, AllOps
  <2> QED BY <2>3, <2>4
<1>3. CASE Crash(h)
  <2>1. TypeOK'
    BY <1>3 DEF Crash, TypeOK, ChainTypeOK, Idle, IdleTasks
  <2>2. TaskOps'
    BY <1>3 DEF Crash, TypeOK, TaskOps, Idle
  <2> QED BY <2>1, <2>2
<1> QED BY <1>1, <1>2, <1>3

\* The sweep, the payroll lock and the administrators.
LEMMA TypeEnvironment ==
  ASSUME TypeInv,
         \/ ExpirySweep
         \/ \E r \in Requests : LockPeriod(r) \/ UnlockPeriod(r)
         \/ EditChain
  PROVE  TypeInv'
<1> USE EngineAssumption DEF TypeInv
<1>1. CASE ExpirySweep
  <2>1. PICK S : reqs' = [r \in Requests |->
                  IF r \in S THEN [reqs[r] EXCEPT !.status = "expired"] ELSE reqs[r]]
    BY <1>1 DEF ExpirySweep
  <2>2. ASSUME NEW r \in Requests
        PROVE  reqs[r] \in Rows /\ [reqs[r] EXCEPT !.status = "expired"] \in Rows
    BY DEF TypeOK, Rows, Statuses, Terminal
  <2>3. reqs' \in [Requests -> Rows]
    BY <2>1, <2>2
  <2> QED BY <1>1, <2>3 DEF ExpirySweep, TypeOK, ChainTypeOK, TaskOps
<1>2. ASSUME NEW r \in Requests, LockPeriod(r) \/ UnlockPeriod(r) PROVE TypeInv'
  BY <1>2 DEF LockPeriod, UnlockPeriod, TypeOK, ChainTypeOK, TaskOps
<1>3. CASE EditChain
  <2>1. ChainTypeOK'
    <3>0. chainRow \in [active : BOOLEAN, steps : AllChains]
      BY DEF TypeOK, ChainTypeOK
    <3>1. ASSUME NEW c \in SavedChains, NEW isActive \in BOOLEAN, UpsertChain(c, isActive)
          PROVE  ChainTypeOK'
      BY <3>1 DEF UpsertChain, ChainTypeOK
    <3>2. CASE ActivateChain
      BY <3>0, <3>2 DEF ActivateChain, ChainTypeOK
    <3>3. CASE DeactivateChain
      BY <3>0, <3>3 DEF DeactivateChain, ChainTypeOK
    <3> QED BY <1>3, <3>1, <3>2, <3>3 DEF EditChain
  <2> QED BY <1>3, <2>1 DEF EditChain, TypeOK, TaskOps
<1> QED BY <1>1, <1>2, <1>3

LEMMA TypeStep == TypeInv /\ [Next]_vars => TypeInv'
<1> SUFFICES ASSUME TypeInv, [Next]_vars PROVE TypeInv'
  OBVIOUS
<1>1. CASE Next
  BY <1>1, TypeHandlerStep, TypeHandlerStart, TypeEnvironment, EngineAssumption DEF Next
<1>2. CASE UNCHANGED vars
  BY <1>2 DEF vars, TypeInv, TypeOK, ChainTypeOK, TaskOps
<1> QED BY <1>1, <1>2

\* The state of the engine keeps its type, and only decisions reach the queries
\* that write a decision.
THEOREM TypeCorrect == Spec => []TypeInv
<1>1. Init => TypeInv
  BY TypeInit
<1>2. TypeInv /\ [Next]_vars => TypeInv'
  BY TypeStep
<1> QED BY <1>1, <1>2, PTL DEF Spec

\* In particular the type invariant that the runs check.
THEOREM TypesHold == Spec => []TypeOK
<1>1. TypeInv => TypeOK
  BY DEF TypeInv
<1> QED BY <1>1, TypeCorrect, PTL

-----------------------------------------------------------------------------
(* No step of a chain that nobody edits is passed unsigned.                 *)

SignedBelow(r, k) == \A s \in DOMAIN ChainFor(r) : s < k => Signatures(r, s) # {}
FullySigned(r)    == \A s \in DOMAIN ChainFor(r) : Signatures(r, s) # {}

\* What a handler carries about is backed by signatures: the row it read, its
\* right to sign, the next step it computed and the approval it is to announce.
TaskSigned(t) ==
  t.pc # "idle" /\ t.op # "submit" =>
    /\ SignedBelow(t.req, t.copy.step)
    /\ t.pc = "authorise" => t.op \in {"approve", "reject"}
    /\ t.op = "approve" /\ t.pc \in {"resolve", "check_lock", "decide"}
         => Eligible(t.actor, t.req, t.copy.step)
    /\ t.op = "escalate" => t.actor \in OrgAdmins
    /\ t.op \in {"approve", "escalate"} /\ t.pc \in {"check_lock", "decide"}
         => t.next = NextStep(ChainFor(t.req), t.copy.step)
    /\ t.pc = "sync" /\ Outcome(t) = "approved" => FullySigned(t.req)

RowsSigned ==
  \A r \in Requests :
    /\ SignedBelow(r, reqs[r].step)
    /\ reqs[r].status = "approved" \/ entity[r].status = "approved" => FullySigned(r)

TasksSigned == \A h \in Handlers : TaskSigned(task[h])

SignInv == TypeInv /\ RowsSigned /\ TasksSigned

LEMMA SignInit == Init => SignInv
<1> SUFFICES ASSUME Init PROVE SignInv
  OBVIOUS
<1>1. RowsSigned
  <2> SUFFICES ASSUME NEW r \in Requests PROVE SignedBelow(r, 1)
    BY DEF Init, RowsSigned, NoRow
  <2>1. ChainTypeOK
    BY TypeInit DEF TypeInv, TypeOK
  <2>2. DOMAIN ChainFor(r) \subseteq Nat \ {0}
    BY <2>1, ChainForType, ChainSteps
  <2> QED BY <2>2 DEF SignedBelow
<1>2. TasksSigned
  BY DEF Init, TasksSigned, TaskSigned, Idle
<1> QED BY <1>1, <1>2, TypeInit DEF SignInv

\* A step that writes no decision: what the rows and the tasks claim must be
\* backed by the signatures there already are.
LEMMA SignFrame ==
  ASSUME SignInv, TypeInv', chainRow' = chainRow, history' = history,
         \A r \in Requests : /\ reqs'[r].step = reqs[r].step
                             /\ reqs'[r].status = "approved" => reqs[r].status = "approved"
                             /\ entity'[r].status = "approved" =>
                                  entity[r].status = "approved" \/ FullySigned(r),
         \A h \in Handlers : TaskSigned(task'[h])
  PROVE  SignInv'
<1>1. RowsSigned'
  BY DEF SignInv, RowsSigned, SignedBelow, FullySigned, Signatures, Eligible, ChainFor, ResolvedChain
<1>2. TasksSigned'
  BY DEF TasksSigned, TaskSigned, SignedBelow, FullySigned, Signatures, Eligible, ChainFor, ResolvedChain
<1> QED BY <1>1, <1>2 DEF SignInv

\* The queries of a handler before and after it writes its decision.
LEMMA SignQueries ==
  ASSUME SignInv, TypeInv', NEW h \in Handlers,
         Submit(h) \/ Authorise(h) \/ Resolve(h) \/ CheckLock(h) \/ SyncEntity(h) \/ ApplyEffect(h)
  PROVE  SignInv'
<1> DEFINE t == task[h]
<1>0. TypeOK /\ TaskSigned(t) /\ task \in [Handlers -> IdleTasks \cup BusyTasks]
  BY DEF SignInv, TypeInv, TypeOK, TasksSigned
<1>a. TaskSigned(Idle)
  BY DEF TaskSigned, Idle
<1>b. ASSUME NEW new, task' = [task EXCEPT ![h] = new], TaskSigned(new)
      PROVE  \A g \in Handlers : TaskSigned(task'[g])
  BY <1>0, <1>b DEF SignInv, TasksSigned
<1>c. t.pc # "idle" => t \in BusyTasks
  BY <1>0, BusyTask
<1>1. CASE Submit(h)
  <2>1. \A g \in Handlers : TaskSigned(task'[g])
    BY <1>1, <1>a, <1>b DEF Submit
  <2>2. t.req \in Requests
    BY <1>1, <1>c DEF Submit, BusyTasks
  <2>3. \A r \in Requests : reqs'[r].step = reqs[r].step
                            /\ (reqs'[r].status = "approved" => reqs[r].status = "approved")
    BY <1>1, <2>2 DEF Submit, SignInv, TypeInv, TypeOK, Rows
  <2> QED BY <1>1, <2>1, <2>3, SignFrame DEF Submit
<1>2. CASE Authorise(h)
  <2> DEFINE new == [t EXCEPT !.pc = IF t.op = "approve" THEN "resolve" ELSE "decide"]
  <2>0. ASSUME Eligible(t.actor, t.req, t.copy.step) PROVE TaskSigned(new)
    <3>1. t.pc = "authorise" /\ t \in BusyTasks
      BY <1>2, <1>c DEF Authorise
    <3>2. /\ new.op = t.op /\ new.req = t.req /\ new.actor = t.actor /\ new.copy = t.copy
          /\ new.pc = IF t.op = "approve" THEN "resolve" ELSE "decide"
      BY <3>1 DEF BusyTasks
    <3>3. t.op \in {"approve", "reject"}
      BY <1>0, <3>1 DEF SignInv, TypeInv, TaskOps, TaskSigned
    <3> QED BY <1>0, <2>0, <3>1, <3>2, <3>3 DEF TaskSigned
  <2>1. TaskSigned(IF ~Eligible(t.actor, t.req, t.copy.step) THEN Idle ELSE new)
    BY <1>a, <2>0
  <2>2. \A g \in Handlers : TaskSigned(task'[g])
    BY <1>2, <1>b, <2>1 DEF Authorise
  <2> QED BY <1>2, <2>2, SignFrame DEF Authorise
<1>3. CASE Resolve(h)
  <2> DEFINE new == [t EXCEPT !.next = NextStep(ChainFor(t.req), t.copy.step),
         !.pc = IF t.op = "approve" /\ NextStep(ChainFor(t.req), t.copy.step) = NoNextStep
                      /\ Kind[t.req] \in Guarded
                THEN "check_lock" ELSE "decide"]
  <2>1. TaskSigned(new)
    <3>1. t.pc = "resolve" /\ t \in BusyTasks
      BY <1>3, <1>c DEF Resolve
    <3>2. /\ new.op = t.op /\ new.req = t.req /\ new.actor = t.actor /\ new.copy = t.copy
          /\ new.next = NextStep(ChainFor(t.req), t.copy.step)
          /\ new.pc \in {"check_lock", "decide"}
      BY <3>1 DEF BusyTasks
    <3> QED BY <1>0, <3>1, <3>2 DEF TaskSigned
  <2>2. task' = [task EXCEPT ![h] = new]
    BY <1>3 DEF Resolve
  <2>3. \A g \in Handlers : TaskSigned(task'[g])
    BY <1>b, <2>1, <2>2
  <2> QED BY <1>3, <2>3, SignFrame DEF Resolve
<1>4. CASE CheckLock(h)
  <2>1. TaskSigned(IF t.req \in locked THEN Idle ELSE [t EXCEPT !.pc = "decide"])
    <3>1. t.pc = "check_lock" /\ t \in BusyTasks
      BY <1>4, <1>c DEF CheckLock
    <3> QED BY <1>0, <1>a, <3>1 DEF TaskSigned, BusyTasks
  <2>2. \A g \in Handlers : TaskSigned(task'[g])
    BY <1>4, <1>b, <2>1 DEF CheckLock
  <2> QED BY <1>4, <2>2, SignFrame DEF CheckLock
<1>5. CASE SyncEntity(h)
  <2>0. t.pc = "sync" /\ t \in BusyTasks /\ t.op # "submit"
    BY <1>5, <1>c DEF SyncEntity, SignInv, TypeInv, TaskOps
  <2>1. TaskSigned(IF HasEffect(t) THEN [t EXCEPT !.pc = "apply"] ELSE Idle)
    BY <1>0, <1>a, <2>0 DEF TaskSigned, BusyTasks
  <2>2. \A g \in Handlers : TaskSigned(task'[g])
    BY <1>5, <1>b, <2>1 DEF SyncEntity
  <2>3. Outcome(t) = "approved" => FullySigned(t.req)
    BY <1>0, <2>0 DEF TaskSigned
  <2>4. ASSUME NEW r \in Requests, entity'[r].status = "approved"
        PROVE  entity[r].status = "approved" \/ FullySigned(r)
    <3>1. entity[r].status # entity'[r].status => r = t.req /\ entity'[r].status = Outcome(t)
      BY <1>0, <1>5 DEF SyncEntity, TypeOK
    <3> QED BY <2>3, <2>4, <3>1
  <2> QED BY <1>5, <2>2, <2>4, SignFrame DEF SyncEntity
<1>6. CASE ApplyEffect(h)
  <2>1. \A g \in Handlers : TaskSigned(task'[g])
    BY <1>6, <1>a, <1>b DEF ApplyEffect
  <2> QED BY <1>6, <2>1, SignFrame DEF ApplyEffect
<1> QED BY <1>1, <1>2, <1>3, <1>4, <1>5, <1>6

\* A decision signs the step it was taken on, and moves the request no further
\* than the steps that are signed.
LEMMA SignDecision ==
  ASSUME SignInv, TypeInv', NEW h \in Handlers, Decide(h)
  PROVE  SignInv'
<1> PICK t : t = task[h]
  OBVIOUS
<1> DEFINE k == t.copy.step
<1>0. TypeOK /\ TaskSigned(t) /\ t.pc = "decide" /\ t.op # "submit" /\ t \in BusyTasks
  <2>1. TypeOK /\ TaskSigned(t) /\ t.pc = "decide"
    BY DEF SignInv, TypeInv, TasksSigned, Decide
  <2>2. t \in BusyTasks
    BY <2>1, BusyTask
  <2> QED BY <2>1, <2>2 DEF SignInv, TypeInv, TaskOps
<1>1. t.req \in Requests /\ k \in StepNumbers /\ t.actor \in Users /\ t.op \in AllOps
  BY <1>0 DEF BusyTasks, Rows, AllOps
<1>2. \A r \in Requests : history'[r] = IF r = t.req THEN history[r] \cup {Entry(t)} ELSE history[r]
  BY <1>0, <1>1 DEF Decide, TypeOK
<1>3. \A r \in Requests : ChainFor(r)' = ChainFor(r)
  BY DEF Decide, ChainFor, ResolvedChain
<1>4. \A r \in Requests : \A u, s : Eligible(u, r, s)' <=> Eligible(u, r, s)
  BY <1>3 DEF Eligible
<1>5. \A r \in Requests : \A s : Signatures(r, s) # {} => Signatures(r, s)' # {}
  <2> SUFFICES ASSUME NEW r \in Requests, NEW s, NEW e \in Signatures(r, s)
               PROVE  e \in Signatures(r, s)'
    OBVIOUS
  <2>1. e \in history'[r]
    BY <1>2 DEF Signatures
  <2> QED BY <1>4, <2>1 DEF Signatures
<1>6. \A r \in Requests : \A m : SignedBelow(r, m) => SignedBelow(r, m)'
  BY <1>3, <1>5 DEF SignedBelow
<1>7. \A r \in Requests : FullySigned(r) => FullySigned(r)'
  BY <1>3, <1>5 DEF FullySigned
<1>8. ASSUME t.op \in {"approve", "escalate"}
      PROVE  /\ t.next # NoNextStep => SignedBelow(t.req, t.next)'
             /\ t.next = NoNextStep => FullySigned(t.req)'
  <2>1. Signatures(t.req, k)' # {}
    <3>1. Entry(t) \in history'[t.req]
      BY <1>1, <1>2
    <3>2. Entry(t).step = k /\ Entry(t).actor = t.actor /\ Entry(t).action = ActionOf(t.op)
      BY DEF Entry
    <3>3. t.op = "approve" => ActionOf(t.op) = "approved" /\ Eligible(t.actor, t.req, k)'
      BY <1>0, <1>1, <1>4 DEF TaskSigned, ActionOf
    <3>4. t.op = "escalate" => ActionOf(t.op) = "escalated" /\ t.actor \in OrgAdmins
      BY <1>0 DEF TaskSigned, ActionOf
    <3> QED BY <1>8, <3>1, <3>2, <3>3, <3>4 DEF Signatures
  <2>2. ChainFor(t.req) \in AllChains
    BY <1>0, <1>1, ChainForType DEF TypeOK
  <2>3. \A s \in DOMAIN ChainFor(t.req) :
          (t.next = NoNextStep \/ s < t.next) => s <= k
    <3>1. t.next = NextStep(ChainFor(t.req), k)
      BY <1>0, <1>8 DEF TaskSigned
    <3> QED BY <1>1, <2>2, <3>1, NextStepAdvances
  <2>4. ASSUME NEW s \in DOMAIN ChainFor(t.req), s <= k PROVE Signatures(t.req, s)' # {}
    <3>1. s \in Nat /\ k \in Nat
      <4>1. s \in Nat
        BY <2>2, ChainSteps
      <4>2. k \in Nat
        BY <1>1, StepNumbersAreNat
      <4> QED BY <4>1, <4>2
    <3>2. CASE s < k
      BY <1>0, <1>1, <1>5, <3>2 DEF TaskSigned, SignedBelow
    <3>3. CASE s = k
      BY <2>1, <3>3
    <3> QED BY <2>4, <3>1, <3>2, <3>3
  <2>5. DOMAIN (ChainFor(t.req)') = DOMAIN ChainFor(t.req)
    BY <1>1, <1>3
  <2> QED BY <2>3, <2>4, <2>5 DEF SignedBelow, FullySigned
<1>9. Outcome(t) = "approved" => FullySigned(t.req)'
  BY <1>1, <1>8 DEF Outcome, AllOps
<1>10. RowsSigned'
  <2> SUFFICES ASSUME NEW r \in Requests
               PROVE  /\ SignedBelow(r, reqs[r].step)'
                      /\ (reqs[r].status = "approved" \/ entity[r].status = "approved")'
                           => FullySigned(r)'
    BY DEF RowsSigned
  <2>1. entity' = entity
    BY DEF Decide
  <2>2. SignedBelow(r, reqs[r].step)
        /\ (reqs[r].status = "approved" \/ entity[r].status = "approved" => FullySigned(r))
    BY DEF SignInv, RowsSigned
  <2>a. PICK m : m = reqs'[r].step
    OBVIOUS
  <2>b. SignedBelow(r, m)' => SignedBelow(r, reqs[r].step)'
    BY <2>a
  <2>3. CASE r = t.req
    <3>1. reqs'[r].step = StepWritten(t) /\ reqs'[r].status = Outcome(t)
      BY <1>0, <2>3 DEF Decide, TypeOK
    <3>2. \/ StepWritten(t) \in {reqs[r].step, k}
          \/ /\ t.op \in {"approve", "escalate"} /\ t.next # NoNextStep
             /\ StepWritten(t) = t.next
      BY <2>3 DEF StepWritten
    <3>3. SignedBelow(r, k)'
      BY <1>0, <1>6, <2>3 DEF TaskSigned
    <3>4. SignedBelow(r, m)'
      BY <1>6, <1>8, <2>a, <2>2, <2>3, <3>1, <3>2, <3>3
    <3> QED BY <1>7, <1>9, <2>b, <2>1, <2>2, <2>3, <3>1, <3>4
  <2>4. CASE r # t.req
    <3>1. reqs'[r] = reqs[r]
      BY <1>0, <2>4 DEF Decide, TypeOK
    <3>2. SignedBelow(r, m)'
      BY <1>6, <2>a, <2>2, <3>1
    <3> QED BY <1>7, <2>b, <2>1, <2>2, <3>1, <3>2
  <2> QED BY <2>3, <2>4
<1>11. TasksSigned'
  <2> SUFFICES ASSUME NEW g \in Handlers PROVE TaskSigned(task[g])'
    BY DEF TasksSigned
  <2>1. CASE g = h
    <3>1. task'[g] = [t EXCEPT !.pc = "sync"]
      BY <1>0, <2>1 DEF Decide, TypeOK
    <3>2. /\ task'[g].pc = "sync" /\ task'[g].op = t.op /\ task'[g].next = t.next
          /\ task'[g].req = t.req /\ task'[g].copy = t.copy /\ task'[g].actor = t.actor
      BY <1>0, <3>1 DEF BusyTasks
    <3>3. Outcome(task'[g]) = Outcome(t)
      BY <3>2 DEF Outcome
    <3>4. SignedBelow(t.req, k)'
      BY <1>0, <1>1, <1>6 DEF TaskSigned
    <3>5. t.op = "escalate" => t.actor \in OrgAdmins
      BY <1>0 DEF TaskSigned
    <3> QED BY <1>9, <3>2, <3>3, <3>4, <3>5 DEF TaskSigned
  <2>2. CASE g # h
    <3>1. task'[g] = task[g] /\ TaskSigned(task[g])
      BY <1>0, <2>2 DEF Decide, TypeOK, SignInv, TasksSigned
    <3>2. task[g].pc # "idle" => task[g].req \in Requests
      BY <1>0, BusyTask DEF BusyTasks
    <3> QED BY <1>3, <1>4, <1>6, <1>7, <3>1, <3>2 DEF TaskSigned
  <2> QED BY <2>1, <2>2
<1> QED BY <1>10, <1>11 DEF SignInv

\* The calls that start a handler carry a row that is signed as far as it says.
LEMMA SignStart ==
  ASSUME SignInv, TypeInv', NEW h \in Handlers,
         \/ \E r \in Requests : CreateEntity(h, r)
         \/ \E op \in Ops, r \in Requests, u \in Users : ReadRequest(h, op, r, u)
         \/ Crash(h)
  PROVE  SignInv'
<1>0. TypeOK /\ task \in [Handlers -> IdleTasks \cup BusyTasks]
  BY DEF SignInv, TypeInv, TypeOK
<1>a. ASSUME NEW new, task' = [task EXCEPT ![h] = new], TaskSigned(new)
      PROVE  \A g \in Handlers : TaskSigned(task'[g])
  BY <1>0, <1>a DEF SignInv, TasksSigned
<1>1. ASSUME NEW r \in Requests, CreateEntity(h, r) PROVE SignInv'
  <2>1. TaskSigned([pc |-> "insert", op |-> "submit", req |-> r,
                    actor |-> Submitter[r], copy |-> NoRow, next |-> NoNextStep])
    BY DEF TaskSigned
  <2>2. \A g \in Handlers : TaskSigned(task'[g])
    BY <1>1, <1>a, <2>1 DEF CreateEntity
  <2>3. \A q \in Requests : entity'[q].status = "approved" => entity[q].status = "approved"
    BY <1>0, <1>1 DEF CreateEntity, TypeOK
  <2> QED BY <1>1, <2>2, <2>3, SignFrame DEF CreateEntity
<1>2. ASSUME NEW op \in Ops, NEW r \in Requests, NEW u \in Users, ReadRequest(h, op, r, u)
      PROVE  SignInv'
  <2> DEFINE pc == CASE op \in {"approve", "reject"} -> "authorise"
                     [] op = "cancel" -> "decide" [] op = "escalate" -> "resolve"
             new == [pc |-> pc, op |-> op, req |-> r, actor |-> u, copy |-> reqs[r],
                     next |-> NoNextStep]
  <2>1. op \in AllOps
    BY EngineAssumption
  <2>2. /\ op \in {"approve", "reject"} => pc = "authorise"
        /\ op = "cancel" => pc = "decide"
        /\ op = "escalate" => pc = "resolve" /\ u \in OrgAdmins
    BY <1>2 DEF ReadRequest, MayAsk
  <2>3. SignedBelow(r, reqs[r].step)
    BY DEF SignInv, RowsSigned
  <2>4. TaskSigned(new)
    <3> HIDE DEF pc
    <3> QED BY <2>1, <2>2, <2>3 DEF TaskSigned, AllOps
  <2>5. \A g \in Handlers : TaskSigned(task'[g])
    BY <1>2, <1>a, <2>4 DEF ReadRequest
  <2> QED BY <1>2, <2>5, SignFrame DEF ReadRequest
<1>3. CASE Crash(h)
  <2>1. TaskSigned(Idle)
    BY DEF TaskSigned, Idle
  <2>2. \A g \in Handlers : TaskSigned(task'[g])
    BY <1>3, <1>a, <2>1 DEF Crash
  <2> QED BY <1>3, <2>2, SignFrame DEF Crash
<1> QED BY <1>1, <1>2, <1>3

\* Neither the sweep nor the payroll lock signs or advances anything.
LEMMA SignEnvironment ==
  ASSUME SignInv, TypeInv',
         ExpirySweep \/ \E r \in Requests : LockPeriod(r) \/ UnlockPeriod(r)
  PROVE  SignInv'
<1>0. TypeOK /\ \A g \in Handlers : TaskSigned(task[g])
  BY DEF SignInv, TypeInv, TasksSigned
<1>1. CASE ExpirySweep
  <2>1. PICK S : reqs' = [r \in Requests |->
                  IF r \in S THEN [reqs[r] EXCEPT !.status = "expired"] ELSE reqs[r]]
    BY <1>1 DEF ExpirySweep
  <2>2. ASSUME NEW r \in Requests
        PROVE  reqs'[r].step = reqs[r].step
               /\ (reqs'[r].status = "approved" => reqs[r].status = "approved")
    <3>1. reqs[r] \in Rows
      BY <1>0 DEF TypeOK
    <3>2. CASE r \in S
      BY <2>1, <3>1, <3>2 DEF Rows
    <3>3. CASE r \notin S
      BY <2>1, <3>3
    <3> QED BY <3>2, <3>3
  <2> QED BY <1>0, <1>1, <2>2, SignFrame DEF ExpirySweep
<1>2. ASSUME NEW r \in Requests, LockPeriod(r) \/ UnlockPeriod(r) PROVE SignInv'
  BY <1>0, <1>2, SignFrame DEF LockPeriod, UnlockPeriod
<1> QED BY <1>1, <1>2

LEMMA SignStep ==
  ASSUME SavedChains = {}, SignInv, [Next]_vars
  PROVE  SignInv'
<1>1. TypeInv'
  BY TypeStep DEF SignInv
<1>2. ASSUME NEW h \in Handlers, HandlerStep(h) PROVE SignInv'
  BY <1>1, <1>2, SignQueries, SignDecision DEF HandlerStep
<1>3. CASE EditChain
  BY <1>3 DEF EditChain
<1>4. CASE Next
  BY <1>1, <1>2, <1>3, <1>4, SignStart, SignEnvironment DEF Next
<1>5. CASE UNCHANGED vars
  <2>1. \A g \in Handlers : TaskSigned(task'[g])
    BY <1>5 DEF vars, SignInv, TasksSigned
  <2> QED BY <1>1, <1>5, <2>1, SignFrame DEF vars
<1> QED BY <1>4, <1>5

LEMMA SignedSteps == SignInv => StepsSigned
<1> SUFFICES ASSUME SignInv, NEW r \in Requests, NEW s \in DOMAIN ChainFor(r),
                    \/ s < reqs[r].step
                    \/ reqs[r].status = "approved"
                    \/ entity[r].status = "approved"
             PROVE  Signatures(r, s) # {}
  BY DEF StepsSigned
<1> QED BY DEF SignInv, RowsSigned, SignedBelow, FullySigned

\* With a chain that nobody edits, whatever the number of users, handlers and
\* steps, however their queries interleave, crash and overwrite each other, no
\* request or entity is approved, and none stands past a step, without that
\* step's signature (_doApprove, escalate).
THEOREM NoStepUnsigned ==
  ASSUME SavedChains = {}
  PROVE  Spec => []StepsSigned
<1>1. Init => SignInv
  BY SignInit
<1>2. SignInv /\ [Next]_vars => SignInv'
  BY SignStep
<1>3. SignInv => StepsSigned
  BY SignedSteps
<1> QED BY <1>1, <1>2, <1>3, PTL DEF Spec

-----------------------------------------------------------------------------
(* The log of an approved request is evidence for each of its steps.        *)

Decisions == {"approve", "reject", "cancel"}
Deciding  == {"authorise", "resolve", "check_lock", "decide"}

\* Status, step and log of a row, current or stale, belong together; a rejection
\* or a cancellation, whose UPDATE leaves current_step out, breaks that.
LogSigned(r, row) ==
  row.status \in Active \cup {"absent", "approved"} =>
    \A s \in DOMAIN ChainFor(r) :
      s < row.step \/ row.status = "approved" => Signatures(r, s) \cap row.log # {}

LogTask(t) ==
  /\ t.pc = "insert" => reqs[t.req].status = "absent" /\ entity[t.req].status # "absent"
  /\ t.pc \in Deciding => t.copy.status \in Active /\ LogSigned(t.req, t.copy)
  /\ t.pc \notin {"idle", "insert"} => t.op \in Decisions /\ reqs[t.req].status # "absent"

\* Of two handlers that insert a request, each inserts one of its own.
InsertsApart ==
  \A g, h \in Handlers : g # h /\ task[g].pc = "insert" /\ task[h].pc = "insert"
    => task[g].req # task[h].req

LogInv ==
  /\ SignInv
  /\ \A r \in Requests : /\ LogSigned(r, reqs[r])
                         /\ entity[r].status = "absent" => reqs[r].status = "absent"
  /\ \A h \in Handlers : LogTask(task[h])
  /\ InsertsApart

LEMMA LogInit == Init => LogInv
<1> SUFFICES ASSUME Init PROVE LogInv
  OBVIOUS
<1>1. ASSUME NEW r \in Requests PROVE LogSigned(r, reqs[r])
  <2>1. ChainFor(r) \in AllChains
    BY TypeInit, ChainForType DEF TypeInv, TypeOK
  <2>2. \A s \in DOMAIN ChainFor(r) : ~(s < 1)
    BY <2>1, ChainSteps
  <2> QED BY <2>2 DEF Init, NoRow, LogSigned
<1> QED BY <1>1, SignInit DEF Init, LogInv, LogTask, InsertsApart, Idle, NoRow, Deciding

\* Signatures only ever grow while nobody edits the chain.
LEMMA SignaturesGrow ==
  ASSUME chainRow' = chainRow, NEW r \in Requests, history[r] \subseteq history'[r]
  PROVE  /\ ChainFor(r)' = ChainFor(r)
         /\ \A s : Signatures(r, s) \subseteq Signatures(r, s)'
         /\ \A row : LogSigned(r, row) => LogSigned(r, row)'
<1>1. ChainFor(r)' = ChainFor(r)
  BY DEF ChainFor, ResolvedChain
<1>2. \A u, s : Eligible(u, r, s)' <=> Eligible(u, r, s)
  BY <1>1 DEF Eligible
<1>3. \A s : Signatures(r, s) \subseteq Signatures(r, s)'
  BY <1>2 DEF Signatures
<1>4. ASSUME NEW row, LogSigned(r, row) PROVE LogSigned(r, row)'
  BY <1>1, <1>3, <1>4 DEF LogSigned
<1> QED BY <1>1, <1>3, <1>4

\* A step of one handler that writes no request.
LEMMA LogFrame ==
  ASSUME LogInv, SignInv', chainRow' = chainRow, reqs' = reqs, history' = history,
         \A r \in Requests : entity'[r].status = "absent" <=> entity[r].status = "absent",
         NEW h \in Handlers, NEW new, task' = [task EXCEPT ![h] = new],
         new.pc # "insert", LogTask(new)
  PROVE  LogInv'
<1>0. TypeOK
  BY DEF LogInv, SignInv, TypeInv
<1>1. ASSUME NEW t, t.pc # "idle" => t.req \in Requests, LogTask(t) PROVE LogTask(t)'
  BY <1>1, SignaturesGrow DEF LogTask, Deciding
<1>2. ASSUME NEW g \in Handlers PROVE LogTask(task[g])'
  <2>1. task'[g] = IF g = h THEN new ELSE task[g]
    BY <1>0 DEF TypeOK
  <2>2. LogTask(task'[g])
    BY <2>1 DEF LogInv
  <2>3. task'[g].pc # "idle" => task'[g].req \in Requests
    <3>1. TypeOK'
      BY DEF SignInv, TypeInv
    <3>2. task'[g] \in IdleTasks \cup BusyTasks
      BY <3>1 DEF TypeOK
    <3> QED BY <3>2 DEF IdleTasks, BusyTasks
  <2> PICK t : t = task'[g]
    OBVIOUS
  <2>4. LogTask(t)'
    BY <1>1, <2>2, <2>3
  <2> QED BY <2>4
<1>3. ASSUME NEW r \in Requests PROVE LogSigned(r, reqs[r])'
  <2> PICK row : row = reqs[r]
    OBVIOUS
  <2>1. LogSigned(r, row)'
    BY SignaturesGrow DEF LogInv
  <2> QED BY <2>1
<1>4. InsertsApart'
  BY <1>0 DEF LogInv, InsertsApart, TypeOK
<1> QED BY <1>2, <1>3, <1>4 DEF LogInv

\* The queries that write no request, and the death of a handler.
LEMMA LogQueries ==
  ASSUME LogInv, SignInv', NEW h \in Handlers,
         \/ Authorise(h) \/ Resolve(h) \/ CheckLock(h) \/ SyncEntity(h) \/ ApplyEffect(h)
         \/ Crash(h)
  PROVE  LogInv'
<1> PICK t : t = task[h]
  OBVIOUS
<1>0. TypeOK /\ LogTask(t) /\ t.pc # "idle" /\ t \in BusyTasks
  <2>1. TypeOK /\ LogTask(t) /\ t.pc # "idle"
    BY DEF LogInv, SignInv, TypeInv, Authorise, Resolve, CheckLock, SyncEntity, ApplyEffect, Crash
  <2> QED BY <2>1, BusyTask
<1>a. LogTask(Idle) /\ Idle.pc # "insert"
  BY DEF LogTask, Idle, Deciding
<1>b. ASSUME NEW new, t.pc \in Deciding, new.pc \in Deciding, new.op = t.op, new.req = t.req,
             new.copy = t.copy
      PROVE  LogTask(new) /\ new.pc # "insert"
  BY <1>0, <1>b DEF LogTask, Deciding
<1>1. CASE Authorise(h)
  <2> DEFINE new == [t EXCEPT !.pc = IF t.op = "approve" THEN "resolve" ELSE "decide"]
  <2>1. LogTask(new) /\ new.pc # "insert"
    BY <1>0, <1>1, <1>b DEF Authorise, BusyTasks, Deciding
  <2>2. task' = [task EXCEPT ![h] = IF ~Eligible(t.actor, t.req, t.copy.step) THEN Idle ELSE new]
    BY <1>1 DEF Authorise
  <2> HIDE DEF new
  <2> QED BY <1>1, <1>a, <2>1, <2>2, LogFrame DEF Authorise
<1>2. CASE Resolve(h)
  <2> DEFINE next == NextStep(ChainFor(t.req), t.copy.step)
             new  == [t EXCEPT !.next = next,
         !.pc = IF t.op = "approve" /\ next = NoNextStep /\ Kind[t.req] \in Guarded
                THEN "check_lock" ELSE "decide"]
  <2>1. LogTask(new) /\ new.pc # "insert"
    <3> HIDE DEF next
    <3>1. new.pc \in {"check_lock", "decide"} /\ new.op = t.op /\ new.req = t.req /\ new.copy = t.copy
      BY <1>0 DEF BusyTasks
    <3>2. t.pc \in Deciding
      BY <1>2 DEF Resolve, Deciding
    <3> HIDE DEF new
    <3> QED BY <1>b, <3>1, <3>2 DEF Deciding
  <2>2. task' = [task EXCEPT ![h] = new]
    BY <1>2 DEF Resolve
  <2> HIDE DEF new
  <2> QED BY <1>2, <2>1, <2>2, LogFrame DEF Resolve
<1>3. CASE CheckLock(h)
  <2> DEFINE new == [t EXCEPT !.pc = "decide"]
  <2>1. LogTask(new) /\ new.pc # "insert"
    BY <1>0, <1>3, <1>b DEF CheckLock, BusyTasks, Deciding
  <2>2. task' = [task EXCEPT ![h] = IF t.req \in locked THEN Idle ELSE new]
    BY <1>0, <1>3 DEF CheckLock, TypeOK
  <2> HIDE DEF new
  <2> QED BY <1>3, <1>a, <2>1, <2>2, LogFrame DEF CheckLock
<1>4. CASE SyncEntity(h)
  <2> DEFINE new == [t EXCEPT !.pc = "apply"]
  <2>1. LogTask(new) /\ new.pc # "insert"
    BY <1>0, <1>4 DEF SyncEntity, BusyTasks, LogTask, Deciding
  <2>2. task' = [task EXCEPT ![h] = IF HasEffect(t) THEN new ELSE Idle]
    BY <1>4 DEF SyncEntity
  <2>3. ASSUME NEW r \in Requests
        PROVE  entity'[r].status = "absent" <=> entity[r].status = "absent"
    <3>1. CASE r # t.req
      BY <1>0, <1>4, <3>1 DEF SyncEntity, TypeOK
    <3>2. CASE r = t.req
      <4>1. reqs[r].status # "absent" => entity[r].status # "absent"
        BY DEF LogInv
      <4>2. entity'[r].status = IF Outcome(t) \in Closed THEN Outcome(t) ELSE entity[r].status
        BY <1>0, <1>4, <3>2 DEF SyncEntity, TypeOK
      <4>3. entity[r].status # "absent"
        BY <1>0, <1>4, <3>2, <4>1 DEF SyncEntity, LogTask
      <4> QED BY <4>2, <4>3 DEF Closed
    <3> QED BY <3>1, <3>2
  <2> HIDE DEF new
  <2> QED BY <1>4, <1>a, <2>1, <2>2, <2>3, LogFrame DEF SyncEntity
<1>5. CASE ApplyEffect(h) \/ Crash(h)
  BY <1>5, <1>a, LogFrame DEF ApplyEffect, Crash
<1> QED BY <1>1, <1>2, <1>3, <1>4, <1>5

\* The calls that start a handler.
LEMMA LogStart ==
  ASSUME LogInv, SignInv', "escalate" \notin Ops, NEW h \in Handlers,
         \/ \E r \in Requests : CreateEntity(h, r)
         \/ \E op \in Ops, r \in Requests, u \in Users : ReadRequest(h, op, r, u)
  PROVE  LogInv'
<1>0. TypeOK
  BY DEF LogInv, SignInv, TypeInv
<1>1. ASSUME NEW r \in Requests, CreateEntity(h, r) PROVE LogInv'
  <2>1. /\ entity[r].status = "absent" /\ entity'[r].status = "pending"
        /\ \A q \in Requests : q # r => entity'[q] = entity[q]
        /\ reqs' = reqs /\ reqs[r].status = "absent"
    BY <1>0, <1>1 DEF CreateEntity, TypeOK, LogInv
  <2>2. task'[h].pc = "insert" /\ task'[h].req = r /\ \A g \in Handlers : g # h => task'[g] = task[g]
    BY <1>0, <1>1 DEF CreateEntity, TypeOK
  <2>3. ASSUME NEW q \in Requests
        PROVE  /\ LogSigned(q, reqs[q])'
               /\ (entity[q].status = "absent" => reqs[q].status = "absent")'
    <3> PICK row : row = reqs[q]
      OBVIOUS
    <3>1. LogSigned(q, row)'
      BY <1>1, SignaturesGrow DEF LogInv, CreateEntity
    <3>2. entity'[q].status = "absent" => reqs[q].status = "absent"
      BY <2>1 DEF LogInv
    <3> QED BY <2>1, <3>1, <3>2
  <2>4. ASSUME NEW g \in Handlers PROVE LogTask(task[g])'
    <3>1. CASE g = h
      BY <2>1, <2>2, <3>1 DEF LogTask, Deciding
    <3>2. CASE g # h
      <4> PICK t : t = task[g]
        OBVIOUS
      <4>1. task'[g] = t /\ LogTask(t) /\ (t.pc # "idle" => t.req \in Requests)
        BY <1>0, <2>2, <3>2, BusyTask DEF LogInv, BusyTasks
      <4>2. LogTask(t)'
        <5>1. t.pc \in Deciding => LogSigned(t.req, t.copy)'
          BY <1>1, <4>1, SignaturesGrow DEF CreateEntity, LogTask, Deciding
        <5>2. t.pc = "insert" => entity'[t.req].status # "absent"
          BY <2>1, <4>1 DEF LogTask
        <5> QED BY <2>1, <4>1, <5>1, <5>2 DEF LogTask
      <4> QED BY <4>1, <4>2
    <3> QED BY <3>1, <3>2
  <2>5. InsertsApart'
    <3>1. ASSUME NEW g \in Handlers, task[g].pc = "insert" PROVE task[g].req # r
      BY <2>1, <3>1 DEF LogInv, LogTask
    <3> QED BY <2>2, <3>1 DEF LogInv, InsertsApart
  <2> QED BY <2>3, <2>4, <2>5 DEF LogInv
<1>2. ASSUME NEW op \in Ops, NEW r \in Requests, NEW u \in Users, ReadRequest(h, op, r, u)
      PROVE  LogInv'
  <2> DEFINE new == [pc |-> CASE op \in {"approve", "reject"} -> "authorise"
                              [] op = "cancel" -> "decide" [] op = "escalate" -> "resolve",
                     op |-> op, req |-> r, actor |-> u, copy |-> reqs[r], next |-> NoNextStep]
  <2>1. op \in Decisions
    BY EngineAssumption DEF AllOps, Decisions
  <2>2. /\ new.pc \in {"authorise", "decide"} /\ new.op = op /\ new.req = r
        /\ new.copy = reqs[r]
    BY <2>1 DEF Decisions
  <2>3. reqs[r].status \in Active
    BY <1>2, <2>1 DEF ReadRequest, Admits, Active, Decisions
  <2>4. LogSigned(r, reqs[r])
    BY DEF LogInv
  <2>5. task' = [task EXCEPT ![h] = new]
    BY <1>2 DEF ReadRequest
  <2> HIDE DEF new
  <2>6. LogTask(new)
    BY <2>1, <2>2, <2>3, <2>4 DEF LogTask, Deciding, Active
  <2> QED BY <1>2, <2>2, <2>5, <2>6, LogFrame DEF ReadRequest
<1> QED BY <1>1, <1>2

\* What a step that writes requests leaves of the other handlers: none of the
\* requests it writes is one that another handler still has to insert.
LEMMA LogOthers ==
  ASSUME LogInv, chainRow' = chainRow, entity' = entity, NEW g \in Handlers, task'[g] = task[g],
         \A r \in Requests : history[r] \subseteq history'[r],
         \A r \in Requests : reqs[r].status # "absent" => reqs'[r].status # "absent",
         task[g].pc = "insert" => reqs'[task[g].req] = reqs[task[g].req]
  PROVE  LogTask(task[g])'
<1> PICK t : t = task[g]
  OBVIOUS
<1>1. TypeOK /\ LogTask(t)
  BY DEF LogInv, SignInv, TypeInv
<1>2. t.pc # "idle" => t.req \in Requests
  BY <1>1, BusyTask DEF BusyTasks
<1>3. t.pc \in Deciding => LogSigned(t.req, t.copy)'
  BY <1>1, <1>2, SignaturesGrow DEF LogTask, Deciding
<1>4. t.pc \notin {"idle", "insert"} => reqs'[t.req].status # "absent"
  BY <1>1, <1>2 DEF LogTask
<1>5. LogTask(t)'
  BY <1>1, <1>3, <1>4 DEF LogTask
<1> QED BY <1>5

\* The submission writes the first status of a row that has no log yet.
LEMMA LogSubmit ==
  ASSUME LogInv, SignInv', NEW h \in Handlers, Submit(h)
  PROVE  LogInv'
<1> PICK t : t = task[h]
  OBVIOUS
<1>0. TypeOK /\ LogTask(t) /\ t.pc = "insert" /\ t.req \in Requests
  <2>1. TypeOK /\ LogTask(t) /\ t.pc = "insert"
    BY DEF LogInv, SignInv, TypeInv, Submit
  <2> QED BY <2>1, BusyTask DEF BusyTasks
<1>1. /\ reqs'[t.req] = [reqs[t.req] EXCEPT !.status = "pending"]
      /\ \A r \in Requests : r # t.req => reqs'[r] = reqs[r]
      /\ UNCHANGED <<chainRow, entity, history>>
      /\ task'[h] = Idle /\ \A g \in Handlers : g # h => task'[g] = task[g]
  BY <1>0 DEF Submit, TypeOK
<1>2. /\ reqs[t.req].status = "absent" /\ reqs'[t.req].status = "pending"
      /\ reqs'[t.req].step = reqs[t.req].step /\ reqs'[t.req].log = reqs[t.req].log
  BY <1>0, <1>1 DEF LogTask, TypeOK, Rows
<1>3. ASSUME NEW r \in Requests
      PROVE  LogSigned(r, reqs[r])' /\ (entity[r].status = "absent" => reqs[r].status = "absent")'
  <2> PICK old : old = reqs[r]
    OBVIOUS
  <2> PICK new : new = reqs'[r]
    OBVIOUS
  <2>1. LogSigned(r, old)'
    BY <1>1, SignaturesGrow DEF LogInv
  <2>2. \/ new = old
        \/ /\ old.status = "absent" /\ new.status = "pending"
           /\ new.step = old.step /\ new.log = old.log
    BY <1>1, <1>2
  <2>3. LogSigned(r, new)'
    BY <2>1, <2>2 DEF LogSigned, Active
  <2>4. entity[r].status = "absent" => new.status = "absent"
    BY <1>0, <1>1, <1>2 DEF LogInv, LogTask
  <2> QED BY <1>1, <2>3, <2>4
<1>4. ASSUME NEW g \in Handlers PROVE LogTask(task[g])'
  <2>1. CASE g = h
    BY <1>1, <2>1 DEF LogTask, Idle, Deciding
  <2>2. CASE g # h
    <3>1. task[g].pc = "insert" => task[g].req # t.req /\ task[g].req \in Requests
      BY <1>0, <2>2, BusyTask DEF LogInv, InsertsApart, BusyTasks
    <3>2. \A r \in Requests : reqs[r].status # "absent" => reqs'[r].status # "absent"
      BY <1>1, <1>2
    <3> QED BY <1>1, <2>2, <3>1, <3>2, LogOthers
  <2> QED BY <2>1, <2>2
<1>5. InsertsApart'
  BY <1>1 DEF LogInv, InsertsApart, Idle
<1> QED BY <1>3, <1>4, <1>5 DEF LogInv

\* The decision writes status, step and log from one snapshot of the row.
LEMMA LogDecide ==
  ASSUME LogInv, SignInv', NEW h \in Handlers, Decide(h)
  PROVE  LogInv'
<1> PICK t : t = task[h]
  OBVIOUS
<1> DEFINE k == t.copy.step
<1>0. TypeOK /\ LogTask(t) /\ TaskSigned(t) /\ t.pc = "decide" /\ t \in BusyTasks
  <2>1. TypeOK /\ LogTask(t) /\ TaskSigned(t) /\ t.pc = "decide"
    BY DEF LogInv, SignInv, TypeInv, TasksSigned, Decide
  <2> QED BY <2>1, BusyTask
<1>1. /\ t.req \in Requests /\ k \in StepNumbers /\ t.op \in Decisions
      /\ t.copy.status \in Active /\ LogSigned(t.req, t.copy) /\ reqs[t.req].status # "absent"
  BY <1>0 DEF BusyTasks, Rows, LogTask, Deciding
<1>2. /\ reqs'[t.req] = [status |-> Outcome(t), step |-> StepWritten(t),
                         log |-> t.copy.log \cup {Entry(t)}]
      /\ history'[t.req] = history[t.req] \cup {Entry(t)}
      /\ \A r \in Requests : r # t.req => reqs'[r] = reqs[r] /\ history'[r] = history[r]
      /\ UNCHANGED <<chainRow, entity>>
      /\ \A g \in Handlers : g # h => task'[g] = task[g]
  BY <1>0, <1>1 DEF Decide, TypeOK
<1>3. /\ task'[h].pc = "sync" /\ task'[h].op = t.op /\ task'[h].req = t.req
  BY <1>0 DEF Decide, TypeOK, BusyTasks
<1>4. \A r \in Requests : history[r] \subseteq history'[r]
  BY <1>2
<1>5. Outcome(t) \in {"approved", "under_review", "rejected", "cancelled"}
  BY <1>1 DEF Outcome, Decisions
<1>6. ASSUME t.op = "approve",
             NEW s \in DOMAIN ChainFor(t.req), t.next = NoNextStep \/ s < t.next
      PROVE  (Signatures(t.req, s) \cap reqs[t.req].log)' # {}
  <2>1. ChainFor(t.req) \in AllChains
    BY <1>0, <1>1, ChainForType DEF TypeOK
  <2>2. s \in Nat /\ k \in Nat
    <3>1. s \in Nat
      BY <2>1, ChainSteps
    <3>2. k \in Nat
      BY <1>1, StepNumbersAreNat
    <3> QED BY <3>1, <3>2
  <2>3. s <= k
    <3>1. t.next = NextStep(ChainFor(t.req), k)
      BY <1>0, <1>6 DEF TaskSigned
    <3> QED BY <1>1, <1>6, <2>1, <3>1, NextStepAdvances
  <2>4. Signatures(t.req, s) \subseteq Signatures(t.req, s)'
    BY <1>1, <1>2, <1>4, SignaturesGrow
  <2>5. t.copy.log \cup {Entry(t)} = reqs'[t.req].log
    BY <1>2
  <2>6. CASE s < k
    <3>1. Signatures(t.req, s) \cap t.copy.log # {}
      BY <1>1, <2>6 DEF LogSigned
    <3> QED BY <2>4, <2>5, <3>1
  <2>7. CASE s = k
    <3>1. Entry(t) \in history'[t.req]
      BY <1>2
    <3>2. /\ Entry(t).step = k /\ Entry(t).actor = t.actor /\ Entry(t).action = "approved"
      BY <1>6 DEF Entry, ActionOf
    <3>3. Eligible(t.actor, t.req, k)
      BY <1>0, <1>6 DEF TaskSigned
    <3>4. Eligible(t.actor, t.req, k)'
      <4>1. ChainFor(t.req)' = ChainFor(t.req)
        BY <1>2 DEF ChainFor, ResolvedChain
      <4> QED BY <3>3, <4>1 DEF Eligible
    <3>5. Entry(t) \in Signatures(t.req, k)'
      BY <3>1, <3>2, <3>4 DEF Signatures
    <3> QED BY <2>5, <2>7, <3>5
  <2> QED BY <2>2, <2>3, <2>6, <2>7
<1>7. LogSigned(t.req, reqs[t.req])'
  <2>1. ChainFor(t.req)' = ChainFor(t.req)
    BY <1>2 DEF ChainFor, ResolvedChain
  <2>2. reqs'[t.req].status = Outcome(t) /\ reqs'[t.req].step = StepWritten(t)
    BY <1>2
  <2>3. Outcome(t) \in Active \cup {"absent", "approved"} => t.op = "approve"
    BY <1>1 DEF Outcome, Decisions, Active
  <2>4. t.op = "approve" /\ t.next # NoNextStep =>
          StepWritten(t) = t.next /\ Outcome(t) # "approved"
    BY DEF StepWritten, Outcome
  <2>5. ASSUME t.op = "approve", NEW s \in DOMAIN ChainFor(t.req),
               s < StepWritten(t) \/ Outcome(t) = "approved"
        PROVE  (Signatures(t.req, s) \cap reqs[t.req].log)' # {}
    BY <1>6, <2>4, <2>5
  <2> QED BY <2>1, <2>2, <2>3, <2>5 DEF LogSigned
<1>8. ASSUME NEW r \in Requests
      PROVE  LogSigned(r, reqs[r])' /\ (entity[r].status = "absent" => reqs[r].status = "absent")'
  <2>1. CASE r = t.req
    BY <1>1, <1>2, <1>7, <2>1 DEF LogInv
  <2>2. CASE r # t.req
    <3> PICK row : row = reqs[r]
      OBVIOUS
    <3>1. LogSigned(r, row)'
      BY <1>2, <1>4, SignaturesGrow DEF LogInv
    <3> QED BY <1>2, <2>2, <3>1 DEF LogInv
  <2> QED BY <2>1, <2>2
<1>9. ASSUME NEW g \in Handlers PROVE LogTask(task[g])'
  <2>1. CASE g = h
    <3>1. reqs'[t.req].status # "absent"
      BY <1>2, <1>5
    <3> QED BY <1>1, <1>3, <2>1, <3>1 DEF LogTask, Deciding
  <2>2. CASE g # h
    <3>1. task[g].pc = "insert" => task[g].req # t.req /\ task[g].req \in Requests
      BY <1>0, <1>1, BusyTask DEF LogInv, LogTask, BusyTasks
    <3>2. \A r \in Requests : reqs[r].status # "absent" => reqs'[r].status # "absent"
      BY <1>2, <1>5
    <3> QED BY <1>2, <1>4, <2>2, <3>1, <3>2, LogOthers
  <2> QED BY <2>1, <2>2
<1>10. InsertsApart'
  BY <1>2, <1>3 DEF LogInv, InsertsApart
<1> QED BY <1>8, <1>9, <1>10 DEF LogInv

\* The sweep keeps step and log; the payroll lock touches no request.
LEMMA LogEnvironment ==
  ASSUME LogInv, SignInv',
         ExpirySweep \/ \E r \in Requests : LockPeriod(r) \/ UnlockPeriod(r)
  PROVE  LogInv'
<1>0. TypeOK
  BY DEF LogInv, SignInv, TypeInv
<1>1. ASSUME NEW r \in Requests
      PROVE  \/ reqs'[r] = reqs[r]
             \/ reqs[r].status # "absent" /\ reqs'[r].status = "expired"
  <2>1. CASE ExpirySweep
    <3>1. PICK S \in SUBSET {q \in Requests : /\ reqs[q].status \in {"pending", "under_review"}
                                              /\ q \in WithSla} :
            reqs' = [q \in Requests |->
                      IF q \in S THEN [reqs[q] EXCEPT !.status = "expired"] ELSE reqs[q]]
      BY <2>1 DEF ExpirySweep
    <3>2. reqs[r] \in Rows
      BY <1>0 DEF TypeOK
    <3>3. CASE r \in S
      BY <3>1, <3>2, <3>3 DEF Rows
    <3>4. CASE r \notin S
      BY <3>1, <3>4
    <3> QED BY <3>3, <3>4
  <2>2. CASE \E q \in Requests : LockPeriod(q) \/ UnlockPeriod(q)
    BY <2>2 DEF LockPeriod, UnlockPeriod
  <2> QED BY <2>1, <2>2
<1>2. UNCHANGED <<chainRow, entity, task, history>>
  BY DEF ExpirySweep, LockPeriod, UnlockPeriod
<1>3. ASSUME NEW r \in Requests
      PROVE  LogSigned(r, reqs[r])' /\ (entity[r].status = "absent" => reqs[r].status = "absent")'
  <2> PICK old : old = reqs[r]
    OBVIOUS
  <2> PICK new : new = reqs'[r]
    OBVIOUS
  <2>1. LogSigned(r, old)'
    BY <1>2, SignaturesGrow DEF LogInv
  <2>2. new = old \/ (old.status # "absent" /\ new.status = "expired")
    BY <1>1
  <2>3. LogSigned(r, new)'
    BY <2>1, <2>2 DEF LogSigned, Active
  <2>4. entity[r].status = "absent" => new.status = "absent"
    BY <2>2 DEF LogInv
  <2> QED BY <1>2, <2>3, <2>4
<1>4. ASSUME NEW g \in Handlers PROVE LogTask(task[g])'
  <2>1. task[g].pc = "insert" => reqs'[task[g].req] = reqs[task[g].req]
    <3>1. task[g].pc = "insert" => task[g].req \in Requests /\ reqs[task[g].req].status = "absent"
      BY <1>0, BusyTask DEF LogInv, LogTask, BusyTasks
    <3> QED BY <1>1, <3>1
  <2>2. \A r \in Requests : reqs[r].status # "absent" => reqs'[r].status # "absent"
    BY <1>1
  <2> QED BY <1>2, <2>1, <2>2, LogOthers
<1>5. InsertsApart'
  BY <1>2 DEF LogInv, InsertsApart
<1> QED BY <1>3, <1>4, <1>5 DEF LogInv

LEMMA LogStep ==
  ASSUME SavedChains = {}, "escalate" \notin Ops, LogInv, [Next]_vars
  PROVE  LogInv'
<1>1. SignInv'
  BY SignStep DEF LogInv
<1>2. ASSUME NEW h \in Handlers, HandlerStep(h) PROVE LogInv'
  BY <1>1, <1>2, LogQueries, LogSubmit, LogDecide DEF HandlerStep
<1>3. ~EditChain
  BY DEF EditChain
<1>4. CASE Next
  BY <1>1, <1>2, <1>3, <1>4, LogStart, LogQueries, LogEnvironment DEF Next
<1>5. CASE UNCHANGED vars
  <2>1. ASSUME NEW r \in Requests PROVE LogSigned(r, reqs[r])'
    <3> PICK row : row = reqs[r]
      OBVIOUS
    <3>1. LogSigned(r, row)'
      BY <1>5, SignaturesGrow DEF vars, LogInv
    <3> QED BY <1>5, <3>1 DEF vars
  <2>2. ASSUME NEW g \in Handlers PROVE LogTask(task[g])'
    BY <1>5, LogOthers DEF vars
  <2> QED BY <1>1, <1>5, <2>1, <2>2 DEF vars, LogInv, InsertsApart
<1> QED BY <1>4, <1>5

\* With a chain that nobody edits and no escalations, whatever handlers overwrite
\* each other's decisions, die between two queries or are overtaken by the sweep,
\* the log an approved request ends up with holds, for each step of the chain,
\* an entry of somebody entitled to sign it.
THEOREM ApprovalHasItsLog ==
  ASSUME SavedChains = {}, "escalate" \notin Ops
  PROVE  Spec => []ApprovedLogComplete
<1>1. Init => LogInv
  BY LogInit
<1>2. LogInv /\ [Next]_vars => LogInv'
  BY LogStep
<1>3. LogInv => ApprovedLogComplete
  BY DEF LogInv, LogSigned, ApprovedLogComplete
<1> QED BY <1>1, <1>2, <1>3, PTL DEF Spec
=============================================================================
