------------------------ MODULE ApprovalSerialProofs ------------------------
(***************************************************************************)
(* What holds of ApprovalEngine when its decisions are taken one after     *)
(* another, and when no handler dies: proofs for any number of users,      *)
(* requests and steps.                                                     *)
(***************************************************************************)
EXTENDS ApprovalEngineProofs

(* One handler at a time, and chains that agree.                            *)

OneHandler == \A g, h \in Handlers : g = h

\* The chains a request may meet, and the steps it may be made to wait at.
Chains     == SavedChains \cup {InitialChain}
KnownSteps == {1} \cup UNION {DOMAIN c : c \in Chains}

\* A step that one chain has and another lacks comes before all of the other's:
\* computeAdvance takes the first step of a chain that lacks the current one.
ChainsAgree ==
  \A c, d \in Chains : \A s \in DOMAIN c : s \in DOMAIN d \/ \A t \in DOMAIN d : t > s

\* The log of a request is its history, with one entry for a step, and while the
\* request is open all of them are before the step it waits at.
RowSerial(r) ==
  /\ reqs[r].step \in KnownSteps
  /\ reqs[r].log = history[r]
  /\ \A e, f \in history[r] : e.step = f.step => e = f
  /\ reqs[r].status \notin Closed => \A e \in history[r] : e.step < reqs[r].step
  /\ entity[r].status = "absent" => reqs[r].status = "absent"

\* The row a handler carries is still the row, unless the sweep expired it.
TaskSerial(t) ==
  /\ t.pc = "insert" => reqs[t.req].status = "absent" /\ entity[t.req].status = "pending"
  /\ t.pc \notin {"idle", "insert"} => t.op \in Decisions
  /\ t.pc \in Deciding =>
       /\ t.copy.status \in Active
       /\ t.copy.step = reqs[t.req].step /\ t.copy.log = reqs[t.req].log
       /\ \/ reqs[t.req].status = t.copy.status
          \/ reqs[t.req].status = "expired" /\ WithSla # {}
  /\ t.pc \in {"check_lock", "decide"} /\ t.op = "approve" =>
       \/ t.next = NoNextStep
       \/ t.next \in KnownSteps /\ t.next > t.copy.step
  /\ t.pc = "sync" =>
       \/ reqs[t.req].status = Outcome(t)
       \/ reqs[t.req].status = "expired" /\ WithSla # {} /\ Outcome(t) \notin Closed

SerialInv ==
  /\ TypeInv
  /\ chainRow.steps \in Chains
  /\ \A r \in Requests : RowSerial(r)
  /\ \A h \in Handlers : TaskSerial(task[h])

\* Whatever chain is in force, the step after a known step is a later one.
LEMMA NextStepLater ==
  ASSUME ChainsAgree, TypeOK, chainRow.steps \in Chains,
         NEW r \in Requests, NEW k \in KnownSteps \cap StepNumbers
  PROVE  \/ NextStep(ChainFor(r), k) = NoNextStep
         \/ NextStep(ChainFor(r), k) \in KnownSteps /\ NextStep(ChainFor(r), k) > k
<1> DEFINE c == ChainFor(r)
<1>1. c \in AllChains /\ DOMAIN c \subseteq Nat \ {0}
  BY ChainForType, ChainSteps DEF TypeOK
<1>2. k \in Nat
  BY StepNumbersAreNat
<1>3. DOMAIN c = {} \/ c \in Chains
  BY DEF ChainFor, ResolvedChain, NoChain
<1> HIDE DEF c
<1>4. CASE StepsAfter(c, k) = {}
  BY <1>4 DEF NextStep, c
<1>5. CASE StepsAfter(c, k) # {}
  <2>1. StepsAfter(c, k) \subseteq DOMAIN c
    BY DEF StepsAfter
  <2>2. NextStep(c, k) \in StepsAfter(c, k)
    <3>1. StepsAfter(c, k) \subseteq Nat
      BY <1>1, <2>1
    <3> QED BY <1>5, <3>1, LeastOfIsLeast DEF NextStep
  <2>3. c \in Chains
    BY <1>3, <1>5, <2>1
  <2>4. \A t \in StepsAfter(c, k) : t > k
    <3>1. CASE k \in DOMAIN c
      BY <3>1 DEF StepsAfter
    <3>2. CASE k \notin DOMAIN c /\ k = 1
      BY <1>1, <2>1, <3>2
    <3>3. CASE k \notin DOMAIN c /\ k # 1
      <4>1. PICK d \in Chains : k \in DOMAIN d
        BY <3>3 DEF KnownSteps
      <4>2. \A t \in DOMAIN c : t > k
        BY <2>3, <3>3, <4>1 DEF ChainsAgree
      <4> QED BY <2>1, <4>2
    <3> QED BY <3>1, <3>2, <3>3
  <2>5. NextStep(c, k) \in KnownSteps
    BY <2>1, <2>2, <2>3 DEF KnownSteps
  <2> QED BY <2>2, <2>4, <2>5 DEF c
<1> QED BY <1>4, <1>5

LEMMA SerialInit == Init => SerialInv
<1> SUFFICES ASSUME Init PROVE SerialInv
  OBVIOUS
<1>1. TypeInv
  BY TypeInit
<1>2. chainRow.steps \in Chains
  BY DEF Init, Chains
<1>3. ASSUME NEW r \in Requests PROVE RowSerial(r)
  BY DEF Init, RowSerial, NoRow, KnownSteps
<1>4. ASSUME NEW h \in Handlers PROVE TaskSerial(task[h])
  BY DEF Init, TaskSerial, Idle, Deciding
<1> QED BY <1>1, <1>2, <1>3, <1>4 DEF SerialInv

\* A step of the one handler that writes neither the request nor the chain.
LEMMA SerialFrame ==
  ASSUME SerialInv, OneHandler, TypeInv', NEW h \in Handlers,
         chainRow' = chainRow, reqs' = reqs, history' = history,
         \A r \in Requests : entity'[r].status = "absent" => entity[r].status = "absent",
         TaskSerial(task[h])'
  PROVE  SerialInv'
<1>1. (chainRow.steps \in Chains)'
  BY DEF SerialInv, Chains
<1>2. ASSUME NEW r \in Requests PROVE RowSerial(r)'
  BY DEF SerialInv, RowSerial, KnownSteps, Chains
<1>3. ASSUME NEW g \in Handlers PROVE TaskSerial(task[g])'
  BY DEF OneHandler
<1> QED BY <1>1, <1>2, <1>3 DEF SerialInv

LEMMA SerialIdle ==
  ASSUME NEW h \in Handlers, task'[h] = Idle
  PROVE  TaskSerial(task[h])'
BY DEF TaskSerial, Idle, Deciding

\* The calls that start the handler, and its death.
LEMMA SerialStart ==
  ASSUME SerialInv, TypeInv', OneHandler, "escalate" \notin Ops, NEW h \in Handlers,
         \/ \E r \in Requests : CreateEntity(h, r)
         \/ \E op \in Ops, r \in Requests, u \in Users : ReadRequest(h, op, r, u)
         \/ Crash(h)
  PROVE  SerialInv'
<1>0. TypeOK /\ \A r \in Requests : RowSerial(r)
  BY DEF SerialInv, TypeInv
<1>1. ASSUME NEW r \in Requests, CreateEntity(h, r) PROVE SerialInv'
  <2>1. /\ task'[h].pc = "insert" /\ task'[h].req = r
        /\ entity'[r].status = "pending" /\ reqs'[r].status = "absent"
    BY <1>0, <1>1 DEF CreateEntity, TypeOK, RowSerial
  <2>2. TaskSerial(task[h])'
    BY <2>1 DEF TaskSerial, Deciding
  <2>3. \A q \in Requests : entity'[q].status = "absent" => entity[q].status = "absent"
    BY <1>0, <1>1 DEF CreateEntity, TypeOK
  <2> QED BY <1>1, <2>2, <2>3, SerialFrame DEF CreateEntity
<1>2. ASSUME NEW op \in Ops, NEW r \in Requests, NEW u \in Users, ReadRequest(h, op, r, u)
      PROVE  SerialInv'
  <2>1. op \in Decisions
    BY EngineAssumption DEF AllOps, Decisions
  <2>2. /\ task'[h].pc \in {"authorise", "decide"}
        /\ task'[h].pc = "decide" => op = "cancel"
        /\ task'[h].op = op /\ task'[h].req = r /\ task'[h].copy = reqs[r]
    BY <1>0, <1>2, <2>1 DEF ReadRequest, TypeOK, Decisions
  <2>3. reqs[r].status \in Active
    BY <1>2, <2>1 DEF ReadRequest, Admits, Active, Decisions
  <2>4. TaskSerial(task[h])'
    <3>1. reqs' = reqs
      BY <1>2 DEF ReadRequest
    <3> QED BY <2>1, <2>2, <2>3, <3>1 DEF TaskSerial, Deciding
  <2> QED BY <1>2, <2>4, SerialFrame DEF ReadRequest
<1>3. CASE Crash(h)
  <2>1. task'[h] = Idle
    BY <1>0, <1>3 DEF Crash, TypeOK
  <2> QED BY <1>3, <2>1, SerialIdle, SerialFrame DEF Crash
<1> QED BY <1>1, <1>2, <1>3

\* The queries that only read: eligibility, the chain, the payroll lock.
LEMMA SerialReads ==
  ASSUME SerialInv, TypeInv', OneHandler, ChainsAgree, NEW h \in Handlers,
         Authorise(h) \/ Resolve(h) \/ CheckLock(h) \/ ApplyEffect(h)
  PROVE  SerialInv'
<1> PICK t : t = task[h]
  OBVIOUS
<1>0. TypeOK /\ TaskSerial(t) /\ t.pc # "idle" /\ t \in BusyTasks
  <2>1. TypeOK /\ TaskSerial(t) /\ t.pc # "idle"
    BY DEF SerialInv, TypeInv, Authorise, Resolve, CheckLock, ApplyEffect
  <2> QED BY <2>1, BusyTask
<1>1. CASE Authorise(h)
  <2>1. CASE task'[h] = Idle
    BY <1>1, <2>1, SerialIdle, SerialFrame DEF Authorise
  <2>2. CASE task'[h] # Idle
    <3>1. t.pc = "authorise"
      BY <1>1 DEF Authorise
    <3>2. task'[h] = [t EXCEPT !.pc = IF t.op = "approve" THEN "resolve" ELSE "decide"]
      BY <1>0, <1>1, <2>2 DEF Authorise, TypeOK
    <3>3. /\ task'[h].op = t.op /\ task'[h].req = t.req /\ task'[h].copy = t.copy
          /\ task'[h].pc = IF t.op = "approve" THEN "resolve" ELSE "decide"
      BY <1>0, <3>2 DEF BusyTasks
    <3>4. reqs' = reqs
      BY <1>1 DEF Authorise
    <3>5. TaskSerial(task[h])'
      BY <1>0, <3>1, <3>3, <3>4 DEF TaskSerial, Deciding
    <3> QED BY <1>1, <3>5, SerialFrame DEF Authorise
  <2> QED BY <2>1, <2>2
<1>2. CASE Resolve(h)
  <2>1. PICK n : n = NextStep(ChainFor(t.req), t.copy.step)
    OBVIOUS
  <2>2. t.pc = "resolve" /\ t.req \in Requests /\ t.copy.step \in StepNumbers
    BY <1>0, <1>2 DEF Resolve, BusyTasks, Rows
  <2>3. t.copy.step \in KnownSteps
    <3>1. t.copy.step = reqs[t.req].step
      BY <1>0, <2>2 DEF TaskSerial, Deciding
    <3> QED BY <2>2, <3>1 DEF SerialInv, RowSerial
  <2>4. n = NoNextStep \/ (n \in KnownSteps /\ n > t.copy.step)
    BY <1>0, <2>1, <2>2, <2>3, NextStepLater DEF SerialInv
  <2>5. /\ task'[h].op = t.op /\ task'[h].req = t.req /\ task'[h].copy = t.copy
        /\ task'[h].next = n /\ task'[h].pc \in {"check_lock", "decide"}
    BY <1>0, <1>2, <2>1 DEF Resolve, TypeOK, BusyTasks
  <2>6. reqs' = reqs
    BY <1>2 DEF Resolve
  <2>7. TaskSerial(task[h])'
    BY <1>0, <2>2, <2>4, <2>5, <2>6 DEF TaskSerial, Deciding
  <2> QED BY <1>2, <2>7, SerialFrame DEF Resolve
<1>3. CASE CheckLock(h)
  <2>1. CASE task'[h] = Idle
    BY <1>3, <2>1, SerialIdle, SerialFrame DEF CheckLock
  <2>2. CASE task'[h] # Idle
    <3>1. t.pc = "check_lock"
      BY <1>3 DEF CheckLock
    <3>2. /\ task'[h].op = t.op /\ task'[h].req = t.req /\ task'[h].copy = t.copy
          /\ task'[h].next = t.next /\ task'[h].pc = "decide"
      BY <1>0, <1>3, <2>2 DEF CheckLock, TypeOK, BusyTasks
    <3>3. reqs' = reqs
      BY <1>3 DEF CheckLock
    <3>4. TaskSerial(task[h])'
      BY <1>0, <3>1, <3>2, <3>3 DEF TaskSerial, Deciding
    <3> QED BY <1>3, <3>4, SerialFrame DEF CheckLock
  <2> QED BY <2>1, <2>2
<1>4. CASE ApplyEffect(h)
  <2>1. task'[h] = Idle
    BY <1>0, <1>4 DEF ApplyEffect, TypeOK
  <2> QED BY <1>4, <2>1, SerialIdle, SerialFrame DEF ApplyEffect
<1> QED BY <1>1, <1>2, <1>3, <1>4

\* The submission, the decision and the copy of it to the entity.
LEMMA SerialSubmit ==
  ASSUME SerialInv, TypeInv', OneHandler, NEW h \in Handlers, Submit(h)
  PROVE  SerialInv'
<1> PICK t : t = task[h]
  OBVIOUS
<1>0. TypeOK /\ TaskSerial(t) /\ t.pc = "insert" /\ t.req \in Requests
  <2>1. TypeOK /\ TaskSerial(t) /\ t.pc = "insert"
    BY DEF SerialInv, TypeInv, Submit
  <2>2. t \in BusyTasks
    BY <2>1, BusyTask
  <2> QED BY <2>1, <2>2 DEF BusyTasks
<1>1. ASSUME NEW r \in Requests PROVE RowSerial(r)'
  <2>1. reqs[r] \in Rows /\ RowSerial(r)
    BY <1>0 DEF SerialInv, TypeOK
  <2>2. /\ reqs'[r].step = reqs[r].step /\ reqs'[r].log = reqs[r].log
        /\ reqs'[r].status = IF r = t.req THEN "pending" ELSE reqs[r].status
    BY <1>0, <2>1 DEF Submit, TypeOK, Rows
  <2>3. history' = history /\ entity' = entity
    BY DEF Submit
  <2> QED BY <1>0, <2>1, <2>2, <2>3 DEF RowSerial, TaskSerial, Closed, KnownSteps, Chains
<1>2. task'[h] = Idle
  BY <1>0 DEF Submit, TypeOK
<1>3. ASSUME NEW g \in Handlers PROVE TaskSerial(task[g])'
  BY <1>2, SerialIdle DEF OneHandler
<1>4. (chainRow.steps \in Chains)'
  BY DEF SerialInv, Submit, Chains
<1> QED BY <1>1, <1>3, <1>4 DEF SerialInv

LEMMA SerialDecide ==
  ASSUME SerialInv, TypeInv', OneHandler, NEW h \in Handlers, Decide(h)
  PROVE  SerialInv'
<1> PICK t : t = task[h]
  OBVIOUS
<1>0. TypeOK /\ TaskSerial(t) /\ t.pc = "decide" /\ t \in BusyTasks
  <2>1. TypeOK /\ TaskSerial(t) /\ t.pc = "decide"
    BY DEF SerialInv, TypeInv, Decide
  <2> QED BY <2>1, BusyTask
<1>1. t.req \in Requests /\ t.copy.step \in StepNumbers /\ t.op \in Decisions
  BY <1>0 DEF BusyTasks, Rows, TaskSerial
<1>2. /\ reqs[t.req].step = t.copy.step /\ reqs[t.req].log = t.copy.log
      /\ reqs[t.req].status \notin Closed \cup {"absent"}
  BY <1>0 DEF TaskSerial, Deciding, Active, Closed
<1>3. /\ reqs'[t.req] = [status |-> Outcome(t), step |-> StepWritten(t),
                         log |-> t.copy.log \cup {Entry(t)}]
      /\ history'[t.req] = history[t.req] \cup {Entry(t)}
      /\ \A r \in Requests \ {t.req} : reqs'[r] = reqs[r] /\ history'[r] = history[r]
      /\ entity' = entity
  BY <1>0, <1>1 DEF Decide, TypeOK
<1>4. Entry(t).step = t.copy.step
  BY DEF Entry
<1>5. \/ StepWritten(t) = t.copy.step
      \/ /\ t.op = "approve" /\ t.next # NoNextStep /\ StepWritten(t) = t.next
         /\ t.next \in KnownSteps /\ t.next > t.copy.step
  BY <1>0, <1>1, <1>2 DEF StepWritten, TaskSerial, Decisions
<1>6. Outcome(t) \notin Closed => StepWritten(t) > t.copy.step
  <2>1. Outcome(t) \notin Closed => t.op = "approve" /\ t.next # NoNextStep
    BY <1>1 DEF Outcome, Closed, Decisions
  <2>2. t.op = "approve" /\ t.next # NoNextStep =>
          StepWritten(t) = t.next /\ t.next > t.copy.step
    BY <1>0 DEF StepWritten, TaskSerial
  <2> QED BY <2>1, <2>2
<1>7. \A e \in history[t.req] : e.step < t.copy.step
  BY <1>1, <1>2 DEF SerialInv, RowSerial
<1>8. ASSUME NEW e \in history[t.req] PROVE e.step \in Nat
  <2>1. e \in Entries
    BY <1>0, <1>1 DEF TypeOK
  <2>2. e.step \in StepNumbers
    BY <2>1 DEF Entries
  <2> QED BY <2>2, StepNumbersAreNat
<1>9. RowSerial(t.req)'
  <2>0. t.copy.step \in Nat /\ RowSerial(t.req) /\ t.copy.step \in KnownSteps
    BY <1>1, <1>2, StepNumbersAreNat DEF SerialInv, RowSerial
  <2>1. (reqs[t.req].step \in KnownSteps)'
    BY <1>3, <1>5, <2>0 DEF KnownSteps, Chains
  <2>2. (reqs[t.req].log = history[t.req])'
    BY <1>2, <1>3, <2>0 DEF RowSerial
  <2>3. ASSUME NEW e \in history'[t.req], NEW f \in history'[t.req], e.step = f.step
        PROVE  e = f
    <3>1. e \in history[t.req] \/ e = Entry(t)
      BY <1>3
    <3>2. f \in history[t.req] \/ f = Entry(t)
      BY <1>3
    <3> QED BY <1>4, <1>7, <1>8, <2>0, <2>3, <3>1, <3>2 DEF RowSerial
  <2>4. ASSUME Outcome(t) \notin Closed, NEW e \in history'[t.req]
        PROVE  e.step < StepWritten(t)
    <3>0. StepWritten(t) \in Nat
      BY <1>5, <2>0, <2>4, <1>6, <1>0, StepNumbersAreNat DEF BusyTasks, NoNextStep
    <3>1. e.step = t.copy.step \/ (e.step \in Nat /\ e.step < t.copy.step)
      BY <1>3, <1>4, <1>7, <1>8
    <3> QED BY <1>6, <2>0, <2>4, <3>0, <3>1
  <2>5. entity'[t.req].status # "absent"
    BY <1>2, <1>3, <2>0 DEF RowSerial
  <2>6. reqs'[t.req].status = Outcome(t) /\ reqs'[t.req].step = StepWritten(t)
    BY <1>3
  <2> QED BY <2>1, <2>2, <2>3, <2>4, <2>5, <2>6 DEF RowSerial
<1>10. ASSUME NEW r \in Requests PROVE RowSerial(r)'
  <2>1. CASE r # t.req
    BY <1>3, <2>1 DEF SerialInv, RowSerial, KnownSteps, Chains
  <2> QED BY <1>9, <2>1
<1>11. TaskSerial(task[h])'
  <2>1. /\ task'[h].pc = "sync" /\ task'[h].op = t.op /\ task'[h].req = t.req
        /\ task'[h].next = t.next
    BY <1>0 DEF Decide, TypeOK, BusyTasks
  <2>2. Outcome(task'[h]) = Outcome(t)
    BY <2>1 DEF Outcome
  <2>3. reqs'[t.req].status = Outcome(t)
    BY <1>3
  <2> QED BY <1>1, <2>1, <2>2, <2>3 DEF TaskSerial, Deciding
<1>12. ASSUME NEW g \in Handlers PROVE TaskSerial(task[g])'
  BY <1>11 DEF OneHandler
<1>13. (chainRow.steps \in Chains)'
  BY DEF SerialInv, Decide, Chains
<1> QED BY <1>10, <1>12, <1>13 DEF SerialInv

LEMMA SerialSync ==
  ASSUME SerialInv, TypeInv', OneHandler, NEW h \in Handlers, SyncEntity(h)
  PROVE  SerialInv'
<1> PICK t : t = task[h]
  OBVIOUS
<1>0. TypeOK /\ TaskSerial(t) /\ t.pc = "sync" /\ t \in BusyTasks
  <2>1. TypeOK /\ TaskSerial(t) /\ t.pc = "sync"
    BY DEF SerialInv, TypeInv, SyncEntity
  <2> QED BY <2>1, BusyTask
<1>1. \A r \in Requests : entity'[r].status = "absent" => entity[r].status = "absent"
  BY <1>0 DEF SyncEntity, TypeOK, Closed
<1>2. TaskSerial(task[h])'
  <2>1. CASE task'[h] = Idle
    BY <2>1, SerialIdle
  <2>2. CASE task'[h] # Idle
    <3>1. task'[h].pc = "apply" /\ task'[h].op = t.op
      BY <1>0, <2>2 DEF SyncEntity, TypeOK, BusyTasks
    <3> QED BY <1>0, <3>1 DEF TaskSerial, Deciding
  <2> QED BY <2>1, <2>2
<1> QED BY <1>1, <1>2, SerialFrame DEF SyncEntity

\* The sweep, the payroll lock and the administrators.
LEMMA SerialSweep ==
  ASSUME SerialInv, TypeInv', ExpirySweep
  PROVE  SerialInv'
<1>0. TypeOK
  BY DEF SerialInv, TypeInv
<1>1. PICK S \in SUBSET {r \in Requests : /\ reqs[r].status \in {"pending", "under_review"}
                                          /\ r \in WithSla} :
        reqs' = [r \in Requests |->
                  IF r \in S THEN [reqs[r] EXCEPT !.status = "expired"] ELSE reqs[r]]
  BY DEF ExpirySweep
<1>2. ASSUME NEW r \in Requests
      PROVE  /\ reqs'[r].step = reqs[r].step /\ reqs'[r].log = reqs[r].log
             /\ \/ reqs'[r].status = reqs[r].status
                \/ /\ reqs[r].status \in {"pending", "under_review"} /\ WithSla # {}
                   /\ reqs'[r].status = "expired"
  <2>1. reqs[r] \in Rows
    BY <1>0 DEF TypeOK
  <2>2. CASE r \in S
    BY <1>1, <2>1, <2>2 DEF Rows
  <2>3. CASE r \notin S
    BY <1>1, <2>3
  <2> QED BY <2>2, <2>3
<1>3. UNCHANGED <<chainRow, entity, task, history>>
  BY DEF ExpirySweep
<1>4. ASSUME NEW r \in Requests PROVE RowSerial(r)'
  <2>1. RowSerial(r)
    BY DEF SerialInv
  <2> QED BY <1>2, <1>3, <2>1 DEF RowSerial, KnownSteps, Chains, Closed
<1>5. ASSUME NEW g \in Handlers PROVE TaskSerial(task[g])'
  <2> PICK t : t = task[g]
    OBVIOUS
  <2>1. task'[g] = t /\ TaskSerial(t)
    BY <1>3 DEF SerialInv
  <2>2. CASE t.pc = "idle"
    BY <2>1, <2>2 DEF TaskSerial, Deciding
  <2>3. CASE t.pc # "idle"
    <3>1. t \in BusyTasks
      BY <1>0, <2>3, BusyTask
    <3>2. t.req \in Requests
      BY <3>1 DEF BusyTasks
    <3>3. PICK old : old = reqs[t.req]
      OBVIOUS
    <3>4. PICK new : new = reqs'[t.req]
      OBVIOUS
    <3>5. /\ new.step = old.step /\ new.log = old.log
          /\ \/ new.status = old.status
             \/ /\ old.status \in {"pending", "under_review"} /\ WithSla # {}
                /\ new.status = "expired"
      BY <1>2, <3>2, <3>3, <3>4
    <3>6. entity' = entity
      BY <1>3
    <3> QED BY <2>1, <3>3, <3>4, <3>5, <3>6 DEF TaskSerial, Closed, KnownSteps, Chains
  <2> QED BY <2>2, <2>3
<1>6. (chainRow.steps \in Chains)'
  BY <1>3 DEF SerialInv, Chains
<1> QED BY <1>4, <1>5, <1>6 DEF SerialInv

LEMMA SerialEnvironment ==
  ASSUME SerialInv, TypeInv',
         EditChain \/ \E r \in Requests : LockPeriod(r) \/ UnlockPeriod(r)
  PROVE  SerialInv'
<1>1. UNCHANGED <<reqs, entity, task, history>>
  BY DEF EditChain, LockPeriod, UnlockPeriod
<1>2. chainRow'.steps \in Chains
  <2>0. chainRow \in [active : BOOLEAN, steps : AllChains] /\ chainRow.steps \in Chains
    BY DEF SerialInv, TypeInv, TypeOK, ChainTypeOK
  <2>1. ASSUME NEW c \in SavedChains, NEW isActive \in BOOLEAN, UpsertChain(c, isActive)
        PROVE  chainRow'.steps \in Chains
    BY <2>1 DEF UpsertChain, Chains
  <2>2. CASE ActivateChain \/ DeactivateChain
    BY <2>0, <2>2 DEF ActivateChain, DeactivateChain
  <2>3. CASE chainRow' = chainRow
    BY <2>0, <2>3
  <2> QED BY <2>1, <2>2, <2>3 DEF EditChain, LockPeriod, UnlockPeriod
<1>3. ASSUME NEW r \in Requests PROVE RowSerial(r)'
  BY <1>1 DEF SerialInv, RowSerial, KnownSteps, Chains
<1>4. ASSUME NEW g \in Handlers PROVE TaskSerial(task[g])'
  <2>1. TaskSerial(task[g])
    BY DEF SerialInv
  <2> QED BY <1>1, <2>1 DEF TaskSerial, KnownSteps, Chains
<1> QED BY <1>2, <1>3, <1>4 DEF SerialInv, Chains

LEMMA SerialStep ==
  ASSUME OneHandler, ChainsAgree, "escalate" \notin Ops, SerialInv, [Next]_vars
  PROVE  SerialInv'
<1>1. TypeInv'
  BY TypeStep DEF SerialInv
<1>2. ASSUME NEW h \in Handlers, HandlerStep(h) PROVE SerialInv'
  BY <1>1, <1>2, SerialReads, SerialSubmit, SerialDecide, SerialSync DEF HandlerStep
<1>3. CASE Next
  BY <1>1, <1>2, <1>3, SerialStart, SerialSweep, SerialEnvironment DEF Next
<1>4. CASE UNCHANGED vars
  <2>1. ASSUME NEW r \in Requests PROVE RowSerial(r)'
    BY <1>4 DEF vars, SerialInv, RowSerial, KnownSteps, Chains
  <2>2. ASSUME NEW g \in Handlers PROVE TaskSerial(task[g])'
    <3>1. TaskSerial(task[g])
      BY DEF SerialInv
    <3> QED BY <1>4, <3>1 DEF vars, TaskSerial, KnownSteps, Chains
  <2>3. (chainRow.steps \in Chains)'
    BY <1>4 DEF vars, SerialInv, Chains
  <2> QED BY <1>1, <2>1, <2>2, <2>3 DEF SerialInv
<1> QED BY <1>3, <1>4

LEMMA SerialHolds ==
  ASSUME OneHandler, ChainsAgree, "escalate" \notin Ops
  PROVE  Spec => []SerialInv
<1>1. Init => SerialInv
  BY SerialInit
<1>2. SerialInv /\ [Next]_vars => SerialInv'
  BY SerialStep
<1> QED BY <1>1, <1>2, PTL DEF Spec

\* One decision at a time, without escalations and with chains that agree, no
\* step of a request is decided twice, though the process may die between any
\* two queries, requests expire and administrators replace the chain.
THEOREM DecidedOnce ==
  ASSUME OneHandler, ChainsAgree, "escalate" \notin Ops
  PROVE  Spec => []NoDuplicateDecision
<1>1. SerialInv => NoDuplicateDecision
  BY DEF SerialInv, RowSerial, NoDuplicateDecision
<1> QED BY <1>1, SerialHolds, PTL

-----------------------------------------------------------------------------
(* Without the expiry sweep a resolved request is never touched again.      *)

LEMMA ResolvedKept ==
  ASSUME OneHandler, WithSla = {}, SerialInv, [Next]_vars,
         NEW r \in Requests, reqs[r].status \in Terminal
  PROVE  reqs'[r].status = reqs[r].status /\ reqs'[r].step = reqs[r].step
<1>0. TypeOK
  BY DEF SerialInv, TypeInv
<1>1. ASSUME NEW h \in Handlers, Submit(h) PROVE reqs'[r] = reqs[r]
  <2>1. task[h].req # r
    BY <1>1 DEF SerialInv, TaskSerial, Submit, Terminal
  <2> QED BY <1>0, <1>1, <2>1 DEF Submit, TypeOK
<1>2. ASSUME NEW h \in Handlers, Decide(h) PROVE reqs'[r] = reqs[r]
  <2>1. task[h].req # r
    <3>1. reqs[task[h].req].status \in Active
      BY <1>2 DEF SerialInv, TaskSerial, Decide, Deciding
    <3> QED BY <3>1 DEF Active, Terminal
  <2> QED BY <1>0, <1>2, <2>1 DEF Decide, TypeOK
<1>3. CASE ExpirySweep
  BY <1>3 DEF ExpirySweep
<1>4. CASE reqs' = reqs
  BY <1>4
<1>5. ASSUME NEW h \in Handlers, HandlerStep(h) PROVE reqs'[r] = reqs[r]
  BY <1>1, <1>2, <1>5 DEF HandlerStep, Authorise, Resolve, CheckLock, SyncEntity, ApplyEffect
<1>6. CASE Next
  BY <1>3, <1>5, <1>6 DEF Next, CreateEntity, ReadRequest, Crash, LockPeriod, UnlockPeriod, EditChain
<1> QED BY <1>4, <1>6 DEF vars

\* One decision at a time and without a deadline, no call and no crash moves a
\* resolved request: it keeps its status and the step it was resolved at.
THEOREM ResolvedStays ==
  ASSUME OneHandler, ChainsAgree, "escalate" \notin Ops, WithSla = {}
  PROVE  Spec => ResolvedIsFinal
<1>1. SerialInv /\ [Next]_vars =>
        [\A r \in Requests : reqs[r].status \in Terminal =>
           /\ reqs'[r].status = reqs[r].status
           /\ reqs'[r].step = reqs[r].step]_vars
  BY ResolvedKept
<1> QED BY <1>1, SerialHolds, PTL DEF Spec, ResolvedIsFinal

-----------------------------------------------------------------------------
(* The promise to the submitting module.                                    *)

LEMMA PromiseInit == Init => Promise!SpecInit
BY DEF Init, Promise!SpecInit, NoRow, Active

\* A step that changes neither the requests nor the entities' statuses.
LEMMA PromiseStutter ==
  ASSUME reqs' = reqs, \A r \in Requests : entity'[r].status = entity[r].status
  PROVE  UNCHANGED Promise!specVars
BY DEF Promise!specVars

\* Every step opens, signs, closes or tells, or does nothing the module sees.
LEMMA PromiseStep ==
  ASSUME OneHandler, WithSla = {}, SerialInv, TypeInv', [Next]_vars
  PROVE  [Promise!SpecNext]_(Promise!specVars)
<1> USE DEF Promise!SpecNext
<1>0. TypeOK
  BY DEF SerialInv, TypeInv
<1>1. ASSUME NEW h \in Handlers, NEW r \in Requests, CreateEntity(h, r)
      PROVE  Promise!Announce(r)
  <2>1. \A q \in Requests : entity'[q].status = IF q = r THEN "pending" ELSE entity[q].status
    BY <1>0, <1>1 DEF CreateEntity, TypeOK
  <2> QED BY <1>1, <2>1 DEF CreateEntity, Promise!Announce
<1>2. ASSUME NEW h \in Handlers, Submit(h) PROVE \E r \in Requests : Promise!Open(r)
  <2> PICK r : r = task[h].req
    OBVIOUS
  <2>1. r \in Requests
    BY <1>0, <1>2, BusyTask DEF Submit, BusyTasks
  <2>2. reqs[r].status = "absent" /\ entity[r].status = "pending"
    BY <1>2 DEF SerialInv, TaskSerial, Submit
  <2>3. \A q \in Requests : /\ reqs'[q].status = IF q = r THEN "pending" ELSE reqs[q].status
                            /\ reqs'[q].step = reqs[q].step
    BY <1>0, <1>2, <2>1 DEF Submit, TypeOK, Rows
  <2>4. Promise!Open(r)
    BY <1>2, <2>1, <2>2, <2>3 DEF Submit, Promise!Open, Active
  <2> QED BY <2>1, <2>4
<1>3. ASSUME NEW h \in Handlers, Decide(h)
      PROVE  \E r \in Requests : Promise!Sign(r) \/ Promise!Close(r)
  <2> PICK t : t = task[h]
    OBVIOUS
  <2>1. t \in BusyTasks /\ t.pc = "decide" /\ TaskSerial(t)
    BY <1>0, <1>3, BusyTask DEF Decide, SerialInv
  <2>2. /\ t.req \in Requests /\ t.op \in Decisions
        /\ reqs[t.req].status \in Active /\ reqs[t.req].step = t.copy.step
    BY <2>1 DEF BusyTasks, TaskSerial, Deciding
  <2>3. \A q \in Requests :
          /\ reqs'[q].status = IF q = t.req THEN Outcome(t) ELSE reqs[q].status
          /\ reqs'[q].step = IF q = t.req THEN StepWritten(t) ELSE reqs[q].step
    BY <1>0, <1>3, <2>2 DEF Decide, TypeOK
  <2>4. CASE Outcome(t) = "under_review"
    <3>1. t.op = "approve" /\ t.next # NoNextStep
      BY <2>2, <2>4 DEF Outcome, Decisions
    <3>2. StepWritten(t) = t.next /\ t.next > t.copy.step /\ t.next \in StepNumbers
      BY <2>1, <3>1 DEF StepWritten, TaskSerial, BusyTasks
    <3>3. Promise!Sign(t.req)
      BY <1>3, <2>2, <2>3, <2>4, <3>2 DEF Promise!Sign, Decide, Active
    <3> QED BY <2>2, <3>3
  <2>5. CASE Outcome(t) # "under_review"
    <3>1. Outcome(t) \in {"approved", "rejected", "cancelled"}
      BY <2>2, <2>5 DEF Outcome, Decisions
    <3>2. StepWritten(t) = reqs[t.req].step
      BY <2>2, <2>5 DEF StepWritten, Outcome, Decisions
    <3>3. PICK v : v = Outcome(t)
      OBVIOUS
    <3>4. v \in {"approved", "rejected", "cancelled"} /\ v \notin Active
      BY <3>1, <3>3 DEF Active
    <3>5. \A q \in Requests :
            /\ reqs'[q].status = IF q = t.req THEN v ELSE reqs[q].status
            /\ reqs'[q].step = reqs[q].step
      BY <2>3, <3>2, <3>3
    <3>6. reqs[t.req].status \in Active /\ entity' = entity
      BY <1>3, <2>2 DEF Decide
    <3>7. Promise!Close(t.req)
      <4> DEFINE outcome == [q \in Requests |-> IF reqs[q].status \in Active THEN "open"
                                               ELSE reqs[q].status]
      <4>1. outcome' = [outcome EXCEPT ![t.req] = v]
        BY <3>4, <3>5
      <4>2. outcome[t.req] = "open"
        BY <2>2, <3>6
      <4>3. \E w \in {"approved", "rejected", "cancelled"} \cup {"expired"} :
              outcome' = [outcome EXCEPT ![t.req] = w]
        <5> HIDE DEF outcome
        <5> QED BY <3>4, <4>1
      <4> QED BY <3>5, <3>6, <4>2, <4>3 DEF Promise!Close, Promise!Verdicts
    <3> QED BY <2>2, <3>7
  <2> QED BY <2>4, <2>5
<1>4. ASSUME NEW h \in Handlers, SyncEntity(h)
      PROVE  (\E r \in Requests : Promise!Tell(r)) \/ UNCHANGED Promise!specVars
  <2> PICK t : t = task[h]
    OBVIOUS
  <2>1. t \in BusyTasks /\ t.pc = "sync" /\ TaskSerial(t)
    BY <1>0, <1>4, BusyTask DEF SyncEntity, SerialInv
  <2>2. t.req \in Requests /\ reqs[t.req].status = Outcome(t)
    BY <2>1 DEF BusyTasks, TaskSerial
  <2>3. \A q \in Requests : entity'[q].status =
          IF q = t.req /\ Outcome(t) \in Closed THEN Outcome(t) ELSE entity[q].status
    BY <1>0, <1>4, <2>2 DEF SyncEntity, TypeOK
  <2>4. CASE Outcome(t) \in Closed
    <3>1. Promise!Tell(t.req)
      BY <1>4, <2>2, <2>3, <2>4 DEF Promise!Tell, Promise!Verdicts, SyncEntity, Closed, Active
    <3> QED BY <2>2, <3>1
  <2>5. CASE Outcome(t) \notin Closed
    BY <1>4, <2>3, <2>5, PromiseStutter DEF SyncEntity
  <2> QED BY <2>4, <2>5
<1>5. ASSUME NEW h \in Handlers,
             \/ Authorise(h) \/ Resolve(h) \/ CheckLock(h) \/ ApplyEffect(h) \/ Crash(h)
             \/ \E op \in Ops, r \in Requests, u \in Users : ReadRequest(h, op, r, u)
      PROVE  UNCHANGED Promise!specVars
  BY <1>5, PromiseStutter DEF Authorise, Resolve, CheckLock, ApplyEffect, Crash, ReadRequest
<1>6. CASE EditChain \/ \E r \in Requests : LockPeriod(r) \/ UnlockPeriod(r)
  BY <1>6, PromiseStutter DEF EditChain, LockPeriod, UnlockPeriod
<1>7. ~ExpirySweep
  BY DEF ExpirySweep
<1>8. CASE Next
  BY <1>1, <1>2, <1>3, <1>4, <1>5, <1>6, <1>7, <1>8 DEF Next, HandlerStep
<1>9. CASE UNCHANGED vars
  BY <1>9, PromiseStutter DEF vars
<1> QED BY <1>8, <1>9

\* Decisions taken one after another implement the abstract promise: a request
\* opens once, its steps are signed in increasing order, it is closed once, and
\* the submitting module is told that outcome and no other.
THEOREM PromiseKept ==
  ASSUME OneHandler, ChainsAgree, "escalate" \notin Ops, WithSla = {}
  PROVE  Spec => KeepsPromise
<1>1. Init => Promise!SpecInit
  BY PromiseInit
<1>2. SerialInv /\ TypeInv' /\ [Next]_vars => [Promise!SpecNext]_(Promise!specVars)
  BY PromiseStep
<1> QED BY <1>1, <1>2, SerialHolds, TypeCorrect, PTL DEF Spec, KeepsPromise, Promise!Contract

-----------------------------------------------------------------------------
(* The entity's own row mirrors the request.                                *)

Mirrored(r) ==
  entity[r].status = (IF reqs[r].status \in Active THEN "pending" ELSE reqs[r].status)

\* The two rows differ only between the two statements of a submission and those
\* of a decision, and a decision that resolves nothing finds the entity pending.
MirrorInv ==
  /\ SerialInv
  /\ \A r \in Requests :
       (\A h \in Handlers : task[h].pc \in {"insert", "sync"} => task[h].req # r) => Mirrored(r)
  /\ \A h \in Handlers : task[h].pc = "sync" /\ Outcome(task[h]) \notin Closed
       => entity[task[h].req].status = "pending"

\* A step that writes neither row, by a handler that is between no two writes.
LEMMA MirrorFrame ==
  ASSUME OneHandler, MirrorInv, SerialInv', NEW h \in Handlers, reqs' = reqs, entity' = entity,
         task[h].pc \notin {"insert", "sync"}, task'[h].pc \notin {"insert", "sync"}
  PROVE  MirrorInv'
<1>1. ASSUME NEW r \in Requests PROVE Mirrored(r)'
  BY DEF MirrorInv, Mirrored, OneHandler
<1>2. ASSUME NEW g \in Handlers PROVE task'[g].pc # "sync"
  BY DEF OneHandler
<1> QED BY <1>1, <1>2 DEF MirrorInv

LEMMA MirrorStep ==
  ASSUME OneHandler, WithSla = {}, ~CanCrash, MirrorInv, SerialInv', [Next]_vars
  PROVE  MirrorInv'
<1>0. TypeOK /\ SerialInv
  BY DEF MirrorInv, SerialInv, TypeInv
<1>1. ASSUME NEW h \in Handlers, NEW r \in Requests, CreateEntity(h, r) PROVE MirrorInv'
  <2>1. \A q \in Requests : q # r => entity'[q] = entity[q]
    BY <1>0, <1>1 DEF CreateEntity, TypeOK
  <2>2. task'[h].pc = "insert" /\ task'[h].req = r /\ task[h].pc = "idle" /\ reqs' = reqs
    BY <1>0, <1>1 DEF CreateEntity, TypeOK
  <2>3. ASSUME NEW q \in Requests,
               \A g \in Handlers : task'[g].pc \in {"insert", "sync"} => task'[g].req # q
        PROVE  Mirrored(q)'
    <3>1. q # r
      BY <2>2, <2>3
    <3>2. Mirrored(q)
      BY <2>2 DEF MirrorInv, OneHandler
    <3> QED BY <2>1, <2>2, <3>1, <3>2 DEF Mirrored
  <2>4. ASSUME NEW g \in Handlers PROVE task'[g].pc # "sync"
    BY <2>2 DEF OneHandler
  <2> QED BY <2>3, <2>4 DEF MirrorInv
<1>2. ASSUME NEW h \in Handlers, Submit(h) PROVE MirrorInv'
  <2> PICK r : r = task[h].req
    OBVIOUS
  <2>1. r \in Requests
    BY <1>0, <1>2, BusyTask DEF Submit, BusyTasks
  <2>2. entity[r].status = "pending" /\ entity' = entity
    BY <1>0, <1>2 DEF Submit, SerialInv, TaskSerial
  <2>3. reqs'[r].status = "pending" /\ \A q \in Requests : q # r => reqs'[q] = reqs[q]
    BY <1>0, <1>2, <2>1 DEF Submit, TypeOK, Rows
  <2>4. task'[h] = Idle
    BY <1>0, <1>2 DEF Submit, TypeOK
  <2>5. ASSUME NEW q \in Requests PROVE Mirrored(q)'
    <3>1. CASE q = r
      BY <2>2, <2>3, <3>1 DEF Mirrored, Active
    <3>2. CASE q # r
      <4>1. Mirrored(q)
        BY <3>2 DEF MirrorInv, OneHandler
      <4> QED BY <2>2, <2>3, <3>2, <4>1 DEF Mirrored
    <3> QED BY <3>1, <3>2
  <2>6. ASSUME NEW g \in Handlers PROVE task'[g].pc # "sync"
    BY <2>4 DEF OneHandler, Idle
  <2> QED BY <2>5, <2>6 DEF MirrorInv
<1>3. ASSUME NEW h \in Handlers, Decide(h) PROVE MirrorInv'
  <2> PICK t : t = task[h]
    OBVIOUS
  <2>1. t \in BusyTasks /\ t.pc = "decide" /\ TaskSerial(t)
    BY <1>0, <1>3, BusyTask DEF Decide, SerialInv
  <2>2. t.req \in Requests /\ reqs[t.req].status \in Active
    BY <2>1 DEF BusyTasks, TaskSerial, Deciding
  <2>3. \A q \in Requests : Mirrored(q)
    BY <2>1 DEF MirrorInv, OneHandler
  <2>4. entity' = entity /\ \A q \in Requests : q # t.req => reqs'[q] = reqs[q]
    BY <1>0, <1>3 DEF Decide, TypeOK
  <2>5. task'[h].pc = "sync" /\ task'[h].req = t.req
    BY <1>0, <1>3, <2>1 DEF Decide, TypeOK, BusyTasks
  <2>6. ASSUME NEW q \in Requests,
               \A g \in Handlers : task'[g].pc \in {"insert", "sync"} => task'[g].req # q
        PROVE  Mirrored(q)'
    BY <2>3, <2>4, <2>5, <2>6 DEF Mirrored
  <2>7. entity'[t.req].status = "pending"
    BY <2>2, <2>3, <2>4 DEF Mirrored
  <2>8. ASSUME NEW g \in Handlers PROVE entity'[task'[g].req].status = "pending"
    BY <2>5, <2>7 DEF OneHandler
  <2> QED BY <2>6, <2>8 DEF MirrorInv
<1>4. ASSUME NEW h \in Handlers, SyncEntity(h) PROVE MirrorInv'
  <2> PICK t : t = task[h]
    OBVIOUS
  <2>1. t \in BusyTasks /\ t.pc = "sync" /\ TaskSerial(t)
    BY <1>0, <1>4, BusyTask DEF SyncEntity, SerialInv
  <2>2. /\ t.req \in Requests /\ reqs[t.req].status = Outcome(t) /\ reqs' = reqs
        /\ t.op \in Decisions
    BY <1>4, <2>1 DEF BusyTasks, TaskSerial, SyncEntity
  <2>3. \A q \in Requests : entity'[q].status =
          IF q = t.req /\ Outcome(t) \in Closed THEN Outcome(t) ELSE entity[q].status
    BY <1>0, <1>4, <2>2 DEF SyncEntity, TypeOK
  <2>4. task'[h].pc \in {"idle", "apply"}
    BY <1>0, <1>4, <2>1 DEF SyncEntity, TypeOK, Idle, BusyTasks
  <2>5. ASSUME NEW q \in Requests PROVE Mirrored(q)'
    <3>1. CASE q = t.req /\ Outcome(t) \in Closed
      BY <2>2, <2>3, <3>1 DEF Mirrored, Closed, Active
    <3>2. CASE q = t.req /\ Outcome(t) \notin Closed
      <4>1. entity[q].status = "pending"
        BY <1>4, <3>2 DEF MirrorInv, SyncEntity
      <4>2. Outcome(t) = "under_review"
        BY <2>2, <3>2 DEF Outcome, Closed, Decisions
      <4> QED BY <2>2, <2>3, <3>2, <4>1, <4>2 DEF Mirrored, Active
    <3>3. CASE q # t.req
      <4>1. Mirrored(q)
        BY <3>3 DEF MirrorInv, OneHandler
      <4> QED BY <2>2, <2>3, <3>3, <4>1 DEF Mirrored
    <3> QED BY <3>1, <3>2, <3>3
  <2>6. ASSUME NEW g \in Handlers PROVE task'[g].pc # "sync"
    BY <2>4 DEF OneHandler
  <2> QED BY <2>5, <2>6 DEF MirrorInv
<1>5. ASSUME NEW h \in Handlers,
             \/ Authorise(h) \/ Resolve(h) \/ CheckLock(h) \/ ApplyEffect(h)
             \/ \E op \in Ops, r \in Requests, u \in Users : ReadRequest(h, op, r, u)
      PROVE  MirrorInv'
  <2>1. /\ reqs' = reqs /\ entity' = entity
        /\ task[h].pc \notin {"insert", "sync"}
    BY <1>5 DEF Authorise, Resolve, CheckLock, ApplyEffect, ReadRequest
  <2>2. task'[h].pc \notin {"insert", "sync"}
    <3>1. CASE \E op \in Ops, r \in Requests, u \in Users : ReadRequest(h, op, r, u)
      <4>1. PICK op \in Ops, r \in Requests, u \in Users : ReadRequest(h, op, r, u)
        BY <3>1
      <4>2. op \in AllOps
        BY EngineAssumption
      <4> QED BY <1>0, <4>1, <4>2 DEF ReadRequest, TypeOK, AllOps
    <3>2. CASE Authorise(h)
      BY <1>0, <3>2, BusyTask DEF Authorise, TypeOK, Idle, BusyTasks
    <3>3. CASE Resolve(h)
      BY <1>0, <3>3, BusyTask DEF Resolve, TypeOK, BusyTasks
    <3>4. CASE CheckLock(h)
      BY <1>0, <3>4, BusyTask DEF CheckLock, TypeOK, Idle, BusyTasks
    <3>5. CASE ApplyEffect(h)
      BY <1>0, <3>5 DEF ApplyEffect, TypeOK, Idle
    <3> QED BY <1>5, <3>1, <3>2, <3>3, <3>4, <3>5
  <2> QED BY <2>1, <2>2, MirrorFrame
<1>6. CASE UNCHANGED <<reqs, entity, task>>
  BY <1>6 DEF MirrorInv, Mirrored, Outcome
<1>7. ~ExpirySweep /\ \A h \in Handlers : ~Crash(h)
  BY DEF ExpirySweep, Crash
<1>8. CASE Next
  BY <1>1, <1>2, <1>3, <1>4, <1>5, <1>6, <1>7, <1>8
     DEF Next, HandlerStep, EditChain, LockPeriod, UnlockPeriod
<1> QED BY <1>6, <1>8 DEF vars

\* When decisions are taken one after another, none of the two writes of each is
\* lost and nothing expires, approval_requests and the entity's own row agree as
\* soon as no handler is at work on the request.
THEOREM EntityFollowsRequest ==
  ASSUME OneHandler, ChainsAgree, "escalate" \notin Ops, WithSla = {}, ~CanCrash
  PROVE  Spec => []EntityMirrorsRequest
<1>1. Init => MirrorInv
  BY SerialInit DEF Init, MirrorInv, Mirrored, NoRow, Active, Idle
<1>2. MirrorInv /\ SerialInv' /\ [Next]_vars => MirrorInv'
  BY MirrorStep
<1>3. MirrorInv => EntityMirrorsRequest
  BY DEF MirrorInv, Mirrored, EntityMirrorsRequest, Quiet
<1> QED BY <1>1, <1>2, <1>3, SerialHolds, PTL DEF Spec

-----------------------------------------------------------------------------
(* The side effect of an approval, whatever the number of handlers.         *)

EffectKinds == {"employee_branch_transfers", "payroll_runs",
                "shift_override_requests", "attendance_corrections"}

\* An approval that reached the entity has had its effect or is about to.
EffectDue(r) ==
  entity[r].status = "approved" /\ Kind[r] \in EffectKinds =>
    r \in effect \/ \E h \in Handlers : task[h].pc = "apply" /\ task[h].req = r

EffectInv ==
  /\ \A h \in Handlers : task[h].pc \notin {"idle", "insert"} => task[h].op \in Decisions
  /\ \A r \in Requests : EffectDue(r)

\* A step that approves no entity and takes no handler away from its effect.
LEMMA EffectFrame ==
  ASSUME EffectInv, effect \subseteq effect',
         \A r \in Requests : entity'[r].status = "approved" => entity[r].status = "approved",
         \A g \in Handlers : task[g].pc = "apply" => task'[g] = task[g]
                                                      \/ task[g].req \in effect',
         \A g \in Handlers : task'[g].pc \notin {"idle", "insert"} => task'[g].op \in Decisions
  PROVE  EffectInv'
<1>1. ASSUME NEW r \in Requests PROVE EffectDue(r)'
  <2>1. EffectDue(r)
    BY DEF EffectInv
  <2> QED BY <2>1 DEF EffectDue, EffectKinds
<1> QED BY <1>1 DEF EffectInv

LEMMA EffectStep ==
  ASSUME ~CanCrash, "escalate" \notin Ops, TypeInv, EffectInv, [Next]_vars
  PROVE  EffectInv'
<1>0. TypeOK /\ task \in [Handlers -> IdleTasks \cup BusyTasks]
  BY DEF TypeInv, TypeOK
<1>1. ASSUME NEW h \in Handlers, NEW new, task' = [task EXCEPT ![h] = new],
             new.pc \notin {"idle", "insert"} => new.op \in Decisions
      PROVE  \A g \in Handlers : task'[g].pc \notin {"idle", "insert"} => task'[g].op \in Decisions
  BY <1>0, <1>1 DEF EffectInv
<1>2. ASSUME NEW h \in Handlers, NEW r \in Requests, CreateEntity(h, r) PROVE EffectInv'
  <2>1. \A q \in Requests : entity'[q].status = "approved" => entity[q].status = "approved"
    BY <1>0, <1>2 DEF CreateEntity, TypeOK
  <2>2. \A g \in Handlers : task'[g].pc \notin {"idle", "insert"} => task'[g].op \in Decisions
    BY <1>1, <1>2 DEF CreateEntity
  <2>3. \A g \in Handlers : task[g].pc = "apply" => task'[g] = task[g]
    BY <1>0, <1>2 DEF CreateEntity
  <2> QED BY <1>2, <2>1, <2>2, <2>3, EffectFrame DEF CreateEntity
<1>3. ASSUME NEW h \in Handlers, NEW op \in Ops, NEW r \in Requests, NEW u \in Users,
             ReadRequest(h, op, r, u)
      PROVE  EffectInv'
  <2>1. op \in Decisions
    BY EngineAssumption DEF AllOps, Decisions
  <2>2. \A g \in Handlers : task'[g].pc \notin {"idle", "insert"} => task'[g].op \in Decisions
    BY <1>1, <1>3, <2>1 DEF ReadRequest
  <2>3. \A g \in Handlers : task[g].pc = "apply" => task'[g] = task[g]
    BY <1>0, <1>3 DEF ReadRequest
  <2> QED BY <1>3, <2>2, <2>3, EffectFrame DEF ReadRequest
<1>4. ASSUME NEW h \in Handlers,
             Submit(h) \/ Authorise(h) \/ Resolve(h) \/ CheckLock(h) \/ Decide(h)
      PROVE  EffectInv'
  <2>1. task[h].pc \notin {"idle", "apply"} /\ task[h] \in BusyTasks
    <3>1. task[h].pc \notin {"idle", "apply"}
      BY <1>4 DEF Submit, Authorise, Resolve, CheckLock, Decide
    <3> QED BY <1>0, <3>1, BusyTask
  <2>2. \A g \in Handlers : task[g].pc = "apply" => task'[g] = task[g]
    BY <1>0, <1>4, <2>1 DEF Submit, Authorise, Resolve, CheckLock, Decide
  <2>3. task'[h] = Idle \/ (task'[h].op = task[h].op /\ task[h].pc # "insert")
    <3>1. CASE Submit(h)
      BY <1>0, <3>1 DEF Submit
    <3>2. CASE Authorise(h)
      BY <1>0, <2>1, <3>2 DEF Authorise, BusyTasks
    <3>3. CASE Resolve(h)
      BY <1>0, <2>1, <3>3 DEF Resolve, BusyTasks
    <3>4. CASE CheckLock(h)
      BY <1>0, <2>1, <3>4 DEF CheckLock, BusyTasks
    <3>5. CASE Decide(h)
      BY <1>0, <2>1, <3>5 DEF Decide, BusyTasks
    <3> QED BY <1>4, <3>1, <3>2, <3>3, <3>4, <3>5
  <2>4. \A g \in Handlers : task'[g].pc \notin {"idle", "insert"} => task'[g].op \in Decisions
    <3> SUFFICES ASSUME NEW g \in Handlers, task'[g].pc \notin {"idle", "insert"}
                 PROVE  task'[g].op \in Decisions
      OBVIOUS
    <3>1. CASE g = h
      BY <2>1, <2>3, <3>1 DEF EffectInv, Idle
    <3>2. CASE g # h
      <4>1. task'[g] = task[g]
        BY <1>0, <1>4, <3>2 DEF Submit, Authorise, Resolve, CheckLock, Decide
      <4> QED BY <4>1 DEF EffectInv
    <3> QED BY <3>1, <3>2
  <2>5. effect' = effect /\ entity' = entity
    BY <1>4 DEF Submit, Authorise, Resolve, CheckLock, Decide
  <2> QED BY <2>2, <2>4, <2>5, EffectFrame
<1>5. ASSUME NEW h \in Handlers, SyncEntity(h) PROVE EffectInv'
  <2> PICK t : t = task[h]
    OBVIOUS
  <2>1. t.pc = "sync" /\ t \in BusyTasks /\ t.op \in Decisions /\ t.req \in Requests
    <3>1. t.pc = "sync" /\ t \in BusyTasks
      BY <1>0, <1>5, BusyTask DEF SyncEntity
    <3> QED BY <3>1 DEF EffectInv, BusyTasks
  <2>2. \A q \in Requests : entity'[q].status =
          IF q = t.req /\ Outcome(t) \in Closed THEN Outcome(t) ELSE entity[q].status
    BY <1>0, <1>5, <2>1 DEF SyncEntity, TypeOK
  <2>3. task'[h] = IF HasEffect(t) THEN [t EXCEPT !.pc = "apply"] ELSE Idle
    BY <1>0, <1>5 DEF SyncEntity
  <2>4. \A g \in Handlers : g # h => task'[g] = task[g]
    BY <1>0, <1>5 DEF SyncEntity
  <2>5. \A g \in Handlers : task'[g].pc \notin {"idle", "insert"} => task'[g].op \in Decisions
    <3>1. task'[h].pc \notin {"idle", "insert"} => task'[h].op \in Decisions
      BY <2>1, <2>3 DEF Idle, BusyTasks
    <3> QED BY <2>4, <3>1 DEF EffectInv
  <2>6. ASSUME NEW r \in Requests, entity'[r].status = "approved", Kind[r] \in EffectKinds
        PROVE  r \in effect \/ \E g \in Handlers : task'[g].pc = "apply" /\ task'[g].req = r
    <3>1. CASE r = t.req /\ Outcome(t) = "approved"
      <4>1. t.op = "approve"
        BY <2>1, <3>1 DEF Outcome, Decisions
      <4>2. HasEffect(t)
        BY <2>6, <3>1, <4>1 DEF HasEffect, EffectKinds
      <4>3. task'[h].pc = "apply" /\ task'[h].req = r
        BY <2>1, <2>3, <3>1, <4>2 DEF BusyTasks
      <4> QED BY <4>3
    <3>2. CASE ~(r = t.req /\ Outcome(t) = "approved")
      <4>1. entity[r].status = "approved"
        BY <2>2, <2>6, <3>2
      <4>2. r \in effect \/ \E g \in Handlers : task[g].pc = "apply" /\ task[g].req = r
        BY <2>6, <4>1 DEF EffectInv, EffectDue
      <4> QED BY <2>1, <2>4, <4>2
    <3> QED BY <3>1, <3>2
  <2>7. effect' = effect
    BY <1>5 DEF SyncEntity
  <2> QED BY <2>5, <2>6, <2>7 DEF EffectInv, EffectDue, EffectKinds
<1>6. ASSUME NEW h \in Handlers, ApplyEffect(h) PROVE EffectInv'
  <2>1. \A g \in Handlers : task'[g].pc \notin {"idle", "insert"} => task'[g].op \in Decisions
    BY <1>1, <1>6 DEF ApplyEffect, Idle
  <2>2. \A g \in Handlers : task[g].pc = "apply" => task'[g] = task[g] \/ task[g].req \in effect'
    BY <1>0, <1>6 DEF ApplyEffect
  <2>3. effect \subseteq effect' /\ entity' = entity
    BY <1>6 DEF ApplyEffect
  <2> QED BY <2>1, <2>2, <2>3, EffectFrame
<1>7. CASE UNCHANGED <<entity, effect, task>>
  BY <1>7, EffectFrame DEF EffectInv
<1>8. \A h \in Handlers : ~Crash(h)
  BY DEF Crash
<1>9. CASE Next
  BY <1>2, <1>3, <1>4, <1>5, <1>6, <1>7, <1>8, <1>9
     DEF Next, HandlerStep, ExpirySweep, EditChain, LockPeriod, UnlockPeriod
<1> QED BY <1>7, <1>9 DEF vars

\* However many handlers decide at once, whatever chain is in force and whatever
\* expires meanwhile: when no handler dies, an approved transfer, correction,
\* override or payroll run has had its effect once its handlers rest.
THEOREM ApprovalTakesEffect ==
  ASSUME ~CanCrash, "escalate" \notin Ops
  PROVE  Spec => []EffectFollowsApproval
<1>1. Init => EffectInv
  BY DEF Init, EffectInv, EffectDue, Idle
<1>2. TypeInv /\ EffectInv /\ [Next]_vars => EffectInv'
  BY EffectStep
<1>3. EffectInv => EffectFollowsApproval
  BY DEF EffectInv, EffectDue, EffectKinds, EffectFollowsApproval, Quiet
<1> QED BY <1>1, <1>2, <1>3, TypeCorrect, PTL DEF Spec
=============================================================================
