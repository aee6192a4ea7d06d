------------------------- MODULE LeaveServiceProofs -------------------------
(***************************************************************************)
(* The balance of LeaveService, for any requests, days, users and chains:  *)
(* its columns stay consistent however calls interleave; no approval is    *)
(* free when no handler dies; and with one handler at a time nothing is    *)
(* taken off that was not approved.                                        *)
(***************************************************************************)
EXTENDS LeaveService, ApprovalEngineProofs, FiniteSetTheorems

(* Sums of days.                                                            *)

\* The days of a set of requests, added up as ApprovedDays adds them.
DaysOf(S) == MapThenSumSet(LAMBDA r : Days[r], S)

\* The element that the fold takes first.
First(s) == CHOOSE x \in s : TRUE

\* A function that adds up the subsets of a set, as the fold does.
AddsUp(g, S) ==
  g = [s \in SUBSET S |-> IF s = {} THEN 0 ELSE Days[First(s)] + g[s \ {First(s)}]]

\* The fold of the community modules, its recursive function named.
LEMMA FoldOfDays == \A S : DaysOf(S) = (CHOOSE g : AddsUp(g, S))[S]
BY DEF DaysOf, MapThenSumSet, MapThenFoldSet, AddsUp, First

\* In place of induction: any set of sets of requests has a least one.
LEMMA LeastSubset ==
  ASSUME NEW B, B \subseteq SUBSET Requests, B # {}
  PROVE  \E T \in B : \A U \in B : U \subseteq T => U = T
<1> DEFINE R == StrictSubsetOrdering(Requests)
<1>1. IsWellFoundedOn(R, FiniteSubsetsOf(Requests)) 
  BY FS_StrictSubsetOrderingWellFounded
<1>2. B \subseteq FiniteSubsetsOf(Requests)
  BY FS_Subset, LeaveAssumption DEF FiniteSubsetsOf
<1>3. PICK T \in B : \A U \in B : ~(<<U, T>> \in R)
  <2> HIDE DEF R
  <2> QED BY <1>1, <1>2, WFMin
<1> QED BY <1>3 DEF StrictSubsetOrdering

\* Two functions that add up the subsets of a set agree on them.
LEMMA AddsUpOnce ==
  ASSUME NEW T \in SUBSET Requests, NEW f, NEW g, AddsUp(f, T), AddsUp(g, T),
         NEW U \in SUBSET T
  PROVE  f[U] = g[U]
<1> DEFINE B == {V \in SUBSET T : f[V] # g[V]}
<1> SUFFICES ASSUME B # {} PROVE FALSE
  OBVIOUS
<1>1. B \subseteq SUBSET Requests
  OBVIOUS
<1>2. PICK V \in B : \A W \in B : W \subseteq V => W = V
  <2> HIDE DEF B
  <2> QED BY <1>1, LeastSubset
<1>3. \A s \in SUBSET T : /\ f[s] = IF s = {} THEN 0 ELSE Days[First(s)] + f[s \ {First(s)}]
                          /\ g[s] = IF s = {} THEN 0 ELSE Days[First(s)] + g[s \ {First(s)}]
  BY DEF AddsUp
<1>4. V # {}
  BY <1>3
<1>5. First(V) \in V
  BY <1>4 DEF First
<1>6. f[V \ {First(V)}] = g[V \ {First(V)}]
  BY <1>2, <1>5
<1> QED BY <1>3, <1>6

\* So the sum over a set is what the fold takes first and the sum over the rest.
LEMMA SumUnfolds ==
  ASSUME NEW T \in SUBSET Requests
  PROVE  DaysOf(T) = IF T = {} THEN 0 ELSE Days[First(T)] + DaysOf(T \ {First(T)})
<1> DEFINE Sum(s) == IF s = {} THEN 0 ELSE Days[First(s)] + DaysOf(s \ {First(s)})
           B == {s \in SUBSET Requests : DaysOf(s) # Sum(s)}
<1> SUFFICES ASSUME B # {} PROVE FALSE
  OBVIOUS
<1>1. PICK V \in B : \A W \in B : W \subseteq V => W = V
  <2>1. B \subseteq SUBSET Requests
    OBVIOUS
  <2> HIDE DEF B
  <2> QED BY <2>1, LeastSubset
<1>2. \A U \in SUBSET V : U # V => DaysOf(U) = Sum(U)
  BY <1>1
<1>3. V \in SUBSET Requests /\ DaysOf(V) # Sum(V)
  BY <1>1
<1>4. \A s \in SUBSET V : s # {} => First(s) \in s /\ s \ {First(s)} \in SUBSET V
                                    /\ s \ {First(s)} # V
  BY DEF First
<1> DEFINE h == [s \in SUBSET V |-> Sum(s)]
<1>5. AddsUp(h, V)
  <2>1. \A s \in SUBSET V : s # {} => h[s \ {First(s)}] = DaysOf(s \ {First(s)})
    <3> SUFFICES ASSUME NEW s \in SUBSET V, s # {}
                 PROVE  h[s \ {First(s)}] = DaysOf(s \ {First(s)})
      OBVIOUS
    <3> PICK u : u = s \ {First(s)}
      OBVIOUS
    <3>1. u \in SUBSET V /\ u # V
      BY <1>4
    <3>2. h[u] = Sum(u)
      BY <3>1
    <3> HIDE DEF Sum, h
    <3> QED BY <1>2, <3>1, <3>2
  <2>2. h = [s \in SUBSET V |-> IF s = {} THEN 0 ELSE Days[First(s)] + h[s \ {First(s)}]]
    BY <2>1
  <2> HIDE DEF h
  <2> QED BY <2>2 DEF AddsUp
<1>6. AddsUp(CHOOSE g : AddsUp(g, V), V)
  <2> HIDE DEF h
  <2> QED BY <1>5
<1>7. h[V] = DaysOf(V)
  <2> HIDE DEF h
  <2>1. h[V] = (CHOOSE g : AddsUp(g, V))[V]
    BY <1>3, <1>5, <1>6, AddsUpOnce
  <2> QED BY <2>1, FoldOfDays
<1>8. h[V] = Sum(V)
  OBVIOUS
<1> QED BY <1>3, <1>7, <1>8

LEMMA SumIsNat ==
  ASSUME NEW T \in SUBSET Requests
  PROVE  DaysOf(T) \in Nat
<1> DEFINE B == {s \in SUBSET Requests : DaysOf(s) \notin Nat}
<1> SUFFICES ASSUME B # {} PROVE FALSE
  OBVIOUS
<1>1. PICK V \in B : \A W \in B : W \subseteq V => W = V
  <2>1. B \subseteq SUBSET Requests
    OBVIOUS
  <2> HIDE DEF B
  <2> QED BY <2>1, LeastSubset
<1>2. V \in SUBSET Requests /\ DaysOf(V) \notin Nat
  BY <1>1
<1>3. V # {}
  BY <1>2, SumUnfolds
<1>4. First(V) \in V
  BY <1>3 DEF First
<1>5. DaysOf(V \ {First(V)}) \in Nat
  BY <1>1, <1>4
<1>6. Days[First(V)] \in Nat
  BY <1>2, <1>4, LeaveAssumption
<1>7. DaysOf(V) = Days[First(V)] + DaysOf(V \ {First(V)})
  BY <1>2, <1>3, SumUnfolds
<1> QED BY <1>2, <1>5, <1>6, <1>7

\* Any of the requests can be taken off the sum.
LEMMA SumTakes ==
  ASSUME NEW T \in SUBSET Requests, NEW x \in T
  PROVE  DaysOf(T) = Days[x] + DaysOf(T \ {x})
<1> DEFINE B == {s \in SUBSET Requests : \E y \in s : DaysOf(s) # Days[y] + DaysOf(s \ {y})}
<1> SUFFICES ASSUME B # {} PROVE FALSE
  OBVIOUS
<1>1. PICK V \in B : \A W \in B : W \subseteq V => W = V
  <2>1. B \subseteq SUBSET Requests
    OBVIOUS
  <2> HIDE DEF B
  <2> QED BY <2>1, LeastSubset
<1>2. PICK y \in V : DaysOf(V) # Days[y] + DaysOf(V \ {y})
  BY <1>1
<1> PICK c : c = First(V)
  OBVIOUS
<1>3. V \in SUBSET Requests /\ c \in V
  BY <1>1, <1>2 DEF First
<1>4. DaysOf(V) = Days[c] + DaysOf(V \ {c})
  BY <1>3, SumUnfolds
<1>5. y # c
  BY <1>2, <1>4
<1> PICK rest : rest = V \ {c, y}
  OBVIOUS
<1>6. DaysOf(V \ {c}) = Days[y] + DaysOf(rest)
  <2>1. V \ {c} \notin B /\ y \in V \ {c} /\ V \ {c} \in SUBSET Requests
    BY <1>1, <1>3, <1>5
  <2>2. (V \ {c}) \ {y} = rest
    OBVIOUS
  <2> QED BY <2>1, <2>2
<1>7. DaysOf(V \ {y}) = Days[c] + DaysOf(rest)
  <2>1. V \ {y} \notin B /\ c \in V \ {y} /\ V \ {y} \in SUBSET Requests
    BY <1>1, <1>3, <1>5
  <2>2. (V \ {y}) \ {c} = rest
    OBVIOUS
  <2> QED BY <2>1, <2>2
<1>8. Days[c] \in Nat /\ Days[y] \in Nat /\ DaysOf(rest) \in Nat
  BY <1>3, LeaveAssumption, SumIsNat
<1> HIDE DEF B
<1> QED BY <1>2, <1>4, <1>6, <1>7, <1>8

LEMMA SumOfNone == DaysOf({}) = 0
BY SumUnfolds

LEMMA SumGrows ==
  ASSUME NEW S \in SUBSET Requests, NEW T \in SUBSET Requests, S \subseteq T
  PROVE  DaysOf(S) <= DaysOf(T)
<1> DEFINE B == {U \in SUBSET Requests : S \subseteq U /\ ~(DaysOf(S) <= DaysOf(U))}
<1> SUFFICES ASSUME B # {} PROVE FALSE
  OBVIOUS
<1>1. PICK V \in B : \A W \in B : W \subseteq V => W = V
  <2>1. B \subseteq SUBSET Requests
    OBVIOUS
  <2> HIDE DEF B
  <2> QED BY <2>1, LeastSubset
<1>2. V \in SUBSET Requests /\ S \subseteq V /\ ~(DaysOf(S) <= DaysOf(V))
  BY <1>1
<1>3. DaysOf(S) \in Nat /\ DaysOf(V) \in Nat
  BY <1>2, SumIsNat
<1>4. PICK x \in V : x \notin S
  BY <1>2, <1>3
<1>5. V \ {x} \in SUBSET Requests /\ S \subseteq V \ {x} /\ V \ {x} # V
  BY <1>2, <1>4
<1>6. DaysOf(S) <= DaysOf(V \ {x})
  BY <1>1, <1>5
<1>7. DaysOf(V) = Days[x] + DaysOf(V \ {x}) /\ Days[x] \in Nat /\ DaysOf(V \ {x}) \in Nat
  BY <1>2, <1>5, SumTakes, SumIsNat, LeaveAssumption
<1> QED BY <1>2, <1>3, <1>6, <1>7

\* A request that is new to the set adds its days, and no request adds more.
LEMMA SumAdds ==
  ASSUME NEW S \in SUBSET Requests, NEW x \in Requests
  PROVE  /\ x \notin S => DaysOf(S \cup {x}) = DaysOf(S) + Days[x]
         /\ DaysOf(S \cup {x}) <= DaysOf(S) + Days[x]
<1>1. Days[x] \in Nat /\ DaysOf(S) \in Nat
  BY LeaveAssumption, SumIsNat
<1>2. CASE x \in S
  <2>1. S \cup {x} = S
    BY <1>2
  <2> QED BY <1>1, <1>2, <2>1
<1>3. CASE x \notin S
  <2>1. (S \cup {x}) \ {x} = S
    BY <1>3
  <2>2. DaysOf(S \cup {x}) = Days[x] + DaysOf(S)
    BY <2>1, SumTakes
  <2> QED BY <1>1, <2>2
<1> QED BY <1>2, <1>3

-----------------------------------------------------------------------------
(* Calls and the engine's handlers.                                         *)

Phases   == {"synced", "covered", "validated", "approving", "deduct"}
Calls    == [phase : Phases, req : Requests, user : Users]
Balances == [present : BOOLEAN, allocated : Nat, used : Nat, available : Int]

\* The engine is at work for a domain call while that waits for it, and then on
\* the request and the decision of the call.
CallTied(c, t) ==
  /\ t.pc # "apply"
  /\ c.phase \in {"synced", "covered", "validated", "deduct"} => t.pc = "idle"
  /\ c.phase = "approving" => t.pc \in Deciding \cup {"sync"} /\ t.op = "approve" /\ t.req = c.req
  /\ c.phase = "none" /\ t.pc \notin {"idle", "insert"} => t.op \in InboxOps \cup {"reject"}

LeaveInv ==
  /\ TypeInv /\ LeaveTypeOK
  /\ \A h \in Handlers : CallTied(call[h], task[h])

\* No leave and no encashment has one of the engine's side effects.
LEMMA LeavesHaveNoEffect ==
  ASSUME NEW t \in BusyTasks
  PROVE  ~HasEffect(t)
BY LeaveAssumption DEF BusyTasks, HasEffect, Leaves, Encashments

\* A query of the engine leaves the entities alone but for the last one.
LEMMA EngineMoves ==
  ASSUME LeaveInv, NEW h \in Handlers, HandlerStep(h)
  PROVE  /\ task[h] \in BusyTasks /\ task[h].req \in Requests
         /\ task[h].pc \in Deciding \cup {"insert", "sync"}
         /\ \A g \in Handlers : g # h => task'[g] = task[g]
         /\ \/ task'[h] = Idle
            \/ /\ task[h].pc \in Deciding /\ task'[h].pc \in Deciding \cup {"sync"}
               /\ task'[h].op = task[h].op /\ task'[h].req = task[h].req
         /\ task[h].pc = "sync" => task'[h] = Idle /\ reqs' = reqs
         /\ \A r \in Requests : entity'[r].status =
              IF task[h].pc = "sync" /\ r = task[h].req /\ Outcome(task[h]) \in Closed
              THEN Outcome(task[h]) ELSE entity[r].status
<1> PICK t : t = task[h]
  OBVIOUS
<1>0. TypeOK /\ CallTied(call[h], t)
  BY DEF LeaveInv, TypeInv
<1>1. t \in BusyTasks /\ t.req \in Requests /\ t.pc \in Deciding \cup {"insert", "sync"}
  <2>1. t.pc # "idle" /\ t.pc # "apply"
    BY <1>0 DEF HandlerStep, Submit, Authorise, Resolve, CheckLock, Decide, SyncEntity,
       ApplyEffect, CallTied
  <2>2. t \in BusyTasks
    BY <1>0, <2>1, BusyTask
  <2> QED BY <2>1, <2>2 DEF BusyTasks, Pcs, Deciding
<1>2. \A g \in Handlers : g # h => task'[g] = task[g]
  BY <1>0 DEF HandlerStep, Submit, Authorise, Resolve, CheckLock, Decide, SyncEntity,
     ApplyEffect, TypeOK
<1>3. CASE SyncEntity(h)
  <2>1. t.pc = "sync" /\ task'[h] = Idle /\ reqs' = reqs
    BY <1>0, <1>1, <1>3, LeavesHaveNoEffect DEF SyncEntity, TypeOK
  <2>2. \A r \in Requests : entity'[r].status =
          IF r = t.req /\ Outcome(t) \in Closed THEN Outcome(t) ELSE entity[r].status
    BY <1>0, <1>1, <1>3 DEF SyncEntity, TypeOK
  <2> QED BY <1>1, <1>2, <2>1, <2>2
<1>4. CASE Submit(h) \/ Authorise(h) \/ Resolve(h) \/ CheckLock(h) \/ Decide(h)
  <2>1. entity' = entity /\ t.pc # "sync"
    BY <1>4 DEF Submit, Authorise, Resolve, CheckLock, Decide
  <2>2. \/ task'[h] = Idle
        \/ /\ t.pc \in Deciding /\ task'[h].pc \in Deciding \cup {"sync"}
           /\ task'[h].op = t.op /\ task'[h].req = t.req
    <3>1. CASE Submit(h)
      BY <1>0, <3>1 DEF Submit, TypeOK
    <3>2. CASE Authorise(h)
      BY <1>0, <1>1, <3>2 DEF Authorise, TypeOK, BusyTasks, Deciding
    <3>3. CASE Resolve(h)
      BY <1>0, <1>1, <3>3 DEF Resolve, TypeOK, BusyTasks, Deciding
    <3>4. CASE CheckLock(h)
      BY <1>0, <1>1, <3>4 DEF CheckLock, TypeOK, BusyTasks, Deciding
    <3>5. CASE Decide(h)
      BY <1>0, <1>1, <3>5 DEF Decide, TypeOK, BusyTasks, Deciding
    <3> QED BY <1>4, <3>1, <3>2, <3>3, <3>4, <3>5
  <2> QED BY <1>1, <1>2, <2>1, <2>2
<1>5. ~ApplyEffect(h)
  BY <1>1 DEF ApplyEffect, Deciding
<1> QED BY <1>3, <1>4, <1>5 DEF HandlerStep

LEMMA LeaveStarts == LeaveInit => LeaveInv
<1> SUFFICES ASSUME LeaveInit PROVE LeaveInv
  OBVIOUS
<1>1. TypeInv
  BY TypeInit DEF LeaveInit
<1>2. LeaveTypeOK
  BY <1>1, LeaveAssumption DEF LeaveInit, LeaveTypeOK, TypeInv
<1>3. ASSUME NEW h \in Handlers PROVE CallTied(call[h], task[h])
  BY DEF LeaveInit, Init, CallTied, NoCall, Idle
<1> QED BY <1>1, <1>2, <1>3 DEF LeaveInv

\* A handler moves; the others keep their calls and tasks.
LEMMA TiedKept ==
  ASSUME LeaveInv, NEW h \in Handlers, CallTied(call[h], task[h])',
         \A g \in Handlers : g # h => call'[g] = call[g] /\ task'[g] = task[g]
  PROVE  \A g \in Handlers : CallTied(call[g], task[g])'
<1> SUFFICES ASSUME NEW g \in Handlers PROVE CallTied(call[g], task[g])'
  OBVIOUS
<1>1. CallTied(call[g], task[g])
  BY DEF LeaveInv
<1> QED BY <1>1 DEF CallTied

\* The type of a call whose handler goes on or is done.
LEMMA CallSet ==
  ASSUME LeaveInv, NEW h \in Handlers, NEW c \in {NoCall} \cup Calls,
         call' = [call EXCEPT ![h] = c]
  PROVE  /\ call' \in [Handlers -> {NoCall} \cup Calls]
         /\ call'[h] = c /\ \A g \in Handlers : g # h => call'[g] = call[g]
BY DEF LeaveInv, LeaveTypeOK, Calls, Phases

LEMMA LeaveTypes ==
  ASSUME LeaveInv, TypeInv', call' \in [Handlers -> {NoCall} \cup Calls],
         balance' \in Balances, policy' \in Nat,
         \A g \in Handlers : CallTied(call[g], task[g])'
  PROVE  LeaveInv'
BY DEF LeaveInv, LeaveTypeOK, TypeInv, Calls, Phases, Balances

LEMMA SyncedType ==
  ASSUME LeaveInv
  PROVE  /\ Synced \in Balances /\ Synced.present
         /\ Synced.allocated = policy /\ Synced.used = balance.used
         /\ Synced.available = policy - balance.used
<1>1. policy \in Nat /\ balance \in Balances
  BY DEF LeaveInv, LeaveTypeOK, Balances
<1>2. PICK left : left = policy - balance.used
  OBVIOUS
<1>3. left \in Int
  BY <1>1, <1>2 DEF Balances
<1>4. Synced = [balance EXCEPT !.present = TRUE, !.allocated = policy, !.available = left]
  BY <1>2 DEF Synced
<1> QED BY <1>1, <1>2, <1>3, <1>4 DEF Balances

\* A record of a call in another phase.
LEMMA CallPhase ==
  ASSUME NEW c \in Calls, NEW p \in Phases
  PROVE  /\ [c EXCEPT !.phase = p] \in Calls
         /\ [c EXCEPT !.phase = p].phase = p /\ [c EXCEPT !.phase = p].req = c.req
BY DEF Calls

LEMMA CallOf ==
  ASSUME LeaveInv, NEW h \in Handlers, call[h].phase # "none"
  PROVE  call[h] \in Calls /\ call[h].req \in Requests /\ call[h].phase \in Phases
BY DEF LeaveInv, LeaveTypeOK, NoCall, Calls, Phases

\* The balance checks and the calls that begin: the engine is not involved.
LEMMA LeaveBegins ==
  ASSUME LeaveInv, NEW h \in Handlers,
         \/ \E r \in Requests : BeginCreate(h, r)
         \/ \E r \in Requests, u \in Users : BeginApprove(h, r, u)
  PROVE  LeaveInv'
<1>1. /\ UNCHANGED vars /\ UNCHANGED policy /\ Free(h)
      /\ \E r \in Requests, u \in Users, p \in {"synced", "validated"} : Enter(h, p, r, u)
  BY EngineAssumption DEF BeginCreate, BeginApprove
<1>2. PICK c \in Calls : call' = [call EXCEPT ![h] = c] /\ c.phase \in {"synced", "validated"}
  <2>1. PICK r \in Requests, u \in Users, p \in {"synced", "validated"} : Enter(h, p, r, u)
    BY <1>1
  <2>2. [phase |-> p, req |-> r, user |-> u] \in Calls
    BY DEF Calls, Phases
  <2> QED BY <2>1, <2>2 DEF Enter
<1>3. TypeInv'
  BY <1>1, TypeStep DEF LeaveInv
<1>4. balance' \in Balances /\ policy' \in Nat
  BY <1>1, SyncedType DEF BeginCreate, BeginApprove, LeaveInv, LeaveTypeOK, Balances
<1>5. CallTied(call[h], task[h])'
  <2>1. task'[h] = task[h] /\ task[h].pc = "idle" /\ call'[h] = c
    BY <1>1, <1>2, CallSet DEF vars, Free
  <2> QED BY <1>2, <2>1 DEF CallTied
<1> QED BY <1>1, <1>2, <1>3, <1>4, <1>5, CallSet, TiedKept, LeaveTypes DEF vars

\* The INSERT of a request, and of one that needs no approval.
LEMMA AutoApproveTypes ==
  ASSUME TypeInv, NEW r \in Requests, entity' = [entity EXCEPT ![r].status = "approved"],
         UNCHANGED <<chainRow, reqs, effect, locked, task, history>>
  PROVE  TypeInv'
<1>1. entity[r] \in [status : {"absent", "pending"} \cup Closed, step : StepNumbers]
  BY DEF TypeInv, TypeOK
<1>2. [entity[r] EXCEPT !.status = "approved"] \in
        [status : {"absent", "pending"} \cup Closed, step : StepNumbers]
  BY <1>1 DEF Closed
<1>3. entity' \in [Requests -> [status : {"absent", "pending"} \cup Closed, step : StepNumbers]]
  BY <1>2 DEF TypeInv, TypeOK
<1> QED BY <1>3 DEF TypeInv, TypeOK, ChainTypeOK, TaskOps

\* The balance check: the call goes on or is refused.
LEMMA LeaveChecks ==
  ASSUME LeaveInv, NEW h \in Handlers, ValidateCreate(h)
  PROVE  LeaveInv' /\ UNCHANGED <<vars, balance, policy>> /\ call[h].phase = "synced"
         /\ \E d \in {NoCall} \cup Calls :
              /\ call' = [call EXCEPT ![h] = d]
              /\ \/ d = NoCall
                 \/ d.phase = "covered" /\ Covers(call[h].req)
<1> PICK c : c = call[h]
  OBVIOUS
<1>1. /\ c \in Calls /\ c.phase = "synced" /\ task[h].pc = "idle"
      /\ UNCHANGED <<vars, balance, policy>>
  BY CallOf DEF ValidateCreate, LeaveInv, CallTied
<1>2. PICK d : d = IF Covers(c.req) THEN [c EXCEPT !.phase = "covered"] ELSE NoCall
  OBVIOUS
<1>3. d \in {NoCall} \cup Calls /\ (d = NoCall \/ (d.phase = "covered" /\ Covers(c.req)))
  <2>1. CASE Covers(c.req)
    <3>1. d = [c EXCEPT !.phase = "covered"]
      BY <1>2, <2>1
    <3> QED BY <1>1, <2>1, <3>1 DEF Calls, Phases
  <2>2. CASE ~Covers(c.req)
    BY <1>2, <2>2
  <2> QED BY <2>1, <2>2
<1>4. call' = [call EXCEPT ![h] = d]
  BY <1>2 DEF ValidateCreate
<1>5. TypeInv'
  BY <1>1, TypeStep DEF LeaveInv
<1>6. CallTied(call[h], task[h])'
  <2>1. call'[h] = d /\ task'[h] = task[h]
    BY <1>1, <1>3, <1>4, CallSet DEF vars
  <2> QED BY <1>1, <1>3, <2>1 DEF CallTied, NoCall
<1>7. balance' \in Balances /\ policy' \in Nat
  BY <1>1 DEF LeaveInv, LeaveTypeOK, Balances
<1>8. LeaveInv'
  BY <1>1, <1>3, <1>4, <1>5, <1>6, <1>7, CallSet, TiedKept, LeaveTypes DEF vars
<1> QED BY <1>1, <1>3, <1>4, <1>8

LEMMA LeaveInserts ==
  ASSUME LeaveInv, NEW h \in Handlers, InsertRequest(h)
  PROVE  LeaveInv'
<1> PICK c : c = call[h]
  OBVIOUS
<1>1. /\ c \in Calls /\ c.req \in Requests /\ c.phase = "covered" /\ task[h].pc = "idle"
      /\ UNCHANGED <<balance, policy>>
  BY CallOf DEF InsertRequest
<1>2. CASE /\ entity' = [entity EXCEPT ![c.req].status = "approved"]
           /\ call' = [call EXCEPT ![h].phase = "deduct"]
           /\ UNCHANGED <<chainRow, reqs, effect, locked, task, history>>
  <2>1. TypeInv'
    BY <1>1, <1>2, AutoApproveTypes DEF LeaveInv
  <2>2. PICK d : d = [c EXCEPT !.phase = "deduct"]
    OBVIOUS
  <2>3. d \in Calls /\ d.phase = "deduct" /\ call' = [call EXCEPT ![h] = d]
    BY <1>1, <1>2, <2>2, CallPhase DEF Phases
  <2>4. CallTied(call[h], task[h])'
    <3>1. call'[h] = d /\ task'[h] = task[h]
      BY <1>2, <2>3, CallSet
    <3> QED BY <1>1, <2>3, <3>1 DEF CallTied
  <2>5. balance' \in Balances /\ policy' \in Nat
    BY <1>1 DEF LeaveInv, LeaveTypeOK, Balances
  <2> QED BY <1>2, <2>1, <2>3, <2>4, <2>5, CallSet, TiedKept, LeaveTypes
<1>3. CASE CreateEntity(h, c.req) /\ call' = [call EXCEPT ![h] = NoCall]
  <2>1. TypeInv'
    BY <1>1, <1>3, TypeHandlerStart DEF LeaveInv
  <2>2. task'[h].pc = "insert" /\ \A g \in Handlers : g # h => task'[g] = task[g]
    BY <1>3 DEF CreateEntity, LeaveInv, TypeInv, TypeOK
  <2>3. CallTied(call[h], task[h])'
    <3>1. call'[h] = NoCall
      BY <1>3, CallSet
    <3> QED BY <2>2, <3>1 DEF CallTied, NoCall
  <2>4. balance' \in Balances /\ policy' \in Nat
    BY <1>1 DEF LeaveInv, LeaveTypeOK, Balances
  <2> QED BY <1>3, <2>1, <2>2, <2>3, <2>4, CallSet, TiedKept, LeaveTypes
<1> QED BY <1>2, <1>3 DEF InsertRequest

\* A handler that the engine takes up: by a call of LeaveService or from the inbox.
LEMMA Asked ==
  ASSUME LeaveInv, NEW h \in Handlers, NEW op \in AllOps, NEW r \in Requests, NEW u \in Users,
         ReadRequest(h, op, r, u)
  PROVE  /\ task[h].pc = "idle"
         /\ task'[h].pc \in Deciding /\ task'[h].op = op /\ task'[h].req = r
         /\ \A g \in Handlers : g # h => task'[g] = task[g]
BY DEF ReadRequest, LeaveInv, TypeInv, TypeOK, AllOps, Deciding

LEMMA LeaveAsks ==
  ASSUME LeaveInv, NEW h \in Handlers,
         \/ CallEngine(h)
         \/ \E op \in InboxOps \cup {"reject"}, r \in Requests, u \in Users :
              EngineDecision(h, op, r, u)
  PROVE  LeaveInv'
<1>0. balance' \in Balances /\ policy' \in Nat
  BY DEF CallEngine, EngineDecision, leaveVars, LeaveInv, LeaveTypeOK, Balances
<1>1. ASSUME NEW op \in InboxOps \cup {"reject"}, NEW r \in Requests, NEW u \in Users,
             EngineDecision(h, op, r, u)
      PROVE  LeaveInv'
  <2>1. op \in AllOps
    BY LeaveAssumption DEF AllOps
  <2>2. TypeInv'
    BY <1>1, <2>1, TypeHandlerStart DEF LeaveInv, EngineDecision
  <2>3. call' = call /\ call[h] = NoCall
    BY <1>1 DEF EngineDecision, leaveVars, Free
  <2>4. CallTied(call[h], task[h])'
    <3>1. task'[h].pc \in Deciding /\ task'[h].op = op
      BY <1>1, <2>1, Asked DEF EngineDecision
    <3> QED BY <2>3, <3>1 DEF CallTied, NoCall, Deciding
  <2>5. \A g \in Handlers : g # h => call'[g] = call[g] /\ task'[g] = task[g]
    BY <1>1, <2>1, <2>3, Asked DEF EngineDecision
  <2>6. call' \in [Handlers -> {NoCall} \cup Calls]
    BY <2>3 DEF LeaveInv, LeaveTypeOK, Calls, Phases
  <2> QED BY <1>0, <2>2, <2>4, <2>5, <2>6, TiedKept, LeaveTypes
<1>2. CASE CallEngine(h)
  <2> PICK c : c = call[h]
    OBVIOUS
  <2>1. c \in Calls /\ c.req \in Requests /\ c.user \in Users /\ c.phase = "validated"
    BY <1>2, CallOf DEF CallEngine, Calls
  <2>2. CASE ReadRequest(h, "approve", c.req, c.user) /\ Enter(h, "approving", c.req, c.user)
    <3>1. "approve" \in AllOps
      BY DEF AllOps
    <3>2. TypeInv'
      BY <2>1, <2>2, <3>1, TypeHandlerStart DEF LeaveInv
    <3>3. PICK d \in Calls : /\ call' = [call EXCEPT ![h] = d]
                             /\ d.phase = "approving" /\ d.req = c.req
      <4>1. [phase |-> "approving", req |-> c.req, user |-> c.user] \in Calls
        BY <2>1 DEF Calls, Phases
      <4> QED BY <2>2, <4>1 DEF Enter
    <3>4. /\ task'[h].pc \in Deciding /\ task'[h].op = "approve" /\ task'[h].req = c.req
          /\ \A g \in Handlers : g # h => task'[g] = task[g]
      BY <2>1, <2>2, <3>1, Asked
    <3>5. CallTied(call[h], task[h])'
      <4>1. call'[h] = d
        BY <3>3, CallSet
      <4> QED BY <3>3, <3>4, <4>1 DEF CallTied, Deciding
    <3> QED BY <1>0, <3>2, <3>3, <3>4, <3>5, CallSet, TiedKept, LeaveTypes
  <2>3. CASE call' = [call EXCEPT ![h] = NoCall] /\ UNCHANGED vars
    <3>1. TypeInv'
      BY <2>3, TypeStep DEF LeaveInv
    <3>2. CallTied(call[h], task[h])'
      <4>1. call'[h] = NoCall /\ task'[h] = task[h]
        BY <2>3, CallSet DEF vars
      <4>2. task[h].pc = "idle"
        BY <2>1 DEF LeaveInv, CallTied
      <4> QED BY <4>1, <4>2 DEF CallTied, NoCall
    <3> QED BY <1>0, <2>3, <3>1, <3>2, CallSet, TiedKept, LeaveTypes DEF vars
  <2> QED BY <1>2, <2>2, <2>3 DEF CallEngine
<1> QED BY <1>1, <1>2

\* A query of the engine, and what the call makes of its answer.
Answered(h) ==
  \/ call' = call /\ (task'[h].pc # "idle" \/ call[h] = NoCall)
  \/ /\ task'[h].pc = "idle" /\ call[h] # NoCall
     /\ task[h].pc = "sync" /\ Outcome(task[h]) = "approved"
     /\ call' = [call EXCEPT ![h] = [call[h] EXCEPT !.phase = "deduct"]]
  \/ /\ task'[h].pc = "idle" /\ call[h] # NoCall
     /\ ~(task[h].pc = "sync" /\ Outcome(task[h]) = "approved")
     /\ call' = [call EXCEPT ![h] = NoCall]

LEMMA EngineAnswers ==
  ASSUME LeaveInv, NEW h \in Handlers, EngineStep(h)
  PROVE  Answered(h) /\ HandlerStep(h) /\ UNCHANGED <<balance, policy>>
<1>1. call = [g \in Handlers |-> call[g]]
  BY DEF LeaveInv, LeaveTypeOK
<1>2. CASE task'[h].pc # "idle" \/ call[h] = NoCall
  <2>1. call' = [call EXCEPT ![h] = call[h]]
    BY <1>2 DEF EngineStep
  <2> QED BY <1>1, <1>2, <2>1 DEF EngineStep, Answered
<1>3. CASE ~(task'[h].pc # "idle" \/ call[h] = NoCall)
  BY <1>3 DEF EngineStep, Answered
<1> QED BY <1>2, <1>3

LEMMA LeaveQueries ==
  ASSUME LeaveInv, NEW h \in Handlers, EngineStep(h)
  PROVE  LeaveInv'
<1> PICK c : c = call[h]
  OBVIOUS
<1>0. /\ HandlerStep(h) /\ Answered(h)
      /\ balance' \in Balances /\ policy' \in Nat
  BY EngineAnswers DEF LeaveInv, LeaveTypeOK, Balances
<1>1. TypeInv'
  BY <1>0, TypeHandlerStep DEF LeaveInv
<1>2. CallTied(c, task[h]) /\ (c = NoCall \/ c \in Calls)
  BY DEF LeaveInv, LeaveTypeOK, Calls, Phases
<1>3. /\ \A g \in Handlers : g # h => task'[g] = task[g]
      /\ \/ task'[h] = Idle
         \/ /\ task[h].pc \in Deciding /\ task'[h].pc \in Deciding \cup {"sync"}
            /\ task'[h].op = task[h].op /\ task'[h].req = task[h].req
  BY <1>0, EngineMoves
<1>4. CASE call' = call /\ (task'[h].pc # "idle" \/ call[h] = NoCall)
  <2>1. CASE task'[h] = Idle
    <3>1. c = NoCall
      BY <1>4, <2>1 DEF Idle
    <3>2. CallTied(call[h], task[h])'
      BY <1>4, <2>1, <3>1 DEF CallTied, NoCall, Idle
    <3>3. call' \in [Handlers -> {NoCall} \cup Calls]
      BY <1>4 DEF LeaveInv, LeaveTypeOK, Calls, Phases
    <3> QED BY <1>0, <1>1, <1>3, <1>4, <3>2, <3>3, TiedKept, LeaveTypes
  <2>2. CASE task'[h] # Idle
    <3>1. CallTied(call[h], task[h])'
      BY <1>2, <1>3, <1>4, <2>2 DEF CallTied, Deciding
    <3>2. call' \in [Handlers -> {NoCall} \cup Calls]
      BY <1>4 DEF LeaveInv, LeaveTypeOK, Calls, Phases
    <3> QED BY <1>0, <1>1, <1>3, <1>4, <3>1, <3>2, TiedKept, LeaveTypes
  <2> QED BY <2>1, <2>2
<1>5. ASSUME NEW d \in {NoCall} \cup Calls, call' = [call EXCEPT ![h] = d],
             task'[h].pc = "idle", d.phase \in {"none", "deduct"}
      PROVE  LeaveInv'
  <2>1. CallTied(call[h], task[h])'
    <3>1. call'[h] = d
      BY <1>5, CallSet
    <3> QED BY <1>5, <3>1 DEF CallTied
  <2> QED BY <1>0, <1>1, <1>3, <1>5, <2>1, CallSet, TiedKept, LeaveTypes
<1>6. CASE /\ task'[h].pc = "idle" /\ call[h] # NoCall
           /\ call' = [call EXCEPT ![h] = [call[h] EXCEPT !.phase = "deduct"]]
  <2>1. PICK d : d = [c EXCEPT !.phase = "deduct"]
    OBVIOUS
  <2>2. d \in Calls /\ d.phase = "deduct"
    BY <1>2, <1>6, <2>1, CallPhase DEF Phases
  <2> QED BY <1>5, <1>6, <2>1, <2>2
<1>7. CASE task'[h].pc = "idle" /\ call' = [call EXCEPT ![h] = NoCall]
  BY <1>5, <1>7 DEF NoCall
<1> QED BY <1>0, <1>4, <1>6, <1>7 DEF Answered

\* The deduction.
LEMMA Deducted ==
  ASSUME LeaveInv, NEW h \in Handlers, Deduct(h)
  PROVE  /\ call[h] \in Calls /\ call[h].req \in Requests /\ call[h].phase = "deduct"
         /\ Days[call[h].req] \in Nat /\ task[h].pc = "idle" /\ balance' \in Balances
         /\ IF balance.present
            THEN /\ balance'.present /\ balance'.allocated = balance.allocated
                 /\ balance'.used = balance.used + Days[call[h].req]
                 /\ balance'.available = balance.available - Days[call[h].req]
            ELSE balance' = balance
         /\ call' = [call EXCEPT ![h] = NoCall] /\ UNCHANGED <<vars, policy>>
<1>1. /\ call[h] \in Calls /\ call[h].req \in Requests /\ call[h].phase = "deduct"
      /\ task[h].pc = "idle"
  BY CallOf DEF Deduct, LeaveInv, CallTied
<1> PICK d : d = Days[call[h].req]
  OBVIOUS
<1>2. d \in Nat
  BY <1>1, LeaveAssumption
<1>3. balance \in Balances
  BY DEF LeaveInv, LeaveTypeOK, Balances
<1>4. CASE ~balance.present
  BY <1>1, <1>2, <1>3, <1>4 DEF Deduct
<1>5. CASE balance.present
  <2>1. PICK used, left : used = balance.used + d /\ left = balance.available - d
    OBVIOUS
  <2>2. balance' = [balance EXCEPT !.used = used, !.available = left]
    BY <1>5, <2>1 DEF Deduct
  <2>3. used \in Nat /\ left \in Int
    BY <1>2, <1>3, <2>1 DEF Balances
  <2>4. /\ balance' \in Balances /\ balance'.present = balance.present
        /\ balance'.allocated = balance.allocated
        /\ balance'.used = used /\ balance'.available = left
    BY <1>3, <2>2, <2>3 DEF Balances
  <2> QED BY <1>1, <1>2, <1>5, <2>1, <2>4 DEF Deduct
<1> QED BY <1>4, <1>5

LEMMA LeaveEnds ==
  ASSUME LeaveInv, NEW h \in Handlers, Deduct(h) \/ LeaveCrash(h)
  PROVE  LeaveInv'
<1>1. CASE Deduct(h)
  <2>1. /\ call' = [call EXCEPT ![h] = NoCall] /\ UNCHANGED <<vars, policy>>
        /\ balance' \in Balances /\ task[h].pc = "idle"
    BY <1>1, Deducted
  <2>2. TypeInv'
    BY <2>1, TypeStep DEF LeaveInv
  <2>3. CallTied(call[h], task[h])'
    <3>1. call'[h] = NoCall /\ task'[h] = task[h]
      BY <2>1, CallSet DEF vars
    <3> QED BY <2>1, <3>1 DEF CallTied, NoCall
  <2>4. policy' \in Nat
    BY <2>1 DEF LeaveInv, LeaveTypeOK
  <2> QED BY <2>1, <2>2, <2>3, <2>4, CallSet, TiedKept, LeaveTypes DEF vars
<1>2. CASE LeaveCrash(h)
  <2>1. /\ task' = [task EXCEPT ![h] = Idle] /\ call' = [call EXCEPT ![h] = NoCall]
        /\ UNCHANGED <<chainRow, reqs, entity, effect, locked, history, balance, policy>>
    BY <1>2 DEF LeaveCrash
  <2>2. TypeInv'
    <3>1. TypeOK'
      BY <2>1 DEF LeaveInv, TypeInv, TypeOK, ChainTypeOK, Idle, IdleTasks
    <3>2. TaskOps'
      BY <2>1 DEF LeaveInv, TypeInv, TypeOK, TaskOps, Idle
    <3> QED BY <3>1, <3>2 DEF TypeInv
  <2>3. task'[h] = Idle /\ \A g \in Handlers : g # h => task'[g] = task[g]
    BY <2>1 DEF LeaveInv, TypeInv, TypeOK
  <2>4. CallTied(call[h], task[h])'
    <3>1. call'[h] = NoCall
      BY <2>1, CallSet
    <3> QED BY <2>3, <3>1 DEF CallTied, NoCall, Idle
  <2>5. balance' \in Balances /\ policy' \in Nat
    BY <2>1 DEF LeaveInv, LeaveTypeOK, Balances
  <2> QED BY <2>1, <2>2, <2>3, <2>4, <2>5, CallSet, TiedKept, LeaveTypes
<1> QED BY <1>1, <1>2

\* What happens outside the calls: the list of balances, the policy, the sweep,
\* the chain and the payroll lock.
Outside ==
  \/ ListBalances
  \/ ChangePolicy
  \/ /\ ExpirySweep \/ EditChain \/ \E r \in Requests : LockPeriod(r) \/ UnlockPeriod(r)
     /\ UNCHANGED leaveVars
  \/ UNCHANGED allVars

LEMMA OutsideMoves ==
  ASSUME LeaveInv, Outside
  PROVE  /\ TypeInv' /\ UNCHANGED <<entity, task, call>>
         /\ \/ UNCHANGED <<balance, policy>>
            \/ UNCHANGED <<reqs, policy>> /\ balance' = Synced
            \/ UNCHANGED <<reqs, balance>> /\ policy' \in PolicyValues
         /\ \A r \in Requests :
              \/ reqs'[r].status = reqs[r].status
              \/ /\ reqs[r].status \in {"pending", "under_review"}
                 /\ reqs'[r].status = "expired"
<1>1. CASE ListBalances \/ ChangePolicy \/ UNCHANGED allVars
  <2>1. UNCHANGED vars /\ UNCHANGED call
    BY <1>1 DEF ListBalances, ChangePolicy, allVars, leaveVars
  <2>2. TypeInv'
    BY <2>1, TypeStep DEF LeaveInv
  <2>3. \/ UNCHANGED <<balance, policy>>
        \/ UNCHANGED policy /\ balance' = Synced
        \/ UNCHANGED balance /\ policy' \in PolicyValues
    BY <1>1 DEF ListBalances, ChangePolicy, allVars, leaveVars
  <2> QED BY <2>1, <2>2, <2>3 DEF vars
<1>2. CASE /\ ExpirySweep \/ EditChain \/ \E r \in Requests : LockPeriod(r) \/ UnlockPeriod(r)
           /\ UNCHANGED leaveVars
  <2>1. TypeInv'
    BY <1>2, TypeEnvironment DEF LeaveInv
  <2>2. UNCHANGED <<entity, task, call, balance, policy>>
    BY <1>2 DEF ExpirySweep, EditChain, LockPeriod, UnlockPeriod, leaveVars
  <2>3. ASSUME NEW r \in Requests
        PROVE  \/ reqs'[r].status = reqs[r].status
               \/ reqs[r].status \in {"pending", "under_review"} /\ reqs'[r].status = "expired"
    <3>1. CASE ExpirySweep
      <4>1. PICK S : /\ \A q \in S : reqs[q].status \in {"pending", "under_review"}
                     /\ reqs' = [q \in Requests |->
                          IF q \in S THEN [reqs[q] EXCEPT !.status = "expired"] ELSE reqs[q]]
        BY <3>1 DEF ExpirySweep
      <4>2. reqs[r] \in Rows
        BY DEF LeaveInv, TypeInv, TypeOK
      <4>3. r \in S => reqs'[r].status = "expired"
        BY <4>1, <4>2 DEF Rows
      <4> QED BY <4>1, <4>3
    <3>2. CASE UNCHANGED reqs
      BY <3>2
    <3>3. ExpirySweep \/ UNCHANGED reqs
      BY <1>2 DEF EditChain, LockPeriod, UnlockPeriod
    <3> QED BY <3>1, <3>2, <3>3
  <2> QED BY <2>1, <2>2, <2>3
<1> QED BY <1>1, <1>2 DEF Outside

LEMMA LeaveOutside ==
  ASSUME LeaveInv, Outside
  PROVE  LeaveInv'
<1>1. TypeInv' /\ UNCHANGED <<task, call>>
  BY OutsideMoves
<1>2. balance' \in Balances /\ policy' \in Nat
  BY OutsideMoves, SyncedType, LeaveAssumption DEF LeaveInv, LeaveTypeOK, Balances
<1>3. call' \in [Handlers -> {NoCall} \cup Calls]
  BY <1>1 DEF LeaveInv, LeaveTypeOK, Calls, Phases
<1>4. \A g \in Handlers : CallTied(call[g], task[g])'
  BY <1>1 DEF LeaveInv, CallTied
<1> QED BY <1>1, <1>2, <1>3, <1>4, LeaveTypes

\* The steps that the proofs below go through one by one.
LEMMA LeaveCases ==
  ASSUME [LeaveNext]_allVars
  PROVE  \/ \E h \in Handlers :
              \/ \E r \in Requests : BeginCreate(h, r)
              \/ \E r \in Requests, u \in Users : BeginApprove(h, r, u)
              \/ CallEngine(h)
              \/ \E op \in InboxOps \cup {"reject"}, r \in Requests, u \in Users :
                   EngineDecision(h, op, r, u)
              \/ ValidateCreate(h) \/ InsertRequest(h) \/ EngineStep(h)
              \/ Deduct(h) \/ LeaveCrash(h)
         \/ Outside
BY DEF LeaveNext, Progress, Outside

LEMMA LeaveStep == LeaveInv /\ [LeaveNext]_allVars => LeaveInv'
BY LeaveCases, LeaveBegins, LeaveChecks, LeaveInserts, LeaveAsks, LeaveQueries, LeaveEnds, LeaveOutside

LEMMA LeaveHolds == LeaveSpec => []LeaveInv
BY LeaveStarts, LeaveStep, PTL DEF LeaveSpec

\* LeaveService, its balance and the engine's tables keep their types, with any
\* number of handlers, requests through /leaves and through the inbox, crashes,
\* policy changes and sweeps.
THEOREM LeaveTypesHold == LeaveSpec => []LeaveTypeOK
<1>1. LeaveInv => LeaveTypeOK
  BY DEF LeaveInv
<1> QED BY <1>1, LeaveHolds, PTL

-----------------------------------------------------------------------------
(* The columns of the balance.                                              *)

LEMMA AddsUpStep == LeaveInv /\ BalanceAddsUp /\ [LeaveNext]_allVars => BalanceAddsUp'
<1> SUFFICES ASSUME LeaveInv, BalanceAddsUp, [LeaveNext]_allVars PROVE BalanceAddsUp'
  OBVIOUS
<1>1. CASE balance' = balance
  BY <1>1 DEF BalanceAddsUp
<1>2. CASE balance' = Synced
  BY <1>2, SyncedType DEF BalanceAddsUp
<1>3. ASSUME NEW h \in Handlers, Deduct(h) PROVE BalanceAddsUp'
  <2>1. balance \in Balances /\ Days[call[h].req] \in Nat
    BY <1>3, Deducted DEF LeaveInv, LeaveTypeOK, Balances
  <2>2. CASE ~balance.present
    BY <1>1, <1>3, <2>2, Deducted
  <2>3. CASE balance.present
    BY <1>3, <2>1, <2>3, Deducted DEF BalanceAddsUp, Balances
  <2> QED BY <2>2, <2>3
<1>4. CASE Outside
  BY <1>1, <1>2, <1>4, OutsideMoves
<1> QED BY <1>1, <1>2, <1>3, <1>4, LeaveCases DEF BeginCreate, BeginApprove, CallEngine,
           EngineDecision, ValidateCreate, InsertRequest, EngineStep, LeaveCrash, leaveVars

\* What is available is what is allocated less what is used, whatever deductions,
\* balance syncs, policy changes and crashes interleave: the sync derives it from
\* the used days of the row, and the deduction is one UPDATE relative to it.
THEOREM ColumnsConsistent == LeaveSpec => []BalanceAddsUp
<1>1. LeaveInit => BalanceAddsUp
  BY LeaveAssumption DEF LeaveInit, BalanceAddsUp
<1> QED BY <1>1, AddsUpStep, LeaveHolds, PTL DEF LeaveSpec

-----------------------------------------------------------------------------
(* No approval is free, when all decisions go through LeaveService.         *)

\* The approved requests that no call is about to take off the balance.
Paid == {r \in Requests : /\ entity[r].status = "approved"
                          /\ \A h \in Handlers : ~(call[h].phase = "deduct" /\ call[h].req = r)}
PaidInv == DaysOf(Paid) <= balance.used

\* Until the first sync has made the row of the balance of a paid type, nothing
\* has been requested.
BackedInv ==
  PaidType /\ ~balance.present =>
    /\ \A r \in Requests : entity[r].status = "absent" /\ reqs[r].status = "absent"
    /\ \A h \in Handlers : task[h].pc = "idle" /\ call[h].phase \in {"none", "synced"}

LEMMA BackedStep ==
  ASSUME LeaveInv, BackedInv, [LeaveNext]_allVars
  PROVE  BackedInv'
<1> SUFFICES ASSUME PaidType, ~balance'.present
             PROVE  /\ \A r \in Requests : entity'[r].status = "absent" /\ reqs'[r].status = "absent"
                    /\ \A h \in Handlers : task'[h].pc = "idle" /\ call'[h].phase \in {"none", "synced"}
  BY DEF BackedInv
<1>1. CASE ~balance.present
  <2>0. /\ \A r \in Requests : entity[r].status = "absent" /\ reqs[r].status = "absent"
        /\ \A h \in Handlers : task[h].pc = "idle" /\ call[h].phase \in {"none", "synced"}
    BY <1>1 DEF BackedInv
  <2>1. ASSUME NEW h \in Handlers, NEW r \in Requests, BeginCreate(h, r)
        PROVE  UNCHANGED vars /\ \A g \in Handlers : call'[g] = call[g] \/ call'[g].phase = "synced"
    BY <2>1 DEF BeginCreate, Enter, LeaveInv, LeaveTypeOK
  <2>2. ASSUME NEW h \in Handlers, ValidateCreate(h)
        PROVE  UNCHANGED vars /\ \A g \in Handlers : call'[g] = call[g] \/ call'[g].phase = "none"
    <3>1. ~Covers(call[h].req)
      BY <1>1 DEF Covers
    <3> QED BY <2>2, <3>1 DEF ValidateCreate, NoCall, LeaveInv, LeaveTypeOK
  <2>3. ASSUME NEW h \in Handlers PROVE ~EngineStep(h)
    BY <2>0, EngineMoves DEF EngineStep, Deciding
  <2>4. ASSUME NEW h \in Handlers, LeaveCrash(h)
        PROVE  /\ UNCHANGED <<entity, reqs>>
               /\ \A g \in Handlers : /\ task'[g] = task[g] \/ task'[g] = Idle
                                      /\ call'[g] = call[g] \/ call'[g] = NoCall
    BY <2>4 DEF LeaveCrash, LeaveInv, LeaveTypeOK, TypeInv, TypeOK
  <2>5. ASSUME Outside
        PROVE  /\ UNCHANGED <<entity, task, call>>
               /\ \A r \in Requests : reqs'[r].status = reqs[r].status
    BY <2>0, <2>5, OutsideMoves
  <2>6. ASSUME NEW h \in Handlers
        PROVE  /\ \A r \in Requests, u \in Users : ~BeginApprove(h, r, u)
               /\ ~CallEngine(h) /\ ~InsertRequest(h) /\ ~Deduct(h)
               /\ \A op \in InboxOps \cup {"reject"}, r \in Requests, u \in Users :
                    ~EngineDecision(h, op, r, u)
    BY <2>0 DEF BeginApprove, CallEngine, InsertRequest, Deduct, EngineDecision, ReadRequest
  <2>7. UNCHANGED vars => UNCHANGED <<entity, reqs, task>>
    BY DEF vars
  <2> QED BY <2>0, <2>1, <2>2, <2>3, <2>4, <2>5, <2>6, <2>7, LeaveCases DEF Idle, NoCall
<1>2. CASE balance.present
  <2>1. ASSUME NEW h \in Handlers, Deduct(h) PROVE FALSE
    BY <1>2, <2>1, Deducted
  <2>2. balance' # Synced /\ balance' # balance
    BY <1>2, SyncedType
  <2> QED BY <2>1, <2>2, OutsideMoves, LeaveCases DEF BeginCreate, BeginApprove, CallEngine,
             EngineDecision, ValidateCreate, InsertRequest, EngineStep, LeaveCrash, leaveVars
<1> QED BY <1>1, <1>2

LEMMA PaidFrame ==
  ASSUME LeaveInv, LeaveInv', PaidInv, balance'.used = balance.used,
         \A g \in Handlers : call[g].phase = "deduct" => call'[g] = call[g],
         \A r \in Requests : entity'[r].status = "approved" =>
           \/ entity[r].status = "approved"
           \/ \E g \in Handlers : call'[g].phase = "deduct" /\ call'[g].req = r
  PROVE  PaidInv'
<1> PICK S : S = Paid'
  OBVIOUS
<1>1. S \in SUBSET Requests /\ Paid \in SUBSET Requests /\ S \subseteq Paid
  BY DEF Paid
<1>2. DaysOf(S) <= DaysOf(Paid) /\ DaysOf(S) \in Nat /\ DaysOf(Paid) \in Nat
  BY <1>1, SumGrows, SumIsNat
<1>3. balance.used \in Nat
  BY DEF LeaveInv, LeaveTypeOK
<1> QED BY <1>2, <1>3 DEF PaidInv

LEMMA PaidDeduct ==
  ASSUME PaidType, LeaveInv, BackedInv, PaidInv, NEW h \in Handlers, Deduct(h)
  PROVE  PaidInv'
<1> PICK r : r = call[h].req
  OBVIOUS
<1> PICK S : S = Paid'
  OBVIOUS
<1>0. balance.present
  BY Deducted DEF BackedInv
<1>1. /\ r \in Requests /\ Days[r] \in Nat /\ balance'.used = balance.used + Days[r]
      /\ call' = [call EXCEPT ![h] = NoCall] /\ UNCHANGED entity
  BY <1>0, Deducted DEF vars
<1>2. S \subseteq Paid \cup {r}
  BY <1>1, CallSet DEF Paid
<1>3. /\ S \in SUBSET Requests /\ Paid \in SUBSET Requests
      /\ Paid \cup {r} \in SUBSET Requests
  BY <1>1 DEF Paid
<1>4. DaysOf(S) <= DaysOf(Paid \cup {r}) /\ DaysOf(Paid \cup {r}) <= DaysOf(Paid) + Days[r]
  BY <1>1, <1>2, <1>3, SumGrows, SumAdds
<1>5. /\ DaysOf(S) \in Nat /\ DaysOf(Paid \cup {r}) \in Nat /\ DaysOf(Paid) \in Nat
      /\ balance.used \in Nat
  BY <1>3, SumIsNat DEF LeaveInv, LeaveTypeOK, Balances
<1> QED BY <1>1, <1>4, <1>5 DEF PaidInv

LEMMA PaidStep ==
  ASSUME PaidType, InboxOps = {}, ~CanCrash, LeaveInv, LeaveInv', BackedInv, PaidInv,
         [LeaveNext]_allVars
  PROVE  PaidInv'
<1>0. entity \in [Requests -> [status : {"absent", "pending"} \cup Closed, step : StepNumbers]]
  BY DEF LeaveInv, TypeInv, TypeOK
<1>1. ASSUME NEW h \in Handlers,
             \/ \E r \in Requests : BeginCreate(h, r)
             \/ \E r \in Requests, u \in Users : BeginApprove(h, r, u)
             \/ CallEngine(h)
             \/ \E op \in InboxOps \cup {"reject"}, r \in Requests, u \in Users :
                  EngineDecision(h, op, r, u)
      PROVE  PaidInv'
  <2>1. UNCHANGED entity /\ call[h].phase # "deduct"
    BY <1>1 DEF BeginCreate, BeginApprove, CallEngine, EngineDecision, Free, NoCall, ReadRequest,
       vars
  <2>2. balance'.used = balance.used
    BY <1>1, SyncedType DEF BeginCreate, BeginApprove, CallEngine, EngineDecision, leaveVars
  <2>3. \A g \in Handlers : g # h => call'[g] = call[g]
    BY <1>1 DEF BeginCreate, BeginApprove, CallEngine, EngineDecision, Enter, leaveVars,
       LeaveInv, LeaveTypeOK
  <2> QED BY <2>1, <2>2, <2>3, PaidFrame
<1>2. ASSUME NEW h \in Handlers, ValidateCreate(h) \/ InsertRequest(h) PROVE PaidInv'
  <2> PICK c : c = call[h]
    OBVIOUS
  <2>1. /\ c \in Calls /\ c.req \in Requests /\ c.phase \in {"synced", "covered"}
        /\ balance' = balance
    BY <1>2, CallOf DEF ValidateCreate, InsertRequest
  <2>2. \A g \in Handlers : g # h => call'[g] = call[g]
    BY <1>2, LeaveChecks, CallSet DEF InsertRequest, LeaveInv, LeaveTypeOK
  <2>3. CASE /\ entity' = [entity EXCEPT ![c.req].status = "approved"]
             /\ call' = [call EXCEPT ![h].phase = "deduct"]
    <3>1. call'[h].phase = "deduct" /\ call'[h].req = c.req
      BY <2>1, <2>3 DEF LeaveInv, LeaveTypeOK, Calls, Phases
    <3>2. \A r \in Requests : r # c.req => entity'[r] = entity[r]
      BY <2>3
    <3> QED BY <2>1, <2>2, <3>1, <3>2, PaidFrame
  <2>4. CASE UNCHANGED vars \/ CreateEntity(h, c.req)
    <3>1. \A r \in Requests : entity'[r].status = "approved" => entity[r].status = "approved"
      BY <1>0, <2>4 DEF vars, CreateEntity
    <3> QED BY <2>1, <2>2, <3>1, PaidFrame
  <2> QED BY <1>2, <2>3, <2>4 DEF ValidateCreate, InsertRequest
<1>3. ASSUME NEW h \in Handlers, EngineStep(h) PROVE PaidInv'
  <2> PICK t, c : t = task[h] /\ c = call[h]
    OBVIOUS
  <2>1. Answered(h) /\ HandlerStep(h) /\ balance' = balance
    BY <1>3, EngineAnswers
  <2>2. CallTied(c, t) /\ (c = NoCall \/ c \in Calls) /\ (c.phase = "deduct" => t.pc = "idle")
    BY DEF LeaveInv, LeaveTypeOK, CallTied, Calls, Phases
  <2>3. \A g \in Handlers : g # h => call'[g] = call[g]
    BY <2>1 DEF Answered, LeaveInv, LeaveTypeOK
  <2>4. c.phase # "deduct"
    BY <2>1, <2>2, EngineMoves DEF Deciding
  <2>5. ASSUME t.pc = "sync", Outcome(t) = "approved"
        PROVE  call'[h].phase = "deduct" /\ call'[h].req = t.req
    <3>1. t.op # "reject"
      BY <2>5 DEF Outcome
    <3>2. c \in Calls /\ c.phase = "approving" /\ c.req = t.req
      BY <2>2, <2>5, <3>1 DEF CallTied, NoCall, Calls, Phases
    <3>3. task'[h] = Idle /\ c # NoCall
      BY <2>1, <2>5, <3>2, EngineMoves DEF NoCall
    <3>4. call' = [call EXCEPT ![h] = [c EXCEPT !.phase = "deduct"]]
      BY <2>1, <2>5, <3>3 DEF Answered, Idle
    <3>5. call'[h] = [c EXCEPT !.phase = "deduct"]
      BY <3>4 DEF LeaveInv, LeaveTypeOK
    <3> QED BY <3>2, <3>5, CallPhase
  <2>6. ASSUME NEW r \in Requests, entity'[r].status = "approved", entity[r].status # "approved"
        PROVE  call'[h].phase = "deduct" /\ call'[h].req = r
    <3>1. t.pc = "sync" /\ r = t.req /\ Outcome(t) = "approved"
      BY <2>1, <2>6, EngineMoves
    <3> QED BY <2>5, <3>1
  <2> QED BY <2>1, <2>3, <2>4, <2>6, PaidFrame
<1>4. CASE Outside
  <2>1. UNCHANGED <<entity, call>> /\ balance'.used = balance.used
    BY <1>4, OutsideMoves, SyncedType
  <2> QED BY <2>1, PaidFrame
<1>5. \A h \in Handlers : ~LeaveCrash(h)
  BY DEF LeaveCrash
<1> QED BY <1>1, <1>2, <1>3, <1>4, <1>5, PaidDeduct, LeaveCases

\* When all decisions go through LeaveService and no handler dies, every approved
\* leave and encashment of a paid type has been taken off the balance as soon as
\* the handlers rest: however many of them decide the same requests, sync, list
\* and sweep meanwhile, the handler that approves is the one that deducts.
THEOREM NoLeaveIsFree ==
  ASSUME InboxOps = {}, ~CanCrash PROVE LeaveSpec => []ApprovedIsDeducted
<1>1. LeaveInit => (PaidType => BackedInv /\ PaidInv)
  <2> SUFFICES ASSUME LeaveInit PROVE BackedInv /\ PaidInv
    OBVIOUS
  <2>1. Paid = {} /\ balance.used = 0
    BY DEF LeaveInit, Init, Paid, NoRow
  <2>2. PaidInv
    BY <2>1, SumOfNone DEF PaidInv
  <2>3. BackedInv
    BY DEF LeaveInit, Init, BackedInv, NoRow, Idle, NoCall
  <2> QED BY <2>2, <2>3
<1>2. LeaveInv /\ LeaveInv' /\ (PaidType => BackedInv /\ PaidInv) /\ [LeaveNext]_allVars =>
      (PaidType => BackedInv /\ PaidInv)'
  BY PaidStep, BackedStep
<1>3. (PaidType => BackedInv /\ PaidInv) /\ LeaveInv => ApprovedIsDeducted
  <2> SUFFICES ASSUME PaidInv, LeaveInv, Resting PROVE balance.used >= ApprovedDays
    BY DEF ApprovedIsDeducted
  <2>1. Paid = {r \in Requests : entity[r].status = "approved"}
    BY DEF Paid, Resting, Free, NoCall
  <2>2. ApprovedDays = DaysOf(Paid)
    BY <2>1 DEF ApprovedDays, DaysOf
  <2>3. DaysOf(Paid) \in Nat /\ balance.used \in Nat
    <3>1. Paid \in SUBSET Requests
      BY DEF Paid
    <3> QED BY <3>1, SumIsNat DEF LeaveInv, LeaveTypeOK
  <2> QED BY <2>2, <2>3 DEF PaidInv
<1> QED BY <1>1, <1>2, <1>3, LeaveHolds, PTL DEF LeaveSpec

-----------------------------------------------------------------------------
(* Nothing is taken off that was not approved, with one handler at a time.  *)

OneCall == \A g, h \in Handlers : g = h

\* An approved entity belongs to a request that is approved too, or that no
\* approval was asked for, and the engine is not at work on it any more.
GrantedRow(r) ==
  /\ entity[r].status = "approved" => reqs[r].status \in {"absent", "approved"}
  /\ entity[r].status = "absent" => reqs[r].status = "absent"
GrantedTask(t) ==
  /\ t.pc = "insert" => entity[t.req].status = "pending"
  /\ t.pc \in Deciding \cup {"sync"} =>
       t.op \in Decisions /\ entity[t.req].status \notin {"absent", "approved"}
  /\ t.pc = "sync" /\ Outcome(t) = "approved" => reqs[t.req].status = "approved"
GrantInv ==
  /\ \A r \in Requests : GrantedRow(r)
  /\ \A h \in Handlers : GrantedTask(task[h])

LEMMA GrantFrame ==
  ASSUME OneCall, GrantInv, NEW h \in Handlers, UNCHANGED <<reqs, entity>>, GrantedTask(task[h])'
  PROVE  GrantInv'
<1>1. ASSUME NEW r \in Requests PROVE GrantedRow(r)'
  BY DEF GrantInv, GrantedRow
<1>2. ASSUME NEW g \in Handlers PROVE GrantedTask(task[g])'
  BY DEF OneCall
<1> QED BY <1>1, <1>2 DEF GrantInv

LEMMA GrantIdle ==
  ASSUME NEW t, t.pc = "idle"
  PROVE  GrantedTask(t)'
BY DEF GrantedTask, Deciding

\* The engine takes up an open request.
LEMMA GrantAsk ==
  ASSUME OneCall, LeaveInv, GrantInv, NEW h \in Handlers, NEW op \in Decisions, NEW r \in Requests,
         NEW u \in Users, ReadRequest(h, op, r, u)
  PROVE  GrantInv'
<1>1. reqs[r].status \in Active /\ UNCHANGED <<reqs, entity>>
  BY DEF ReadRequest, Admits, Active, Decisions
<1>2. entity[r].status \notin {"absent", "approved"}
  BY <1>1 DEF GrantInv, GrantedRow, Active
<1>3. task'[h].pc \in Deciding /\ task'[h].op = op /\ task'[h].req = r
  BY Asked DEF Decisions, AllOps
<1>4. GrantedTask(task[h])'
  BY <1>1, <1>2, <1>3 DEF GrantedTask, Deciding
<1> QED BY <1>1, <1>4, GrantFrame

LEMMA GrantInsert ==
  ASSUME OneCall, LeaveInv, GrantInv, NEW h \in Handlers, InsertRequest(h)
  PROVE  GrantInv'
<1> PICK r : r = call[h].req
  OBVIOUS
<1>0. /\ r \in Requests /\ entity[r].status = "absent" /\ task[h].pc = "idle"
      /\ reqs[r].status = "absent" /\ TypeOK
  BY CallOf DEF InsertRequest, GrantInv, GrantedRow, LeaveInv, TypeInv
<1>1. CASE /\ entity' = [entity EXCEPT ![r].status = "approved"]
           /\ UNCHANGED <<reqs, task>>
  <2>1. ASSUME NEW q \in Requests PROVE GrantedRow(q)'
    <3>1. CASE q = r
      <4>1. entity'[q].status = "approved"
        BY <1>0, <1>1, <3>1 DEF TypeOK
      <4> QED BY <1>0, <1>1, <3>1, <4>1 DEF GrantedRow
    <3>2. CASE q # r
      BY <1>1, <3>2 DEF GrantInv, GrantedRow
    <3> QED BY <3>1, <3>2
  <2>2. ASSUME NEW g \in Handlers PROVE GrantedTask(task[g])'
    BY <1>0, <1>1, GrantIdle DEF OneCall
  <2> QED BY <2>1, <2>2 DEF GrantInv
<1>2. CASE CreateEntity(h, r)
  <2>1. /\ task'[h].pc = "insert" /\ task'[h].req = r /\ reqs' = reqs
        /\ \A q \in Requests : entity'[q].status = IF q = r THEN "pending" ELSE entity[q].status
    BY <1>0, <1>2 DEF CreateEntity, TypeOK
  <2>2. ASSUME NEW q \in Requests PROVE GrantedRow(q)'
    BY <2>1 DEF GrantInv, GrantedRow
  <2>3. GrantedTask(task[h])'
    BY <1>0, <2>1 DEF GrantedTask, Deciding
  <2>4. ASSUME NEW g \in Handlers PROVE GrantedTask(task[g])'
    BY <2>3 DEF OneCall
  <2> QED BY <2>2, <2>4 DEF GrantInv
<1> QED BY <1>1, <1>2 DEF InsertRequest

LEMMA GrantQuery ==
  ASSUME OneCall, LeaveInv, GrantInv, NEW h \in Handlers, HandlerStep(h)
  PROVE  GrantInv'
<1> PICK t : t = task[h]
  OBVIOUS
<1>0. /\ t \in BusyTasks /\ t.req \in Requests /\ t.pc \in Deciding \cup {"insert", "sync"}
      /\ GrantedTask(t) /\ GrantedRow(t.req) /\ TypeOK
  BY EngineMoves DEF GrantInv, LeaveInv, TypeInv
<1>1. CASE Submit(h)
  <2>1. /\ t.pc = "insert" /\ task'[h] = Idle /\ entity' = entity
        /\ \A q \in Requests : reqs'[q].status = IF q = t.req THEN "pending" ELSE reqs[q].status
    BY <1>0, <1>1 DEF Submit, TypeOK, Rows
  <2>2. ASSUME NEW q \in Requests PROVE GrantedRow(q)'
    BY <1>0, <2>1 DEF GrantInv, GrantedRow, GrantedTask
  <2>3. ASSUME NEW g \in Handlers PROVE GrantedTask(task[g])'
    BY <2>1 DEF OneCall, GrantedTask, Idle, Deciding
  <2> QED BY <2>2, <2>3 DEF GrantInv
<1>2. CASE Authorise(h) \/ Resolve(h) \/ CheckLock(h)
  <2>1. UNCHANGED <<reqs, entity>> /\ t.pc \in Deciding /\ task'[h].pc # "sync"
    <3>1. CASE Authorise(h)
      BY <1>0, <3>1 DEF Authorise, Deciding, TypeOK, BusyTasks, Idle
    <3>2. CASE Resolve(h)
      BY <1>0, <3>2 DEF Resolve, Deciding, TypeOK, BusyTasks
    <3>3. CASE CheckLock(h)
      BY <1>0, <3>3 DEF CheckLock, Deciding, TypeOK, BusyTasks, Idle
    <3> QED BY <1>2, <3>1, <3>2, <3>3
  <2>2. \/ task'[h] = Idle
        \/ /\ task'[h].pc \in Deciding \cup {"sync"}
           /\ task'[h].op = t.op /\ task'[h].req = t.req
    BY EngineMoves
  <2>3. GrantedTask(task[h])'
    BY <1>0, <2>1, <2>2 DEF GrantedTask, Idle, Deciding
  <2> QED BY <2>1, <2>3, GrantFrame
<1>3. CASE Decide(h)
  <2>1. /\ t.pc = "decide" /\ entity' = entity /\ reqs'[t.req].status = Outcome(t)
        /\ \A q \in Requests : q # t.req => reqs'[q] = reqs[q]
        /\ task'[h] = [t EXCEPT !.pc = "sync"]
    BY <1>0, <1>3 DEF Decide, TypeOK
  <2>2. /\ task'[h].pc = "sync" /\ task'[h].op = t.op /\ task'[h].req = t.req
        /\ task'[h].next = t.next
    BY <1>0, <2>1 DEF BusyTasks
  <2>3. Outcome(task'[h]) = Outcome(t)
    BY <2>2 DEF Outcome
  <2>4. ASSUME NEW q \in Requests PROVE GrantedRow(q)'
    <3>1. entity[t.req].status \notin {"absent", "approved"}
      BY <1>0, <2>1 DEF GrantedTask, Deciding
    <3> QED BY <2>1, <3>1 DEF GrantInv, GrantedRow
  <2>5. GrantedTask(task[h])'
    BY <1>0, <2>1, <2>2, <2>3 DEF GrantedTask, Deciding
  <2>6. ASSUME NEW g \in Handlers PROVE GrantedTask(task[g])'
    BY <2>5 DEF OneCall
  <2> QED BY <2>4, <2>6 DEF GrantInv
<1>4. CASE SyncEntity(h)
  <2>1. t.pc = "sync"
    BY <1>4 DEF SyncEntity
  <2>2. /\ task'[h] = Idle /\ reqs' = reqs
        /\ \A q \in Requests : entity'[q].status =
             IF q = t.req /\ Outcome(t) \in Closed THEN Outcome(t) ELSE entity[q].status
    BY <2>1, EngineMoves
  <2>3. ASSUME NEW q \in Requests PROVE GrantedRow(q)'
    BY <1>0, <2>1, <2>2 DEF GrantInv, GrantedRow, GrantedTask, Closed
  <2>4. ASSUME NEW g \in Handlers PROVE GrantedTask(task[g])'
    BY <2>2 DEF OneCall, GrantedTask, Idle, Deciding
  <2> QED BY <2>3, <2>4 DEF GrantInv
<1>5. ~ApplyEffect(h)
  BY <1>0 DEF ApplyEffect, Deciding
<1> QED BY <1>1, <1>2, <1>3, <1>4, <1>5 DEF HandlerStep

\* Nothing outside the engine approves, opens or takes up a request.
LEMMA GrantOutside ==
  ASSUME LeaveInv, GrantInv, Outside
  PROVE  GrantInv'
<1>1. UNCHANGED <<entity, task>>
  BY OutsideMoves
<1>2. ASSUME NEW r \in Requests PROVE GrantedRow(r)'
  <2>1. \/ reqs'[r].status = reqs[r].status
        \/ reqs[r].status \in {"pending", "under_review"} /\ reqs'[r].status = "expired"
    BY OutsideMoves
  <2>2. GrantedRow(r)
    BY DEF GrantInv
  <2> QED BY <1>1, <2>1, <2>2 DEF GrantedRow
<1>3. ASSUME NEW h \in Handlers PROVE GrantedTask(task[h])'
  <2> PICK t : t = task[h]
    OBVIOUS
  <2>1. GrantedTask(t) /\ task'[h] = t
    BY <1>1 DEF GrantInv
  <2>2. Outcome(t)' = Outcome(t)
    BY DEF Outcome
  <2>3. ASSUME t.pc = "sync", Outcome(t) = "approved" PROVE reqs'[t.req].status = "approved"
    <3>1. t.req \in Requests
      BY <2>3, BusyTask DEF LeaveInv, TypeInv, BusyTasks
    <3> QED BY <2>1, <2>3, <3>1, OutsideMoves DEF GrantedTask
  <2> QED BY <1>1, <2>1, <2>2, <2>3 DEF GrantedTask
<1> QED BY <1>2, <1>3 DEF GrantInv

LEMMA GrantInit == LeaveInit => GrantInv
<1> SUFFICES ASSUME LeaveInit PROVE GrantInv
  OBVIOUS
<1>1. ASSUME NEW r \in Requests PROVE GrantedRow(r)
  BY DEF LeaveInit, Init, NoRow, GrantedRow
<1>2. ASSUME NEW h \in Handlers PROVE GrantedTask(task[h])
  BY DEF LeaveInit, Init, GrantedTask, Idle, Deciding
<1> QED BY <1>1, <1>2 DEF GrantInv

LEMMA GrantStep ==
  ASSUME OneCall, "escalate" \notin InboxOps, LeaveInv, GrantInv, [LeaveNext]_allVars
  PROVE  GrantInv'
<1>1. ASSUME NEW h \in Handlers, UNCHANGED vars PROVE GrantInv'
  <2>1. GrantedTask(task[h])'
    BY <1>1 DEF GrantInv, GrantedTask, Outcome, vars
  <2> QED BY <1>1, <2>1, GrantFrame DEF vars
<1>2. ASSUME NEW h \in Handlers, CallEngine(h) PROVE GrantInv'
  <2>1. /\ call[h].req \in Requests /\ call[h].user \in Users
        /\ "approve" \in Decisions
    BY <1>2, CallOf DEF CallEngine, Calls, Decisions
  <2> QED BY <1>1, <1>2, <2>1, GrantAsk DEF CallEngine
<1>3. ASSUME NEW h \in Handlers, NEW op \in InboxOps \cup {"reject"}, NEW r \in Requests,
             NEW u \in Users, EngineDecision(h, op, r, u)
      PROVE  GrantInv'
  <2>1. op \in Decisions
    BY LeaveAssumption DEF AllOps, Decisions
  <2> QED BY <1>3, <2>1, GrantAsk DEF EngineDecision
<1>4. ASSUME NEW h \in Handlers, LeaveCrash(h) PROVE GrantInv'
  <2>1. task'[h].pc = "idle" /\ UNCHANGED <<reqs, entity>>
    BY <1>4 DEF LeaveCrash, Idle, LeaveInv, TypeInv, TypeOK
  <2>2. GrantedTask(task[h])'
    BY <2>1 DEF GrantedTask, Deciding
  <2> QED BY <2>1, <2>2, GrantFrame
<1>5. ASSUME NEW h \in Handlers, EngineStep(h) PROVE GrantInv'
  BY <1>5, EngineAnswers, GrantQuery
<1>6. ASSUME NEW h \in Handlers, Deduct(h) PROVE GrantInv'
  BY <1>1, <1>6, Deducted
<1>7. ASSUME NEW h \in Handlers, ValidateCreate(h) PROVE GrantInv'
  BY <1>1, <1>7, LeaveChecks
<1> QED BY <1>1, <1>2, <1>3, <1>4, <1>5, <1>6, <1>7, GrantInsert, GrantOutside, LeaveCases
     DEF BeginCreate, BeginApprove

\* The days taken off, and those a call is about to take off, stand approved.
Granted == {r \in Requests : entity[r].status = "approved"}
SpendInv ==
  /\ balance.used <= DaysOf(Granted)
  /\ \A h \in Handlers : call[h].phase = "deduct" =>
       balance.used + Days[call[h].req] <= DaysOf(Granted)

LEMMA GrantedDays ==
  ASSUME LeaveInv
  PROVE  DaysOf(Granted) \in Nat /\ balance.used \in Nat
<1>1. Granted \in SUBSET Requests
  BY DEF Granted
<1> QED BY <1>1, SumIsNat DEF LeaveInv, LeaveTypeOK

\* Nothing is taken off, what was approved stays so, and no call comes to deduct.
LEMMA SpendFrame ==
  ASSUME LeaveInv, LeaveInv', SpendInv, balance'.used = balance.used,
         \A r \in Requests : entity[r].status = "approved" => entity'[r].status = "approved",
         \A g \in Handlers : call'[g].phase = "deduct" => call'[g] = call[g]
  PROVE  SpendInv'
<1> PICK S, T, n : S = Granted /\ T = Granted' /\ n = balance.used
  OBVIOUS
<1>1. S \in SUBSET Requests /\ T \in SUBSET Requests /\ S \subseteq T
  BY DEF Granted
<1>2. DaysOf(S) <= DaysOf(T) /\ DaysOf(S) \in Nat /\ DaysOf(T) \in Nat /\ n \in Nat
  BY <1>1, SumGrows, SumIsNat, GrantedDays
<1>3. n <= DaysOf(S)
  BY DEF SpendInv
<1>4. ASSUME NEW g \in Handlers, call'[g].phase = "deduct"
      PROVE  n + Days[call'[g].req] <= DaysOf(T)
  <2> PICK d : d = Days[call[g].req]
    OBVIOUS
  <2>1. call'[g] = call[g] /\ n + d <= DaysOf(S)
    BY <1>4 DEF SpendInv
  <2>2. call[g].req \in Requests
    BY <1>4, <2>1, CallOf
  <2>3. d \in Nat
    BY <2>2, LeaveAssumption
  <2> QED BY <1>2, <2>1, <2>3
<1> QED BY <1>2, <1>3, <1>4 DEF SpendInv

\* A request is approved, and its call may go on to deduct.
LEMMA SpendGrant ==
  ASSUME OneCall, LeaveInv, LeaveInv', SpendInv, balance'.used = balance.used,
         NEW h \in Handlers, NEW r \in Requests,
         entity[r].status # "approved", entity'[r].status = "approved",
         \A q \in Requests : entity[q].status = "approved" => entity'[q].status = "approved",
         call'[h].phase = "deduct" => call'[h].req = r
  PROVE  SpendInv'
<1> PICK S, T, n : S = Granted /\ T = Granted' /\ n = balance.used
  OBVIOUS
<1>1. S \in SUBSET Requests /\ T \in SUBSET Requests /\ S \cup {r} \subseteq T /\ r \notin S
  BY DEF Granted
<1>2. /\ DaysOf(S \cup {r}) = DaysOf(S) + Days[r]
      /\ DaysOf(S \cup {r}) <= DaysOf(T)
  <2>1. S \cup {r} \in SUBSET Requests
    BY <1>1
  <2> QED BY <1>1, <2>1, SumGrows, SumAdds
<1>3. DaysOf(S) \in Nat /\ DaysOf(T) \in Nat /\ n \in Nat /\ Days[r] \in Nat
  BY <1>1, SumIsNat, GrantedDays, LeaveAssumption
<1>4. n <= DaysOf(S)
  BY DEF SpendInv
<1>5. n + Days[r] <= DaysOf(T)
  BY <1>2, <1>3, <1>4
<1>6. ASSUME NEW g \in Handlers, call'[g].phase = "deduct"
      PROVE  n + Days[call'[g].req] <= DaysOf(T)
  <2>1. g = h
    BY DEF OneCall
  <2> QED BY <1>5, <1>6, <2>1
<1>7. n <= DaysOf(T)
  BY <1>3, <1>5
<1> QED BY <1>6, <1>7 DEF SpendInv

LEMMA SpendDeduct ==
  ASSUME OneCall, LeaveInv, LeaveInv', SpendInv, NEW h \in Handlers, Deduct(h)
  PROVE  SpendInv'
<1>1. /\ call[h].phase = "deduct"
      /\ \/ balance'.used = balance.used + Days[call[h].req]
         \/ balance' = balance
      /\ call' = [call EXCEPT ![h] = NoCall] /\ entity' = entity
  BY Deducted DEF vars
<1>2. Granted' = Granted
  BY <1>1 DEF Granted
<1>3. balance'.used <= DaysOf(Granted)
  BY <1>1 DEF SpendInv
<1>4. \A g \in Handlers : call'[g] = NoCall
  BY <1>1, CallSet DEF OneCall
<1> QED BY <1>2, <1>3, <1>4 DEF SpendInv, NoCall

LEMMA SpendInsert ==
  ASSUME OneCall, LeaveInv, LeaveInv', SpendInv, NEW h \in Handlers, InsertRequest(h)
  PROVE  SpendInv'
<1> PICK c : c = call[h]
  OBVIOUS
<1>0. /\ c \in Calls /\ c.req \in Requests /\ c.phase = "covered" /\ balance' = balance
      /\ entity[c.req].status = "absent" /\ TypeOK
  BY CallOf DEF InsertRequest, LeaveInv, TypeInv
<1>1. CASE /\ entity' = [entity EXCEPT ![c.req].status = "approved"]
           /\ call' = [call EXCEPT ![h].phase = "deduct"]
  <2>1. call'[h].req = c.req
    BY <1>0, <1>1 DEF LeaveInv, LeaveTypeOK, Calls, Phases
  <2>2. \A q \in Requests : entity'[q].status =
          IF q = c.req THEN "approved" ELSE entity[q].status
    BY <1>0, <1>1 DEF TypeOK
  <2> QED BY <1>0, <2>1, <2>2, SpendGrant
<1>2. CASE CreateEntity(h, c.req)
  <2>1. call' = [call EXCEPT ![h] = NoCall]
    BY <1>0, <1>2 DEF InsertRequest, CreateEntity, TypeOK
  <2>2. \A r \in Requests : entity[r].status = "approved" => entity'[r].status = "approved"
    BY <1>0, <1>2 DEF CreateEntity, TypeOK
  <2>3. \A g \in Handlers : call'[g].phase = "deduct" => call'[g] = call[g]
    BY <2>1, CallSet DEF NoCall
  <2> QED BY <1>0, <2>2, <2>3, SpendFrame
<1> QED BY <1>1, <1>2 DEF InsertRequest

\* The engine answers: the entity it approves was not approved before.
LEMMA SpendAnswer ==
  ASSUME OneCall, LeaveInv, LeaveInv', GrantInv, SpendInv, NEW h \in Handlers, EngineStep(h)
  PROVE  SpendInv'
<1> PICK t, c : t = task[h] /\ c = call[h]
  OBVIOUS
<1>1. /\ Answered(h) /\ HandlerStep(h) /\ balance' = balance
      /\ t \in BusyTasks /\ t.req \in Requests /\ t.pc \in Deciding \cup {"insert", "sync"}
  BY EngineAnswers, EngineMoves
<1>2. CallTied(c, t) /\ GrantedTask(t) /\ (c = NoCall \/ c \in Calls)
  BY DEF LeaveInv, LeaveTypeOK, GrantInv, Calls, Phases
<1>3. \A r \in Requests : entity'[r].status =
        IF t.pc = "sync" /\ r = t.req /\ Outcome(t) \in Closed
        THEN Outcome(t) ELSE entity[r].status
  BY <1>1, EngineMoves
<1>4. \A r \in Requests : entity[r].status = "approved" => entity'[r].status = "approved"
  BY <1>2, <1>3 DEF GrantedTask
<1>5. c.phase # "deduct"
  BY <1>1, <1>2 DEF CallTied, Deciding
<1>6. \A g \in Handlers : g = h
  BY DEF OneCall
<1>7. CASE t.pc = "sync" /\ Outcome(t) = "approved"
  <2>1. entity[t.req].status # "approved" /\ entity'[t.req].status = "approved"
    BY <1>1, <1>2, <1>3, <1>7 DEF GrantedTask, Closed
  <2>2. ASSUME call'[h].phase = "deduct" PROVE call'[h].req = t.req
    <3>1. c \in Calls
      BY <1>1, <1>2, <1>5, <2>2, CallSet DEF Answered, NoCall
    <3>2. c.phase = "approving" /\ c.req = t.req
      BY <1>2, <1>5, <1>7, <3>1 DEF CallTied, Calls, Phases
    <3>3. CASE call' = call
      BY <1>5, <2>2, <3>3
    <3>4. CASE call' = [call EXCEPT ![h] = [c EXCEPT !.phase = "deduct"]]
      <4>1. call'[h] = [c EXCEPT !.phase = "deduct"]
        BY <3>4 DEF LeaveInv, LeaveTypeOK
      <4> QED BY <3>1, <3>2, <4>1, CallPhase
    <3> QED BY <1>1, <1>7, <3>3, <3>4 DEF Answered
  <2> QED BY <1>1, <1>4, <2>1, <2>2, SpendGrant
<1>8. CASE ~(t.pc = "sync" /\ Outcome(t) = "approved")
  <2>1. call' = call \/ call' = [call EXCEPT ![h] = NoCall]
    BY <1>1, <1>8 DEF Answered
  <2>2. call' = call \/ call'[h] = NoCall
    BY <2>1, CallSet
  <2>3. \A g \in Handlers : call'[g].phase = "deduct" => call'[g] = call[g]
    BY <1>6, <2>2 DEF NoCall
  <2> QED BY <1>1, <1>4, <2>3, SpendFrame
<1> QED BY <1>7, <1>8

LEMMA SpendStep ==
  ASSUME OneCall, LeaveInv, LeaveInv', GrantInv, SpendInv, [LeaveNext]_allVars
  PROVE  SpendInv'
<1>1. ASSUME NEW h \in Handlers,
             \/ \E r \in Requests : BeginCreate(h, r)
             \/ \E r \in Requests, u \in Users : BeginApprove(h, r, u)
             \/ CallEngine(h)
             \/ \E op \in InboxOps \cup {"reject"}, r \in Requests, u \in Users :
                  EngineDecision(h, op, r, u)
             \/ LeaveCrash(h)
      PROVE  SpendInv'
  <2>1. UNCHANGED entity
    BY <1>1 DEF BeginCreate, BeginApprove, CallEngine, EngineDecision, ReadRequest, LeaveCrash, vars
  <2>2. balance'.used = balance.used
    BY <1>1, SyncedType DEF BeginCreate, BeginApprove, CallEngine, EngineDecision, LeaveCrash,
       leaveVars
  <2>3. call' = call \/ call'[h].phase # "deduct"
    BY <1>1 DEF BeginCreate, BeginApprove, CallEngine, EngineDecision, LeaveCrash, Enter, NoCall,
       leaveVars, LeaveInv, LeaveTypeOK
  <2>4. \A g \in Handlers : call'[g].phase = "deduct" => call'[g] = call[g]
    BY <2>3 DEF OneCall
  <2> QED BY <2>1, <2>2, <2>4, SpendFrame
<1>2. CASE Outside
  <2>1. UNCHANGED <<entity, call>> /\ balance'.used = balance.used
    BY <1>2, OutsideMoves, SyncedType
  <2> QED BY <2>1, SpendFrame
<1>3. ASSUME NEW h \in Handlers, ValidateCreate(h) PROVE SpendInv'
  <2>1. PICK d \in {NoCall} \cup Calls : call' = [call EXCEPT ![h] = d] /\ d.phase # "deduct"
    BY <1>3, LeaveChecks DEF NoCall
  <2>2. \A g \in Handlers : call'[g].phase = "deduct" => call'[g] = call[g]
    BY <2>1, CallSet
  <2> QED BY <1>3, <2>2, LeaveChecks, SpendFrame DEF vars
<1> QED BY <1>1, <1>2, <1>3, SpendInsert, SpendAnswer, SpendDeduct, LeaveCases

\* With one handler at a time, days are taken off only for what stands approved,
\* and once for each: whoever decides, through LeaveService or the inbox, with
\* crashes anywhere, expiries, and changes of the policy and of the chain.
THEOREM OnlyGrantedDeducted ==
  ASSUME OneCall, "escalate" \notin InboxOps PROVE LeaveSpec => []OnlyApprovedDeducted
<1>1. LeaveInit => SpendInv
  <2> SUFFICES ASSUME LeaveInit PROVE SpendInv
    OBVIOUS
  <2>1. Granted = {}
    BY DEF LeaveInit, Init, Granted
  <2> QED BY <2>1, SumOfNone DEF LeaveInit, SpendInv, NoCall
<1>2. LeaveInv /\ GrantInv /\ [LeaveNext]_allVars => GrantInv'
  BY GrantStep
<1>3. LeaveInv /\ LeaveInv' /\ GrantInv /\ SpendInv /\ [LeaveNext]_allVars => SpendInv'
  BY SpendStep
<1>4. SpendInv => OnlyApprovedDeducted
  BY DEF SpendInv, OnlyApprovedDeducted, ApprovedDays, DaysOf, Granted
<1> QED BY <1>1, <1>2, <1>3, <1>4, GrantInit, LeaveHolds, PTL DEF LeaveSpec

=============================================================================
