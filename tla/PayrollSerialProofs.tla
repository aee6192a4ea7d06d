------------------------ MODULE PayrollSerialProofs ------------------------
(***************************************************************************)
(* What holds of PayrollRun for any employees, fines, runs and versions    *)
(* when its requests do not overlap: the fines, when no request on a fine  *)
(* overlaps a generation; the summaries, when one request at a time reads  *)
(* and writes them, whatever reviews, runs and crashes come in between.    *)
(***************************************************************************)
EXTENDS PayrollRunProofs

(* Fines and their payslips.                                                *)

\* The fine, its payslip and its payments tell one story.
FineTied(f) ==
  /\ fine[f].linked <=> fine[f].status = "payroll_deducted"
  /\ "payroll_deduction" \in payments[f] <=> fine[f].linked
  /\ fine[f].asked => fine[f].status \in {"pending_approval", "cancelled"}
  /\ fine[f].linked => f \in payslip[Owner[f]].refs

\* What an operation read of its fine and relies on is still so when it writes.
FineJobTied(j) ==
  j # FineIdle => /\ ~fine[j.fine].linked /\ fine[j.fine].status # "absent"
                  /\ j.op # "cancel" => ~fine[j.fine].asked

\* The deducted fines of payslips that a generation of the run may replace.
DraftFines(r) ==
  {f \in Fines : fine[f].linked /\ Owner[f] \in Scope[r] /\ payslip[Owner[f]].status = "draft"}

\* A generation has set free every deducted fine of the payslips it may replace,
\* and takes no fine that is neither approved nor one of those.
GenerationTied(r) ==
  Generating(r) =>
    /\ NoFineJobs
    /\ generation[r].loaded \subseteq Scope[r]
    /\ DraftFines(r) \subseteq generation[r].reset
    /\ \A f \in generation[r].reset : fine[f].linked
    /\ \A f \in generation[r].fines : fine[f].status = "approved" \/ fine[f].linked

FinesInv ==
  /\ \A f \in Fines : FineTied(f)
  /\ \A w \in FineWorkers : FineJobTied(fineJob[w])
  /\ \A e \in Employees : payslip[e].status = "absent" => payslip[e].refs = {}
  /\ \A r, q \in Runs : Generating(r) /\ Generating(q) => r = q
  /\ \A r \in Runs : GenerationTied(r)

LEMMA FinesInit == PayrollInit => FinesInv
<1> SUFFICES ASSUME PayrollInit PROVE FinesInv
  OBVIOUS
<1>1. ASSUME NEW f \in Fines PROVE FineTied(f)
  BY DEF PayrollInit, FineInit, FineTied
<1>2. \A w \in FineWorkers : FineJobTied(fineJob[w])
  BY DEF PayrollInit, FineInit, FineJobTied
<1>3. \A e \in Employees : payslip[e].refs = {}
  BY DEF PayrollInit, NoPayslip
<1>4. \A r \in Runs : ~Generating(r)
  BY DEF PayrollInit, Generating, NoGeneration
<1> QED BY <1>1, <1>2, <1>3, <1>4 DEF FinesInv, GenerationTied

\* A step of the fines, when no generation is open.
LEMMA FinesFrame ==
  ASSUME FinesInv, NoGenerations, UNCHANGED runVars,
         \A f \in Fines : FineTied(f)', \A w \in FineWorkers : FineJobTied(fineJob[w])'
  PROVE  FinesInv'
BY DEF FinesInv, NoGenerations, GenerationTied, Generating, runVars

\* One fine is written; the jobs on it find it unlinked, and undecided only if
\* it was before.
LEMMA FineWritten ==
  ASSUME FinesInv, FineTypeOK, NoGenerations, UNCHANGED runVars, UNCHANGED payments,
         NEW f \in Fines, NEW status \in FineStatuses \ {"absent", "payroll_deducted"}, NEW asked \in BOOLEAN,
         ~fine[f].linked,
         fine' = [fine EXCEPT ![f] = [@ EXCEPT !.status = status, !.asked = asked]],
         asked => status \in {"pending_approval", "cancelled"},
         \A w \in FineWorkers : fineJob'[w] # FineIdle =>
           /\ fineJob'[w] = fineJob[w]
           /\ fineJob[w].fine = f /\ fineJob[w].op # "cancel" => ~asked
  PROVE  FinesInv'
<1>0. fine \in [Fines -> FineRows] /\ fine[f] \in FineRows
  BY DEF FineTypeOK
<1>1. /\ fine'[f].status = status /\ fine'[f].asked = asked /\ fine'[f].linked = fine[f].linked
      /\ \A g \in Fines : g # f => fine'[g] = fine[g]
  BY <1>0 DEF FineRows
<1>2. ASSUME NEW g \in Fines PROVE FineTied(g)'
  <2>1. FineTied(g)
    BY DEF FinesInv
  <2>2. CASE g = f
    BY <1>1, <2>1, <2>2 DEF FineTied
  <2>3. CASE g # f
    BY <1>1, <2>1, <2>3 DEF FineTied, runVars
  <2> QED BY <2>2, <2>3
<1>3. ASSUME NEW w \in FineWorkers PROVE FineJobTied(fineJob[w])'
  <2> PICK j : j = fineJob'[w]
    OBVIOUS
  <2>1. CASE j = FineIdle
    BY <2>1 DEF FineJobTied
  <2>2. CASE j # FineIdle
    <3>1. j = fineJob[w] /\ (j.fine = f /\ j.op # "cancel" => ~asked)
      BY <2>2
    <3>2. j.fine \in Fines
      BY <2>2, <3>1 DEF FineTypeOK
    <3>3. FineJobTied(j)
      BY <3>1 DEF FinesInv
    <3>4. ~fine'[j.fine].linked /\ fine'[j.fine].status # "absent" /\ (j.op # "cancel" => ~fine'[j.fine].asked)
      <4>1. CASE j.fine = f
        BY <1>1, <2>2, <3>1, <3>3, <4>1 DEF FineJobTied
      <4>2. CASE j.fine # f
        BY <1>1, <2>2, <3>2, <3>3, <4>2 DEF FineJobTied
      <4> QED BY <4>1, <4>2
    <3> QED BY <3>4 DEF FineJobTied
  <2> QED BY <2>1, <2>2
<1> QED BY <1>2, <1>3, FinesFrame

\* Payments come and go, jobs begin and end, and no fine is written.
LEMMA FineUnwritten ==
  ASSUME FinesInv, FineTypeOK, NoGenerations, UNCHANGED runVars, UNCHANGED fine,
         \A f \in Fines : "payroll_deduction" \in payments'[f] <=> "payroll_deduction" \in payments[f],
         \A w \in FineWorkers : FineJobTied(fineJob'[w])
  PROVE  FinesInv'
<1>1. ASSUME NEW f \in Fines PROVE FineTied(f)'
  <2>1. FineTied(f)
    BY DEF FinesInv
  <2> QED BY <2>1 DEF FineTied, runVars
<1>2. ASSUME NEW w \in FineWorkers PROVE FineJobTied(fineJob[w])'
  BY DEF FineJobTied
<1> QED BY <1>1, <1>2, FinesFrame

LEMMA FinesServiceStep ==
  ASSUME FinesInv, FineTypeOK, NoGenerations, UNCHANGED runVars, NEW open, FineStep(open)
  PROVE  FinesInv'
<1>0. /\ \A f \in Fines : FineTied(f) /\ fine[f] \in FineRows
      /\ \A w \in FineWorkers : FineJobTied(fineJob[w])
  BY DEF FinesInv, FineTypeOK
<1>1. ASSUME NEW f \in Fines, CreateFine(f) PROVE FinesInv'
  <2>1. ~fine[f].linked
    BY <1>0, <1>1 DEF CreateFine, FineTied
  <2>2. fine' = [fine EXCEPT ![f] = [@ EXCEPT !.status = "pending_approval", !.asked = TRUE]]
        /\ UNCHANGED <<payments, fineJob>>
    BY <1>1 DEF CreateFine
  <2>3. \A w \in FineWorkers : fineJob[w] # FineIdle => fineJob[w].fine # f
    BY <1>0, <1>1 DEF CreateFine, FineJobTied
  <2> QED BY <2>1, <2>2, <2>3, FineWritten DEF FineStatuses
<1>2. ASSUME NEW f \in Fines, NEW v \in {"approved", "rejected"}, DecideFine(f, v)
      PROVE  FinesInv'
  <2>1. ~fine[f].linked
    BY <1>0, <1>2 DEF DecideFine, FineTied
  <2>2. fine' = [fine EXCEPT ![f] = [@ EXCEPT !.status = v, !.asked = FALSE]]
        /\ UNCHANGED <<payments, fineJob>>
    BY <1>2 DEF DecideFine
  <2> QED BY <2>1, <2>2, FineWritten DEF FineStatuses
<1>3. ASSUME NEW f \in Fines, VerifyPayment(f)
      PROVE  FinesInv'
  <2>1. \A g \in Fines : "payroll_deduction" \in payments'[g] <=> "payroll_deduction" \in payments[g]
    BY <1>3 DEF VerifyPayment, FineTypeOK
  <2> QED BY <1>0, <1>3, <2>1, FineUnwritten DEF VerifyPayment
<1>4. ASSUME NEW f \in Fines, NEW w \in FineWorkers, NEW op \in FineOps, BeginFineJob(w, op, f, open)
      PROVE  FinesInv'
  <2> DEFINE j == [step |-> IF op = "cancel" THEN "write" ELSE "pay", op |-> op, fine |-> f]
  <2>1. fine[f].status \in {"pending_approval", "approved", "partially_paid"}
        /\ (op # "cancel" => fine[f].status # "pending_approval")
    BY <1>4 DEF BeginFineJob, Accepts
  <2>2. FineJobTied(j)
    BY <1>0, <2>1 DEF FineJobTied, FineTied
  <2>3. fineJob' = [fineJob EXCEPT ![w] = j] /\ UNCHANGED <<fine, payments>>
    BY <1>4 DEF BeginFineJob
  <2> HIDE DEF j
  <2>4. \A v \in FineWorkers : FineJobTied(fineJob'[v])
    BY <1>0, <2>2, <2>3 DEF FineTypeOK
  <2> QED BY <2>3, <2>4, FineUnwritten
<1>5. ASSUME NEW w \in FineWorkers, InsertPayment(w) PROVE FinesInv'
  <2> PICK j : j = fineJob[w]
    OBVIOUS
  <2>1. FineJobTied(j) /\ j # FineIdle /\ j \in FineJobs
    BY <1>0, <1>5 DEF InsertPayment, FineIdle, FineTypeOK, FineJobs
  <2>2. FineJobTied([j EXCEPT !.step = "write"])
    BY <2>1 DEF FineJobTied, FineJobs
  <2>3. fineJob' = [fineJob EXCEPT ![w] = [j EXCEPT !.step = "write"]] /\ UNCHANGED fine
    BY <1>5 DEF InsertPayment
  <2>4. \A v \in FineWorkers : FineJobTied(fineJob'[v])
    BY <1>0, <2>2, <2>3 DEF FineTypeOK
  <2>5. \A g \in Fines : "payroll_deduction" \in payments'[g] <=> "payroll_deduction" \in payments[g]
    BY <1>5, <2>1 DEF InsertPayment, FineTypeOK, FineJobs
  <2> QED BY <2>3, <2>4, <2>5, FineUnwritten
<1>6. ASSUME NEW w \in FineWorkers, WriteFine(w) PROVE FinesInv'
  <2> PICK j : j = fineJob[w]
    OBVIOUS
  <2>1. FineJobTied(j) /\ j # FineIdle /\ j \in FineJobs
    BY <1>0, <1>6 DEF WriteFine, FineIdle, FineTypeOK, FineJobs
  <2>2. PICK f : f = j.fine
    OBVIOUS
  <2>3. f \in Fines /\ ~fine[f].linked /\ fine[f].asked \in BOOLEAN
        /\ (j.op # "cancel" => ~fine[f].asked)
    BY <1>0, <2>1, <2>2 DEF FineJobTied, FineJobs, FineRows
  <2>4. PICK status : status = Result(j.op)
    OBVIOUS
  <2>5. /\ status \in FineStatuses \ {"absent", "payroll_deducted"}
        /\ fine[f].asked => status \in {"pending_approval", "cancelled"}
    BY <2>3, <2>4 DEF Result, FineStatuses
  <2>6. fine' = [fine EXCEPT ![f] = [@ EXCEPT !.status = status, !.asked = fine[f].asked]]
    <3>1. [fine[f] EXCEPT !.status = status] =
            [fine[f] EXCEPT !.status = status, !.asked = fine[f].asked]
      BY <1>0, <2>3 DEF FineRows
    <3> QED BY <1>6, <2>2, <2>4, <3>1 DEF WriteFine
  <2>7. fineJob' = [fineJob EXCEPT ![w] = FineIdle] /\ UNCHANGED payments
    BY <1>6 DEF WriteFine
  <2>8. \A v \in FineWorkers : fineJob'[v] # FineIdle =>
           /\ fineJob'[v] = fineJob[v]
           /\ fineJob[v].fine = f /\ fineJob[v].op # "cancel" => ~fine[f].asked
    BY <1>0, <2>7 DEF FineTypeOK, FineJobTied
  <2>9. PICK asked \in BOOLEAN : asked = fine[f].asked
    BY <2>3
  <2> QED BY <2>3, <2>5, <2>6, <2>7, <2>8, <2>9, FineWritten
<1>7. ASSUME NEW w \in FineWorkers, FineJobFails(w) PROVE FinesInv'
  <2>1. \A v \in FineWorkers : FineJobTied(fineJob'[v])
    BY <1>0, <1>7 DEF FineJobFails, FineTypeOK, FineJobTied
  <2> QED BY <1>7, <2>1, FineUnwritten DEF FineJobFails
<1> QED BY <1>1, <1>2, <1>3, <1>4, <1>5, <1>6, <1>7 DEF FineStep

\* A run's transaction goes on, or ends without a write.
LEMMA FinesGenerating ==
  ASSUME FinesInv, NEW r \in Runs, NEW g, generation \in [Runs -> Generations],
         generation' = [generation EXCEPT ![r] = g],
         UNCHANGED <<fineVars, payslip>>,
         g.step # "none" =>
           /\ NoFineJobs
           /\ \A q \in Runs : Generating(q) => q = r
           /\ g.loaded \subseteq Scope[r]
           /\ DraftFines(r) \subseteq g.reset
           /\ \A f \in g.reset : fine[f].linked
           /\ \A f \in g.fines : fine[f].status = "approved" \/ fine[f].linked
  PROVE  FinesInv'
<1>1. \A q \in Runs : generation'[q] = IF q = r THEN g ELSE generation[q]
  OBVIOUS
<1>2. ASSUME NEW f \in Fines PROVE FineTied(f)'
  BY DEF FinesInv, FineTied, fineVars
<1>3. ASSUME NEW q \in Runs PROVE GenerationTied(q)'
  <2>1. CASE q = r
    BY <1>1, <2>1 DEF GenerationTied, DraftFines, Generating, NoFineJobs, fineVars
  <2>2. CASE q # r
    <3>1. GenerationTied(q)
      BY DEF FinesInv
    <3> QED BY <1>1, <2>2, <3>1 DEF GenerationTied, DraftFines, Generating, NoFineJobs, fineVars
  <2> QED BY <2>1, <2>2
<1>4. (\A p, q \in Runs : Generating(p) /\ Generating(q) => p = q)'
  BY <1>1 DEF FinesInv, Generating
<1>5. \A w \in FineWorkers : FineJobTied(fineJob[w])'
  BY DEF FinesInv, FineJobTied, fineVars
<1> QED BY <1>2, <1>3, <1>4, <1>5 DEF FinesInv

LEMMA FinesRunSteps ==
  ASSUME ~Overlapping, FinesInv, RunInv, NEW r \in Runs,
         BeginGeneration(r) \/ LoadSummaries(r) \/ LoadFines(r) \/ GenerationFails(r)
  PROVE  FinesInv'
<1>0. generation \in [Runs -> Generations] /\ UNCHANGED <<fineVars, payslip>>
  BY DEF RunInv, BeginGeneration, OpenGeneration, LoadSummaries, LoadFines, GenerationFails
<1>a. generation[r] \in Generations /\ GenerationTied(r)
      /\ \A q \in Runs : Generating(r) /\ Generating(q) => q = r
  BY <1>0 DEF FinesInv
<1>1. CASE BeginGeneration(r)
  <2> DEFINE reset == DraftFines(r)
             g == [step |-> "summaries", reset |-> reset, loaded |-> {}, fines |-> {}]
  <2>1. generation' = [generation EXCEPT ![r] = g] /\ NoGenerations /\ NoFineJobs
    BY <1>1 DEF BeginGeneration, OpenGeneration, DraftFines
  <2>2. /\ g.loaded = {} /\ g.fines = {} /\ g.reset = reset
    OBVIOUS
  <2>3. DraftFines(r) \subseteq g.reset /\ \A f \in g.reset : fine[f].linked
    <3>1. \A f \in DraftFines(r) : fine[f].linked
      BY DEF DraftFines
    <3> QED BY <2>2, <3>1
  <2> HIDE DEF g, reset
  <2> QED BY <1>0, <2>1, <2>2, <2>3, FinesGenerating DEF NoGenerations
<1>2. CASE LoadSummaries(r)
  <2> DEFINE locked == {e \in Scope[r] : summary[e].status = "payroll_locked"}
             g == IF locked = {} THEN NoGeneration
                  ELSE [generation[r] EXCEPT !.step = "fines", !.loaded = locked]
  <2>1. generation' = [generation EXCEPT ![r] = g] /\ Generating(r)
    BY <1>2 DEF LoadSummaries, Generating
  <2>2. g.step # "none" => /\ g.loaded \subseteq Scope[r] /\ g.reset = generation[r].reset
                           /\ g.fines = generation[r].fines
    BY <1>a DEF NoGeneration, Generations
  <2> HIDE DEF g, locked
  <2> QED BY <1>0, <1>a, <2>1, <2>2, FinesGenerating DEF GenerationTied
<1>3. CASE LoadFines(r)
  <2> DEFINE taken == {f \in FineScope[r] : fine[f].status = "approved" \/ f \in generation[r].reset}
             g == [generation[r] EXCEPT !.step = "commit", !.fines = taken]
  <2>1. generation' = [generation EXCEPT ![r] = g] /\ Generating(r)
    BY <1>3 DEF LoadFines, Generating
  <2>2. g.loaded = generation[r].loaded /\ g.reset = generation[r].reset /\ g.fines = taken
    BY <1>a DEF Generations
  <2>3. \A f \in taken : fine[f].status = "approved" \/ fine[f].linked
    BY <1>a, <2>1 DEF GenerationTied
  <2> HIDE DEF g, taken
  <2> QED BY <1>0, <1>a, <2>1, <2>2, <2>3, FinesGenerating DEF GenerationTied
<1>4. CASE GenerationFails(r)
  BY <1>0, <1>4, FinesGenerating DEF GenerationFails, NoGeneration
<1> QED BY <1>1, <1>2, <1>3, <1>4

\* Processing a run makes payslips final, which takes drafts away and no fine.
LEMMA FinesProcessed ==
  ASSUME FinesInv, RunInv, NEW r \in Runs, ProcessRun(r) \/ CreateRun(r)
  PROVE  FinesInv'
<1>1. UNCHANGED <<fineVars, generation>>
  BY DEF ProcessRun, CreateRun
<1>2. ASSUME NEW e \in Employees
      PROVE  /\ payslip'[e].refs = payslip[e].refs
             /\ payslip'[e].status \in {"absent", "draft"} => payslip'[e].status = payslip[e].status
  <2>1. payslip[e] \in PayslipRows
    BY DEF RunInv
  <2>2. payslip'[e] = payslip[e] \/ payslip'[e] = [payslip[e] EXCEPT !.status = "processed"]
    BY DEF ProcessRun, CreateRun
  <2> QED BY <2>1, <2>2 DEF PayslipRows
<1>3. \A f \in Fines : Owner[f] \in Employees
  BY PayrollAssumption
<1>4. ASSUME NEW f \in Fines PROVE FineTied(f)'
  <2>1. FineTied(f)
    BY DEF FinesInv
  <2> QED BY <1>1, <1>2, <1>3, <2>1 DEF FineTied, fineVars
<1>5. ASSUME NEW q \in Runs PROVE GenerationTied(q)'
  <2>1. GenerationTied(q)
    BY DEF FinesInv
  <2> QED BY <1>1, <1>2, <1>3, <2>1 DEF GenerationTied, DraftFines, Generating, NoFineJobs, fineVars
<1>6. \A w \in FineWorkers : FineJobTied(fineJob[w])'
  BY <1>1 DEF FinesInv, FineJobTied, fineVars
<1> QED BY <1>1, <1>2, <1>4, <1>5, <1>6 DEF FinesInv, Generating

\* The commit: what is charged is on the payslip it was charged to, what is only
\* reset is on none that counts, and no other fine loses its payslip.
LEMMA FinesCommitted ==
  ASSUME FinesInv, FineTypeOK, RunInv, NEW r \in Runs, CommitGeneration(r)
  PROVE  FinesInv'
<1>1. PICK paid \in SUBSET generation[r].loaded :
        LET written == {e \in paid : Replaceable(e)}
            reset   == generation[r].reset
            charged == {f \in generation[r].fines : Owner[f] \in Written(paid)}
        IN
        /\ generation[r].step = "commit"
        /\ payslip' = [e \in Employees |-> IF e \in written THEN NewPayslip(r, e) ELSE payslip[e]]
        /\ fine' = [f \in Fines |->
             IF f \in charged THEN [fine[f] EXCEPT !.status = "payroll_deducted", !.linked = TRUE]
             ELSE IF f \in reset THEN [fine[f] EXCEPT !.status = "approved", !.linked = FALSE]
             ELSE fine[f]]
        /\ payments' = [f \in Fines |-> PaymentsAfter(f, reset, charged)]
        /\ generation' = [generation EXCEPT ![r] = NoGeneration]
        /\ fineJob' = fineJob
  BY DEF CommitGeneration
<1>2. PICK written : written = {e \in paid : Replaceable(e)}
  OBVIOUS
<1>3. PICK reset : reset = generation[r].reset
  OBVIOUS
<1>4. PICK charged : charged = {f \in generation[r].fines : Owner[f] \in written}
  OBVIOUS
<1>5. /\ generation[r].step = "commit"
      /\ payslip' = [e \in Employees |-> IF e \in written THEN NewPayslip(r, e) ELSE payslip[e]]
      /\ fine' = [f \in Fines |->
           IF f \in charged THEN [fine[f] EXCEPT !.status = "payroll_deducted", !.linked = TRUE]
           ELSE IF f \in reset THEN [fine[f] EXCEPT !.status = "approved", !.linked = FALSE]
           ELSE fine[f]]
      /\ payments' = [f \in Fines |-> PaymentsAfter(f, reset, charged)]
      /\ generation' = [generation EXCEPT ![r] = NoGeneration]
      /\ fineJob' = fineJob
  BY <1>1, <1>2, <1>3, <1>4 DEF Written
<1>6. GenerationTied(r) /\ Generating(r) /\ generation[r] \in Generations
  BY <1>5 DEF FinesInv, RunInv, Generating
<1>7. written \subseteq Employees \cap Scope[r]
  BY <1>2, <1>6 DEF GenerationTied, Generations
<1>8. ASSUME NEW f \in Fines PROVE FineTied(f)'
  <2>0. FineTied(f) /\ fine[f] \in FineRows /\ Owner[f] \in Employees
    BY PayrollAssumption DEF FinesInv, FineTypeOK
  <2>1. CASE f \in charged
    <3>1. /\ fine'[f].status = "payroll_deducted" /\ fine'[f].linked
          /\ fine'[f].asked = fine[f].asked
      BY <1>5, <2>0, <2>1 DEF FineRows
    <3>2. f \in generation[r].fines /\ Owner[f] \in written
      BY <1>4, <2>1
    <3>3. ~fine[f].asked
      BY <1>6, <2>0, <3>2 DEF GenerationTied, FineTied
    <3>4. "payroll_deduction" \in payments'[f]
      BY <1>5, <2>1 DEF PaymentsAfter
    <3>5. f \in payslip'[Owner[f]].refs
      BY <1>5, <2>0, <3>2 DEF NewPayslip, FinesOf
    <3> QED BY <3>1, <3>3, <3>4, <3>5 DEF FineTied
  <2>2. CASE f \notin charged /\ f \in reset
    <3>1. fine'[f].status = "approved" /\ ~fine'[f].linked /\ fine'[f].asked = fine[f].asked
      BY <1>5, <2>0, <2>2 DEF FineRows
    <3>2. ~fine[f].asked
      BY <1>3, <1>6, <2>0, <2>2 DEF GenerationTied, FineTied
    <3>3. "payroll_deduction" \notin payments'[f]
      BY <1>5, <2>2 DEF PaymentsAfter
    <3> QED BY <3>1, <3>2, <3>3 DEF FineTied
  <2>3. CASE f \notin charged /\ f \notin reset
    <3>1. fine'[f] = fine[f] /\ payments'[f] = payments[f]
      BY <1>5, <2>3 DEF PaymentsAfter
    <3>2. fine[f].linked => f \in payslip'[Owner[f]].refs
      <4>1. CASE Owner[f] \notin written
        BY <1>5, <2>0, <4>1 DEF FineTied
      <4>2. CASE Owner[f] \in written
        <5>1. payslip[Owner[f]].status \in {"absent", "draft"}
          BY <1>2, <4>2 DEF Replaceable
        <5>2. payslip[Owner[f]].status = "absent" => ~fine[f].linked
          BY <2>0 DEF FinesInv, FineTied
        <5>3. payslip[Owner[f]].status = "draft" => ~fine[f].linked
          BY <1>3, <1>6, <1>7, <2>3, <4>2 DEF GenerationTied, DraftFines
        <5> QED BY <5>1, <5>2, <5>3
      <4> QED BY <4>1, <4>2
    <3> QED BY <2>0, <3>1, <3>2 DEF FineTied
  <2> QED BY <2>1, <2>2, <2>3
<1>9. ASSUME NEW w \in FineWorkers PROVE FineJobTied(fineJob[w])'
  BY <1>5, <1>6 DEF GenerationTied, NoFineJobs, FineJobTied
<1>10. ASSUME NEW e \in Employees, payslip'[e].status = "absent" PROVE payslip'[e].refs = {}
  BY <1>5, <1>10 DEF FinesInv, NewPayslip
<1>11. ASSUME NEW q \in Runs PROVE ~Generating(q)'
  <2>1. q # r => ~Generating(q)
    BY <1>6 DEF FinesInv
  <2> QED BY <1>5, <2>1 DEF Generating, NoGeneration, RunInv
<1> QED BY <1>8, <1>9, <1>10, <1>11 DEF FinesInv, GenerationTied

LEMMA FinesStep ==
  ASSUME ~Overlapping, PayrollInv, FinesInv, [PayrollNext]_payrollVars
  PROVE  FinesInv'
<1>0. RunInv /\ FineTypeOK
  BY DEF PayrollInv
<1>1. CASE UNCHANGED <<fineVars, runVars>>
  <2>1. ASSUME NEW f \in Fines PROVE FineTied(f)'
    BY <1>1 DEF FinesInv, FineTied, fineVars, runVars
  <2>2. ASSUME NEW q \in Runs PROVE GenerationTied(q)'
    <3>1. GenerationTied(q)
      BY DEF FinesInv
    <3> QED BY <1>1, <3>1 DEF GenerationTied, DraftFines, Generating, NoFineJobs, fineVars, runVars
  <2>3. \A w \in FineWorkers : FineJobTied(fineJob[w])'
    BY <1>1 DEF FinesInv, FineJobTied, fineVars
  <2> QED BY <1>1, <2>1, <2>2, <2>3 DEF FinesInv, Generating, runVars
<1>2. CASE FinesMove
  <2>1. NoGenerations /\ FineStep(PeriodOpen) /\ UNCHANGED runVars
    BY <1>2 DEF FinesMove
  <2>2. PICK open : FineStep(open)
    BY <2>1
  <2> QED BY <1>0, <2>1, <2>2, FinesServiceStep
<1>3. ASSUME NEW r \in Runs, RunStep(r) PROVE FinesInv'
  BY <1>0, <1>3, FinesRunSteps, FinesProcessed, FinesCommitted DEF RunStep
<1>4. CASE SummariesMove
  BY <1>1, <1>4 DEF SummariesMove
<1> QED BY <1>1, <1>2, <1>3, <1>4 DEF PayrollNext, payrollVars

LEMMA FinesHold == ASSUME ~Overlapping PROVE PayrollSpec => []FinesInv
<1>1. PayrollInv /\ FinesInv /\ [PayrollNext]_payrollVars => FinesInv'
  BY FinesStep
<1> QED BY <1>1, FinesInit, InvHolds, PTL DEF PayrollSpec

\* When no request on a fine overlaps a generation, a deducted fine is on the
\* payslip it names and has its payment, however often either run generates,
\* fails and processes.
THEOREM DeductedFineOnPayslip ==
  ASSUME ~Overlapping PROVE PayrollSpec => []FineHasPayslip
<1>1. FinesInv => FineHasPayslip
  BY DEF FinesInv, FineTied, FineHasPayslip
<1> QED BY <1>1, FinesHold, PTL

-----------------------------------------------------------------------------
(* One request at a time on the summaries.                                  *)

OneWorker == \A v, w \in Workers : v = w

Cleared == {"approved"} \cup Frozen

\* What is approved was reviewed as it stands, no version is ahead of the
\* summary, and each version number stands for one set of compared figures.
ReviewedAs(e, figures) == reviewed[e] # Unreviewed /\ Compared[figures] = Compared[reviewed[e]]
RowAlone(e) ==
  /\ summary[e].status \in Cleared => ReviewedAs(e, summary[e].figures)
  /\ \A v \in versions[e] :
       /\ v[1] <= summary[e].version
       /\ v[1] = summary[e].version => Compared[v[2]] = Compared[summary[e].figures]
  /\ \A u, v \in versions[e] : u[1] = v[1] => Compared[u[2]] = Compared[v[2]]

\* What the worker read or wrote is still what is there, the status apart, which
\* a review may change; an approval it read still stands for what it read.
Computing(j) == j.step = "figures" \/ (j.step = "write" /\ j.op # "adjust")
JobAlone(j) ==
  /\ Computing(j) \/ j.step \in Owing =>
       j.copy.figures = summary[j.emp].figures /\ j.copy.version = summary[j.emp].version
  /\ Computing(j) /\ j.copy.status = "approved" => ReviewedAs(j.emp, j.copy.figures)

AloneInv ==
  /\ \A e \in Employees : RowAlone(e)
  /\ \A w \in Workers : JobAlone(job[w])

\* A step that leaves figures and versions and clears nothing by itself.
LEMMA AloneRowKept ==
  ASSUME NEW e \in Employees, RowAlone(e),
         summary'[e].figures = summary[e].figures, summary'[e].version = summary[e].version,
         versions'[e] = versions[e], reviewed'[e] = reviewed[e],
         summary'[e].status \in Cleared => summary[e].status \in Cleared
  PROVE  RowAlone(e)'
BY DEF RowAlone, ReviewedAs, Cleared, Frozen

\* The worker's step leaves the summaries alone.
LEMMA AloneJobSet ==
  ASSUME OneWorker, AloneInv, NEW w \in Workers, JobAlone(job[w])',
         UNCHANGED <<summary, versions, reviewed>>
  PROVE  AloneInv'
<1>1. ASSUME NEW e \in Employees PROVE RowAlone(e)'
  BY AloneRowKept DEF AloneInv
<1>2. ASSUME NEW v \in Workers PROVE JobAlone(job[v])'
  BY DEF OneWorker
<1> QED BY <1>1, <1>2 DEF AloneInv

\* A worker that is neither computing nor about to write a version.
LEMMA AloneIdle ==
  ASSUME NEW w \in Workers, job'[w].step \in {"idle", "read", "mark", "lock"}
  PROVE  JobAlone(job[w])'
BY DEF JobAlone, Computing, Owing

\* The worker begins, or reads its summary anew.
LEMMA AloneReads ==
  ASSUME OneWorker, SummaryInv, AloneInv, NEW w \in Workers,
         \/ \E op \in Jobs \ {"lock"}, e \in Employees : BeginJob(w, op, e)
         \/ ReadSummary(w)
         \/ ComputeFigures(w)
         \/ JobFails(w)
         \/ \E S \in SUBSET Employees : CheckBlockers(w, S)
  PROVE  AloneInv'
<1>0. UNCHANGED <<summary, versions, reviewed>>
      /\ \A e \in Employees : RowAlone(e)
  BY DEF BeginJob, ReadSummary, ComputeFigures, JobFails, CheckBlockers, AloneInv
<1>a. job = [v \in Workers |-> job[v]] /\ JobAlone(job[w])
  BY DEF SummaryInv, JobsInv, AloneInv
<1>1. ASSUME NEW op \in Jobs \ {"lock"}, NEW e \in Employees, BeginJob(w, op, e)
      PROVE  AloneInv'
  <2>1. job'[w].step = (IF op = "adjust" THEN "write" ELSE "read") /\ job'[w].op = op
    BY <1>1, <1>a DEF BeginJob, NewJob
  <2>2. JobAlone(job[w])'
    BY <2>1 DEF JobAlone, Computing, Owing
  <2> QED BY <1>0, <2>2, AloneJobSet
<1>2. CASE ReadSummary(w)
  <2> DEFINE e == job[w].emp
  <2>1. e \in Employees
    BY <1>2, JobOfEmployee DEF ReadSummary
  <2>2. CASE summary[e].status \notin Frozen
    <3>1. /\ job'[w].step = "figures" /\ job'[w].emp = e /\ job'[w].copy = summary[e]
      BY <1>2, <1>a, <2>2 DEF ReadSummary, NewJob
    <3>2. RowAlone(e)
      BY <1>0, <2>1
    <3>3. JobAlone(job[w])'
      BY <1>0, <3>1, <3>2 DEF JobAlone, RowAlone, ReviewedAs, Computing, Cleared
    <3> QED BY <1>0, <3>3, AloneJobSet
  <2>3. CASE summary[e].status \in Frozen
    <3>1. job'[w].step \in {"idle", "mark"}
      BY <1>2, <1>a, <2>3 DEF ReadSummary, NewJob, NoJob
    <3> QED BY <1>0, <3>1, AloneIdle, AloneJobSet
  <2> QED BY <2>2, <2>3
<1>3. CASE ComputeFigures(w)
  <2>1. job[w] \in JobRecords /\ job[w].step = "figures"
    BY <1>3, JobKind DEF ComputeFigures, SummaryInv, JobsInv
  <2>2. PICK f \in Figures : job'[w] = [job[w] EXCEPT !.step = "write", !.figures = f]
    BY <1>3, <1>a DEF ComputeFigures
  <2>3. /\ job'[w].step = "write" /\ job'[w].emp = job[w].emp /\ job'[w].copy = job[w].copy
    BY <2>1, <2>2 DEF JobRecords
  <2>4. JobAlone(job[w])'
    BY <1>0, <1>a, <2>1, <2>3 DEF JobAlone, Computing, Owing, ReviewedAs
  <2> QED BY <1>0, <2>4, AloneJobSet
<1>4. CASE JobFails(w)
  <2>1. job'[w].step = "idle"
    BY <1>4, <1>a DEF JobFails, NoJob
  <2> QED BY <1>0, <2>1, AloneIdle, AloneJobSet
<1>5. ASSUME NEW S \in SUBSET Employees, CheckBlockers(w, S) PROVE AloneInv'
  <2>1. job'[w].step = "lock"
    BY <1>5, <1>a DEF CheckBlockers
  <2> QED BY <1>0, <2>1, AloneIdle, AloneJobSet
<1> QED BY <1>1, <1>2, <1>3, <1>4, <1>5

\* The worker writes its summary: one version more, back to review, or the same
\* version of the same compared figures.
Advances(e, row) == row.version = summary[e].version + 1 /\ row.status \notin Cleared
Repeats(e, row) ==
  /\ row.version = summary[e].version /\ Compared[row.figures] = Compared[summary[e].figures]
  /\ row.status \in Cleared => ReviewedAs(e, row.figures)

LEMMA AloneWrites ==
  ASSUME OneWorker, SummaryInv, AloneInv, NEW w \in Workers, NEW e \in Employees,
         NEW row, summary' = [summary EXCEPT ![e] = row],
         UNCHANGED <<versions, reviewed>>, Advances(e, row) \/ Repeats(e, row),
         \/ job'[w].step \in {"idle", "mark"}
         \/ job'[w].step \in Owing /\ job'[w].emp = e /\ job'[w].copy = row
  PROVE  AloneInv'
<1>0. /\ RowAlone(e) /\ Filled(summary[e]) /\ summary[e] \in SummaryRows
      /\ \A d \in Employees : summary'[d] = IF d = e THEN row ELSE summary[d]
      /\ versions[e] \subseteq (1..MaxVersion) \X Figures
  BY DEF SummaryInv, TablesInv, AloneInv, Filled
<1>1. RowAlone(e)'
  <2>1. summary'[e] = row /\ UNCHANGED <<versions, reviewed>>
    BY <1>0
  <2>2. CASE Advances(e, row)
    <3>1. summary[e].version \in Nat
      BY <1>0, SummaryAssumption DEF SummaryRows
    <3>2. ASSUME NEW v \in versions[e] PROVE v[1] <= row.version /\ v[1] # row.version
      <4>1. v[1] \in Nat /\ v[1] <= summary[e].version
        <5>1. v \in (1..MaxVersion) \X Figures
          BY <1>0
        <5> QED BY <1>0, <5>1, SummaryAssumption DEF RowAlone
      <4> QED BY <2>2, <3>1, <4>1 DEF Advances
    <3> QED BY <1>0, <2>1, <2>2, <3>2 DEF RowAlone, Advances
  <2>3. CASE Repeats(e, row)
    BY <1>0, <2>1, <2>3 DEF RowAlone, Repeats, ReviewedAs
  <2> QED BY <2>2, <2>3
<1>2. ASSUME NEW d \in Employees PROVE RowAlone(d)'
  <2>1. CASE d = e
    BY <1>1, <2>1
  <2>2. CASE d # e
    BY <1>0, <2>2, AloneRowKept DEF AloneInv
  <2> QED BY <2>1, <2>2
<1>3. JobAlone(job[w])'
  <2>1. CASE job'[w].step \in {"idle", "mark"}
    BY <2>1, AloneIdle
  <2>2. CASE job'[w].step \in Owing /\ job'[w].emp = e /\ job'[w].copy = row
    <3>1. summary'[e] = row
      BY <1>0
    <3> QED BY <2>2, <3>1 DEF JobAlone, Computing, Owing
  <2> QED BY <2>1, <2>2
<1>4. ASSUME NEW v \in Workers PROVE JobAlone(job[v])'
  BY <1>3 DEF OneWorker
<1> QED BY <1>2, <1>4 DEF AloneInv

\* The same, for the statements that hand on the row they wrote.
LEMMA AloneWrote ==
  ASSUME OneWorker, SummaryInv, AloneInv, NEW w \in Workers, job[w].emp \in Employees,
         NEW row, NEW step \in AfterWrite, Wrote(w, row, step), UNCHANGED <<versions, reviewed>>,
         Advances(job[w].emp, row) \/ Repeats(job[w].emp, row)
  PROVE  AloneInv'
<1>1. job'[w] = After(job[w], step, row)
  BY DEF SummaryInv, JobsInv, Wrote, NewJob, After
<1>2. /\ job'[w].step = step /\ job'[w].emp = job[w].emp
      /\ step # "mark" => job'[w].copy = row
  BY <1>1 DEF After
<1>3. step = "mark" \/ step \in Owing
  BY DEF AfterWrite
<1>4. summary' = [summary EXCEPT ![job[w].emp] = row]
  BY DEF Wrote
<1>5. step \in Owing => step # "mark"
  BY DEF Owing
<1> QED BY <1>2, <1>3, <1>4, <1>5, AloneWrites

LEMMA AloneUpsert ==
  ASSUME OneWorker, SummaryInv, AloneInv, NEW w \in Workers, WriteSummary(w)
  PROVE  AloneInv'
<1> PICK j : j = job[w]
  OBVIOUS
<1> PICK row : row = Upserted(j)
  OBVIOUS
<1>1. /\ j \in JobRecords /\ JobOK(j) /\ j.emp \in Employees /\ j.step = "write" /\ j.op # "adjust"
      /\ UNCHANGED <<versions, reviewed>>
  BY WriteSummaryCases
<1>2. /\ j.copy.figures = summary[j.emp].figures /\ j.copy.version = summary[j.emp].version
      /\ j.copy.status \notin Frozen
      /\ j.copy.status = "approved" => ReviewedAs(j.emp, j.copy.figures)
  BY <1>1, JobKind DEF AloneInv, JobAlone, Computing
<1>3. Advances(j.emp, row) \/ Repeats(j.emp, row)
  <2>1. CASE Changed(j)
    BY <1>2, <2>1 DEF Upserted, Advances, Cleared, Frozen
  <2>2. CASE ~Changed(j)
    <3>1. /\ row.version = j.copy.version /\ row.status = j.copy.status
          /\ Compared[row.figures] = Compared[j.copy.figures]
      BY <2>2 DEF Upserted, Changed
    <3> QED BY <1>2, <3>1 DEF Repeats, ReviewedAs, Cleared
  <2> QED BY <2>1, <2>2
<1>4. CASE Wrote(w, row, "version") \/ Wrote(w, row, "mark")
  BY <1>1, <1>3, <1>4, AloneWrote DEF AfterWrite, Owing
<1>5. CASE /\ summary' = [summary EXCEPT ![j.emp] = row]
           /\ job' = [job EXCEPT ![w] = NoJob]
  <2>1. job'[w].step = "idle"
    BY <1>5 DEF SummaryInv, JobsInv, NoJob
  <2> QED BY <1>1, <1>3, <1>5, <2>1, AloneWrites
<1> QED BY <1>4, <1>5, WriteSummaryCases

LEMMA AloneAdjusts ==
  ASSUME OneWorker, SummaryInv, AloneInv, NEW w \in Workers, WriteAdjustment(w)
  PROVE  AloneInv'
<1>1. job[w].emp \in Employees
  BY JobOfEmployee DEF WriteAdjustment
<1>2. PICK f \in Figures :
        Wrote(w, [status |-> "pending_review", figures |-> f,
                  version |-> summary[job[w].emp].version + 1], "last_version")
  BY DEF WriteAdjustment
<1>3. PICK row : row = [status |-> "pending_review", figures |-> f,
                        version |-> summary[job[w].emp].version + 1]
  OBVIOUS
<1>4. Advances(job[w].emp, row)
  BY <1>3 DEF Advances, Cleared, Frozen
<1>5. Wrote(w, row, "last_version") /\ UNCHANGED <<versions, reviewed>>
  BY <1>2, <1>3 DEF WriteAdjustment
<1> QED BY <1>1, <1>4, <1>5, AloneWrote DEF AfterWrite, Owing

LEMMA AloneMarks ==
  ASSUME OneWorker, SummaryInv, AloneInv, NEW w \in Workers, MarkRecomputed(w)
  PROVE  AloneInv'
<1>1. job[w].emp \in Employees
  BY JobOfEmployee DEF MarkRecomputed
<1> PICK now : now = summary[job[w].emp]
  OBVIOUS
<1>2. now \in SummaryRows /\ RowAlone(job[w].emp)
  BY <1>1 DEF SummaryInv, TablesInv, Filled, AloneInv
<1>3. PICK row : row = [now EXCEPT !.status = IF @ \in {"draft", "rejected"} THEN "pending_review"
                                              ELSE @]
  OBVIOUS
<1>4. /\ row.version = now.version /\ row.figures = now.figures
      /\ row.status \in Cleared => now.status \in Cleared
  BY <1>2, <1>3 DEF SummaryRows, Cleared, Frozen
<1>5. Repeats(job[w].emp, row)
  BY <1>2, <1>4 DEF RowAlone, Repeats
<1>6. Wrote(w, row, "last_version") /\ UNCHANGED <<versions, reviewed>>
  BY <1>3 DEF MarkRecomputed
<1> QED BY <1>1, <1>5, <1>6, AloneWrote DEF AfterWrite, Owing

\* The version row that a worker writes is that of the summary as it stands.
LEMMA AloneVersion ==
  ASSUME OneWorker, SummaryInv, AloneInv, NEW w \in Workers, WriteVersion(w)
  PROVE  AloneInv'
<1> PICK j : j = job[w]
  OBVIOUS
<1>1. /\ j.emp \in Employees /\ j.step \in Owing
      /\ j.copy.figures = summary[j.emp].figures /\ j.copy.version = summary[j.emp].version
  BY JobOfEmployee DEF WriteVersion, AloneInv, JobAlone, Owing
<1>2. PICK pair : pair = <<summary[j.emp].version, summary[j.emp].figures>>
  OBVIOUS
<1>3. versions' = [versions EXCEPT ![j.emp] = @ \cup {pair}] /\ UNCHANGED <<summary, reviewed>>
  BY <1>1, <1>2 DEF WriteVersion
<1>4. ASSUME NEW e \in Employees PROVE RowAlone(e)'
  <2>1. /\ RowAlone(e) /\ summary[e].version \in 0..MaxVersion
        /\ versions'[e] = IF e = j.emp THEN versions[e] \cup {pair} ELSE versions[e]
    BY <1>3 DEF AloneInv, SummaryInv, TablesInv, Filled, SummaryRows
  <2>2. CASE e # j.emp
    BY <1>3, <2>1, <2>2, AloneRowKept
  <2>3. CASE e = j.emp
    <3>1. pair[1] = summary[e].version /\ pair[2] = summary[e].figures
      BY <1>2, <2>3
    <3>2. ASSUME NEW v \in versions'[e]
          PROVE  /\ v[1] <= summary[e].version
                 /\ v[1] = summary[e].version => Compared[v[2]] = Compared[summary[e].figures]
      BY <2>1, <2>3, <3>1, SummaryAssumption DEF RowAlone
    <3>3. ASSUME NEW u \in versions'[e], NEW v \in versions'[e], u[1] = v[1]
          PROVE  Compared[u[2]] = Compared[v[2]]
      <4>1. CASE u = pair \/ v = pair
        BY <3>1, <3>2, <3>3, <4>1
      <4>2. CASE u # pair /\ v # pair
        BY <2>1, <3>3, <4>2 DEF RowAlone
      <4> QED BY <4>1, <4>2
    <3> QED BY <1>3, <2>1, <3>2, <3>3 DEF RowAlone, ReviewedAs
  <2> QED BY <2>2, <2>3
<1>5. job'[w].step \in {"idle", "mark"}
  BY DEF SummaryInv, JobsInv, WriteVersion, NewJob, NoJob
<1>6. ASSUME NEW v \in Workers PROVE JobAlone(job[v])'
  BY <1>5, AloneIdle DEF OneWorker
<1> QED BY <1>4, <1>6 DEF AloneInv

\* Reviews, the lock and the processing of a run: the figures and the version of
\* a summary stay, and what they clear has been reviewed.
RowSettles(e) ==
  /\ summary'[e].figures = summary[e].figures /\ summary'[e].version = summary[e].version
  /\ summary'[e].status \in Cleared => ReviewedAs(e, summary[e].figures)'
  /\ reviewed'[e] # reviewed[e] => ReviewedAs(e, summary[e].figures)'

LEMMA AloneSettles ==
  ASSUME AloneInv, UNCHANGED versions, NEW e \in Employees, RowSettles(e)
  PROVE  RowAlone(e)'
BY DEF AloneInv, RowAlone, RowSettles, ReviewedAs

LEMMA AloneReviews ==
  ASSUME SummaryInv, AloneInv, UNCHANGED <<versions, job>>,
         \A e \in Employees : RowSettles(e)
  PROVE  AloneInv'
<1>1. ASSUME NEW w \in Workers PROVE JobAlone(job[w])'
  <2>1. PICK j : j = job[w]
    OBVIOUS
  <2>2. JobAlone(j) /\ JobOK(j) /\ job'[w] = j
    BY <2>1 DEF AloneInv, SummaryInv, JobsInv
  <2>3. CASE Computing(j) \/ j.step \in Owing
    <3>1. j.emp \in Employees
      BY <2>2, <2>3, JobKind DEF Computing, Owing
    <3>2. RowSettles(j.emp)
      BY <3>1
    <3> QED BY <2>2, <2>3, <3>2 DEF JobAlone, RowSettles, ReviewedAs
  <2>4. CASE ~(Computing(j) \/ j.step \in Owing)
    BY <2>2, <2>4 DEF JobAlone, Computing
  <2> QED BY <2>3, <2>4
<1> QED BY <1>1, AloneSettles DEF AloneInv

LEMMA AloneLocks ==
  ASSUME OneWorker, SummaryInv, AloneInv, NEW w \in Workers, LockApproved(w)
  PROVE  AloneInv'
<1>1. ASSUME NEW e \in Employees PROVE RowSettles(e)
  <2>1. /\ RowAlone(e) /\ summary[e] \in SummaryRows /\ UNCHANGED reviewed
        /\ \/ summary'[e] = summary[e]
           \/ /\ summary[e].status = "approved"
              /\ summary'[e] = [summary[e] EXCEPT !.status = "payroll_locked"]
    BY DEF LockApproved, AloneInv, SummaryInv, TablesInv, Filled
  <2>2. /\ summary'[e].figures = summary[e].figures /\ summary'[e].version = summary[e].version
        /\ summary'[e].status \in Cleared => summary[e].status \in Cleared
    BY <2>1 DEF SummaryRows, Cleared
  <2> QED BY <2>1, <2>2 DEF RowSettles, RowAlone, ReviewedAs
<1>2. job'[w] = NoJob /\ UNCHANGED versions
  BY DEF LockApproved, SummaryInv, JobsInv
<1>3. ASSUME NEW v \in Workers PROVE JobAlone(job[v])'
  BY <1>2, AloneIdle DEF OneWorker, NoJob
<1> QED BY <1>1, <1>3, <1>2, AloneSettles DEF AloneInv

LEMMA AloneReviewStep ==
  ASSUME SummaryInv, AloneInv, NEW d \in Employees, ReviewStep(d)
  PROVE  AloneInv'
<1>0. \A e \in Employees : RowAlone(e) /\ summary[e] \in SummaryRows
  BY DEF AloneInv, SummaryInv, TablesInv, Filled
<1>1. ASSUME NEW from, NEW to, Review(d, from, to),
             to \in Cleared => ReviewedAs(d, summary[d].figures)',
             reviewed'[d] # reviewed[d] => ReviewedAs(d, summary[d].figures)',
             \A e \in Employees \ {d} : reviewed'[e] = reviewed[e]
      PROVE  AloneInv'
  <2>1. UNCHANGED <<versions, job>>
    BY <1>1 DEF Review
  <2>2. ASSUME NEW e \in Employees PROVE RowSettles(e)
    <3>1. summary = [c \in Employees |-> summary[c]]
      BY DEF SummaryInv, TablesInv
    <3>2. CASE e = d
      <4>1. summary'[e] = [summary[e] EXCEPT !.status = to]
        BY <1>1, <3>1, <3>2 DEF Review
      <4>2. /\ summary'[e].status = to /\ summary'[e].figures = summary[e].figures
            /\ summary'[e].version = summary[e].version
        BY <1>0, <4>1 DEF SummaryRows
      <4> QED BY <1>1, <3>2, <4>2 DEF RowSettles
    <3>3. CASE e # d
      <4>1. summary'[e] = summary[e] /\ reviewed'[e] = reviewed[e]
        BY <1>1, <3>1, <3>3 DEF Review
      <4> QED BY <1>0, <4>1 DEF RowSettles, RowAlone, ReviewedAs
    <3> QED BY <3>2, <3>3
  <2> QED BY <2>1, <2>2, AloneReviews
<1>2. CASE ApproveSummary(d)
  <2>1. /\ summary[d].status = "pending_review" /\ summary[d] \in SummaryRows
        /\ summary[d].figures \in Figures
    BY <1>2 DEF ApproveSummary, Review, SummaryInv, TablesInv, Filled
  <2>2. reviewed'[d] = summary[d].figures /\ \A e \in Employees \ {d} : reviewed'[e] = reviewed[e]
    BY <1>2 DEF ApproveSummary, SummaryInv, TablesInv
  <2>3. summary'[d].figures = summary[d].figures
    BY <1>2, <2>1 DEF ApproveSummary, Review, SummaryInv, TablesInv, SummaryRows
  <2>4. ReviewedAs(d, summary[d].figures)'
    BY <2>1, <2>2, <2>3, SummaryAssumption DEF ReviewedAs
  <2> QED BY <1>1, <1>2, <2>2, <2>4 DEF ApproveSummary
<1>3. CASE UnlockSummary(d)
  <2>1. ReviewedAs(d, summary[d].figures) /\ UNCHANGED reviewed
    BY <1>0, <1>3 DEF UnlockSummary, Review, RowAlone, Cleared, Frozen
  <2>2. summary'[d].figures = summary[d].figures
    BY <1>0, <1>3 DEF UnlockSummary, Review, SummaryInv, TablesInv, SummaryRows
  <2>3. ReviewedAs(d, summary[d].figures)'
    BY <2>1, <2>2 DEF ReviewedAs
  <2> QED BY <1>1, <1>3, <2>1, <2>3 DEF UnlockSummary
<1>4. CASE RejectSummary(d)
  BY <1>1, <1>4 DEF RejectSummary, Cleared, Frozen
<1>5. CASE RequestCorrection(d)
  BY <1>1, <1>5 DEF RequestCorrection, Cleared, Frozen
<1>6. CASE CancelSummary(d)
  BY <1>1, <1>6 DEF CancelSummary, Cleared, Frozen
<1> QED BY <1>2, <1>3, <1>4, <1>5, <1>6 DEF ReviewStep

LEMMA AloneProcesses ==
  ASSUME SummaryInv, RunInv, AloneInv, NEW r \in Runs, ProcessRun(r)
  PROVE  AloneInv'
<1>1. ProcessMoves(r) /\ UNCHANGED <<versions, reviewed, job>>
  BY RunProcessed DEF ProcessRun
<1>2. ASSUME NEW e \in Employees PROVE RowSettles(e)
  <2>1. /\ RowAlone(e) /\ summary[e] \in SummaryRows
        /\ \/ summary'[e] = summary[e]
           \/ /\ summary[e].status = "payroll_locked"
              /\ summary'[e] = [summary[e] EXCEPT !.status = "payroll_processed"]
    BY <1>1 DEF ProcessMoves, AloneInv, SummaryInv, TablesInv, Filled
  <2>2. /\ summary'[e].figures = summary[e].figures /\ summary'[e].version = summary[e].version
        /\ summary'[e].status \in Cleared => summary[e].status \in Cleared
    BY <2>1 DEF SummaryRows, Cleared, Frozen
  <2> QED BY <1>1, <2>1, <2>2 DEF RowSettles, RowAlone, ReviewedAs
<1> QED BY <1>1, <1>2, AloneReviews

LEMMA AloneInit == PayrollInit => AloneInv
BY SummaryAssumption
   DEF PayrollInit, SummaryInit, AbsentRow, NoJob, AloneInv, RowAlone, JobAlone, Computing, Owing,
       Cleared, Frozen

LEMMA AloneStep ==
  ASSUME OneWorker, PayrollInv, AloneInv, [PayrollNext]_payrollVars
  PROVE  AloneInv'
<1>0. SummaryInv /\ RunInv /\ FineTypeOK
  BY DEF PayrollInv
<1>1. CASE UNCHANGED summaryVars
  BY <1>1 DEF AloneInv, RowAlone, JobAlone, ReviewedAs, summaryVars
<1>2. CASE SummaryNext
  <2>1. ASSUME NEW w \in Workers, StartJob(w) PROVE AloneInv'
    BY <1>0, <2>1, AloneReads DEF StartJob
  <2>2. ASSUME NEW w \in Workers, WorkerStep(w) PROVE AloneInv'
    BY <1>0, <2>2, AloneReads, AloneUpsert, AloneAdjusts, AloneVersion, AloneMarks, AloneLocks
       DEF WorkerStep
  <2> QED BY <1>0, <1>2, <2>1, <2>2, AloneReviewStep DEF SummaryNext
<1>3. ASSUME NEW r \in Runs, RunStep(r) PROVE AloneInv'
  BY <1>0, <1>1, <1>3, RunCreated, RunGenerating, RunCommitted, AloneProcesses DEF RunStep
<1> QED BY <1>1, <1>2, <1>3 DEF PayrollNext, SummariesMove, FinesMove, payrollVars

LEMMA AloneHold == ASSUME OneWorker PROVE PayrollSpec => []AloneInv
<1>1. PayrollInv /\ AloneInv /\ [PayrollNext]_payrollVars => AloneInv'
  BY AloneStep
<1> QED BY <1>1, AloneInit, InvHolds, PTL DEF PayrollSpec

\* With one request at a time on the summaries, and however computes, recomputes,
\* adjustments, reviews, locks and runs follow each other or die half way, what
\* is approved, locked or processed is what a reviewer approved, in the fields
\* that compute compares: whatever changes those sends the summary back to
\* review.
THEOREM ReviewedStands ==
  ASSUME OneWorker PROVE PayrollSpec => []ApprovedWasReviewed
<1>1. AloneInv => ApprovedWasReviewed
  BY DEF AloneInv, RowAlone, ReviewedAs, ApprovedWasReviewed, Cleared
<1> QED BY <1>1, AloneHold, PTL

\* Then a version number stands for one set of compared figures: whatever
\* changes those counts the version up.
THEOREM VersionsDistinct ==
  ASSUME OneWorker PROVE PayrollSpec => []VersionNamesFigures
<1>1. AloneInv => VersionNamesFigures
  BY DEF AloneInv, RowAlone, VersionNamesFigures
<1> QED BY <1>1, AloneHold, PTL
=============================================================================
