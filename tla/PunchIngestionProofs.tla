------------------------ MODULE PunchIngestionProofs ------------------------
(***************************************************************************)
(* Safety of PunchIngestion, for any number of punches, batches, sync jobs *)
(* and workers, and any faults: its types, and that a punch the cursor has *)
(* passed is never forgotten.                                              *)
(***************************************************************************)
EXTENDS PunchIngestion, TLAPS

\* A punch is safe once it is registered, given up by an error, or in a batch
\* that a job or a buffered row holds.
Safe(p) ==
  p \in fingerprints \cup lost \/ \E b \in Batches : p \in content[b] /\ Held(b)

\* A batch without punches has not been used anywhere.
Unused(b) ==
  /\ job[b].status = "none" /\ row[b].status = "none"
  /\ b \notin list /\ b \notin drain.todo /\ b # drain.batch
  /\ \A s \in SyncJobs : sync[s].batch # b
  /\ \A w \in PunchWorkers : worker[w].batch # b
EmptyIsUnused == \A b \in Batches : content[b] = {} => Unused(b)

\* The punches of a completed job are registered.
CompletedIsKnown ==
  \A b \in Batches : job[b].status = "completed" => content[b] \subseteq fingerprints

\* What a worker has left to register, and what it has registered.
WorkersOK ==
  \A w \in PunchWorkers :
    LET b == worker[w].batch IN
    /\ worker[w].step \in {"select", "register", "punches", "write", "done"} => b \in Batches
    /\ worker[w].step = "register" => content[b] \ worker[w].todo \subseteq fingerprints
    /\ worker[w].step \in {"punches", "write", "done"} => content[b] \subseteq fingerprints

\* What a sync job is about to let the cursor pass is safe, or in its batch
\* until that has been handed over.
SyncsOK ==
  \A s \in SyncJobs :
    /\ sync[s].step # "idle" => sync[s].batch \in Batches
    /\ sync[s].step \in {"submit", "persist"} =>
         \A p \in 1..sync[s].upto : Safe(p) \/ p \in content[sync[s].batch]
    /\ sync[s].step \in {"push", "advance"} => \A p \in 1..sync[s].upto : Safe(p)

\* A row is marked as queued only after its job was added, and has an attempt
\* left until then.
DrainOK ==
  /\ \A b \in drain.todo : row[b].attempts < MaxDrains
  /\ drain.step \in {"popped", "mark"} => drain.batch \in Batches
  /\ drain.step = "mark" =>
       /\ drain.batch \notin drain.todo
       /\ row[drain.batch].attempts < MaxDrains /\ job[drain.batch].status # "none"

\* The inductive invariant.
PunchInv ==
  /\ PunchTypeOK /\ HandedOver
  /\ EmptyIsUnused /\ CompletedIsKnown /\ WorkersOK /\ SyncsOK /\ DrainOK
-----------------------------------------------------------------------------
(* What an assignment to one row leaves of a table.                         *)

\* A job set, by the queue or its workers.
LEMMA JobSet ==
  ASSUME PunchTypeOK, NEW b \in Batches,
         NEW st \in {"none", "waiting", "active", "completed", "failed"},
         NEW n \in 0..MaxAttempts, job' = [job EXCEPT ![b] = Entry(st, n)]
  PROVE  /\ job' \in [Batches -> Jobs]
         /\ job'[b].status = st
         /\ \A c \in Batches \ {b} : job'[c] = job[c]
BY DEF PunchTypeOK, Jobs, Entry

\* A job added: only a batch that has none gets one.
LEMMA JobAdded ==
  ASSUME PunchTypeOK, NEW b \in Batches, Add(b)
  PROVE  /\ job' \in [Batches -> Jobs]
         /\ job'[b].status # "none"
         /\ job[b].status # "none" => job'[b] = job[b]
         /\ job[b].status = "none" => job'[b].status = "waiting"
         /\ \A c \in Batches \ {b} : job'[c] = job[c]
<1>1. CASE job[b].status = "none"
  <2>1. job' = [job EXCEPT ![b] = Entry("waiting", 0)]
    BY <1>1 DEF Add
  <2>2. 0 \in 0..MaxAttempts
    BY PunchAssumption
  <2> QED BY <1>1, <2>1, <2>2, JobSet
<1>2. CASE job[b].status # "none"
  BY <1>2 DEF Add, PunchTypeOK
<1> QED BY <1>1, <1>2

\* A row of the buffer set.
LEMMA RowSet ==
  ASSUME PunchTypeOK, NEW b \in Batches,
         NEW st \in {"none", "buffered", "queued", "processed", "failed"},
         NEW n \in 0..MaxDrains, row' = [row EXCEPT ![b] = Entry(st, n)]
  PROVE  /\ row' \in [Batches -> BufferRows]
         /\ row'[b].status = st /\ row'[b].attempts = n
         /\ \A c \in Batches \ {b} : row'[c] = row[c]
BY DEF PunchTypeOK, BufferRows, Entry

\* A sync job set.
LEMMA SyncSet ==
  ASSUME PunchTypeOK, NEW s \in SyncJobs, NEW e \in SyncRows, sync' = [sync EXCEPT ![s] = e]
  PROVE  /\ sync' \in [SyncJobs -> SyncRows]
         /\ sync'[s] = e
         /\ \A r \in SyncJobs \ {s} : sync'[r] = sync[r]
BY DEF PunchTypeOK

\* A worker set.
LEMMA WorkerSet ==
  ASSUME PunchTypeOK, NEW w \in PunchWorkers, NEW e \in PunchJobs,
         worker' = [worker EXCEPT ![w] = e]
  PROVE  /\ worker' \in [PunchWorkers -> PunchJobs]
         /\ worker'[w] = e
         /\ \A v \in PunchWorkers \ {w} : worker'[v] = worker[v]
BY DEF PunchTypeOK

\* A sync job at rest.
LEMMA SyncEntryType ==
  ASSUME NEW st \in {"none", "waiting", "active", "completed", "failed"}, NEW n \in 0..MaxAttempts
  PROVE  /\ SyncEntry(st, n) \in SyncRows
         /\ SyncEntry(st, n).step = "idle" /\ SyncEntry(st, n).batch = NoBatch
BY PunchAssumption DEF SyncEntry, SyncRows

\* A sync job at work.
LEMMA SyncActiveType ==
  ASSUME NEW n \in 0..MaxAttempts, NEW step \in {"idle", "submit", "persist", "push", "advance"},
         NEW b \in {NoBatch} \cup Batches, NEW upto \in 0..MaxPunches
  PROVE  [status |-> "active", attempts |-> n, step |-> step, batch |-> b, upto |-> upto] \in SyncRows
BY DEF SyncRows

\* A worker's state.
LEMMA WorkType ==
  ASSUME NEW step \in {"idle", "select", "register", "punches", "write", "done", "retry", "resolve"},
         NEW b \in {NoBatch} \cup Batches, NEW todo \in SUBSET Punches,
         NEW unknown \in SUBSET Punches, NEW read \in SUBSET Punches
  PROVE  /\ Work(step, b, todo, unknown, read) \in PunchJobs
         /\ Work(step, b, todo, unknown, read).step = step
         /\ Work(step, b, todo, unknown, read).batch = b
         /\ Work(step, b, todo, unknown, read).todo = todo
BY DEF Work, PunchJobs

\* The fields of the tables.
LEMMA FieldTypes ==
  ASSUME PunchTypeOK
  PROVE  /\ \A b \in Batches :
              /\ job[b].status \in {"none", "waiting", "active", "completed", "failed"}
              /\ job[b].attempts \in 0..MaxAttempts
              /\ row[b].status \in {"none", "buffered", "queued", "processed", "failed"}
              /\ row[b].attempts \in 0..MaxDrains
         /\ \A s \in SyncJobs :
              /\ sync[s].attempts \in 0..MaxAttempts
              /\ sync[s].step \in {"idle", "submit", "persist", "push", "advance"}
              /\ sync[s].batch \in {NoBatch} \cup Batches
              /\ sync[s].upto \in 0..MaxPunches
         /\ \A w \in PunchWorkers :
              /\ worker[w].step \in {"idle", "select", "register", "punches", "write", "done", "retry", "resolve"}
              /\ worker[w].batch \in {NoBatch} \cup Batches
              /\ worker[w].todo \in SUBSET Punches
              /\ worker[w].unknown \in SUBSET Punches
              /\ worker[w].read \in SUBSET Punches
         /\ drain.step \in {"idle", "pop", "popped", "select", "rows", "mark"}
         /\ drain.batch \in {NoBatch} \cup Batches
         /\ drain.todo \in SUBSET Batches
<1>1. \A b \in Batches : job[b] \in Jobs /\ row[b] \in BufferRows
  BY DEF PunchTypeOK
<1>2. \A s \in SyncJobs : sync[s] \in SyncRows
  BY DEF PunchTypeOK
<1>3. \A w \in PunchWorkers : worker[w] \in PunchJobs
  BY DEF PunchTypeOK
<1>4. drain \in Drains
  BY DEF PunchTypeOK
<1>5. \A b \in Batches :
        /\ job[b].status \in {"none", "waiting", "active", "completed", "failed"}
        /\ job[b].attempts \in 0..MaxAttempts
        /\ row[b].status \in {"none", "buffered", "queued", "processed", "failed"}
        /\ row[b].attempts \in 0..MaxDrains
  BY <1>1 DEF Jobs, BufferRows
<1>6. \A s \in SyncJobs :
        /\ sync[s].attempts \in 0..MaxAttempts
        /\ sync[s].step \in {"idle", "submit", "persist", "push", "advance"}
        /\ sync[s].batch \in {NoBatch} \cup Batches
        /\ sync[s].upto \in 0..MaxPunches
  BY <1>2 DEF SyncRows
<1>7. \A w \in PunchWorkers :
        /\ worker[w].step \in {"idle", "select", "register", "punches", "write", "done", "retry", "resolve"}
        /\ worker[w].batch \in {NoBatch} \cup Batches
        /\ worker[w].todo \in SUBSET Punches
        /\ worker[w].unknown \in SUBSET Punches
        /\ worker[w].read \in SUBSET Punches
  BY <1>3 DEF PunchJobs
<1>8. /\ drain.step \in {"idle", "pop", "popped", "select", "rows", "mark"}
      /\ drain.batch \in {NoBatch} \cup Batches
      /\ drain.todo \in SUBSET Batches
  BY <1>4 DEF Drains
<1> QED BY <1>5, <1>6, <1>7, <1>8

-----------------------------------------------------------------------------
(* What no step takes back.                                                 *)

\* Registered and lost punches stay so, and batches keep their punches.
Grows ==
  /\ fingerprints \subseteq fingerprints' /\ lost \subseteq lost'
  /\ \A b \in Batches : content[b] \subseteq content'[b]

\* A batch is let go only once its punches are registered.
HoldsOn == \A b \in Batches : Held(b) => Held(b)' \/ content[b] \subseteq fingerprints

\* So a safe punch stays safe.
LEMMA SafeStays ==
  ASSUME Grows, HoldsOn, NEW p, Safe(p)
  PROVE  Safe(p)'
<1>1. CASE p \in fingerprints \cup lost
  BY <1>1 DEF Safe, Grows
<1>2. CASE \E b \in Batches : p \in content[b] /\ Held(b)
  <2>1. PICK b \in Batches : p \in content[b] /\ Held(b)
    BY <1>2
  <2>2. p \in content'[b]
    BY <2>1 DEF Grows
  <2>3. CASE Held(b)'
    BY <2>2, <2>3 DEF Safe
  <2>4. CASE content[b] \subseteq fingerprints
    BY <2>1, <2>4 DEF Safe, Grows
  <2> QED BY <2>1, <2>3, <2>4 DEF HoldsOn
<1> QED BY <1>1, <1>2 DEF Safe

\* A step that leaves the source alone lets the cursor pass nothing.
LEMMA SourceFrame ==
  ASSUME PunchInv, Grows, HoldsOn, UNCHANGED sourceVars
  PROVE  HandedOver' /\ SyncsOK'
<1>1. \A p \in 1..cursor : Safe(p)'
  BY SafeStays DEF PunchInv, HandedOver, Safe
<1>2. cursor' = cursor /\ sync' = sync /\ content' = content
  BY DEF sourceVars
<1>3. HandedOver'
  BY <1>1, <1>2 DEF HandedOver, Safe
<1>4. ASSUME NEW s \in SyncJobs
      PROVE  /\ sync[s].step \in {"submit", "persist"} =>
                  \A p \in 1..sync[s].upto : Safe(p)' \/ p \in content[sync[s].batch]
             /\ sync[s].step \in {"push", "advance"} => \A p \in 1..sync[s].upto : Safe(p)'
  BY SafeStays DEF PunchInv, SyncsOK
<1>5. \A s \in SyncJobs : sync[s].step # "idle" => sync[s].batch \in Batches
  BY DEF PunchInv, SyncsOK
<1> QED BY <1>2, <1>3, <1>4, <1>5 DEF SyncsOK

\* A step that leaves the workers and the batches alone leaves them sound.
LEMMA WorkerFrame ==
  ASSUME PunchInv, fingerprints \subseteq fingerprints', UNCHANGED <<worker, content>>
  PROVE  WorkersOK'
BY DEF PunchInv, WorkersOK

\* A job that was added stays in the queue.
KeepsJobs == \A b \in Batches : job[b].status # "none" => job'[b].status # "none"
LEMMA DrainFrame ==
  ASSUME PunchInv, KeepsJobs, UNCHANGED drain,
         \A b \in Batches : row'[b].attempts < MaxDrains \/ row'[b].attempts = row[b].attempts
  PROVE  DrainOK'
BY FieldTypes DEF PunchInv, DrainOK, KeepsJobs

\* No job is completed by the step.
LEMMA CompletedFrame ==
  ASSUME PunchInv, fingerprints \subseteq fingerprints', UNCHANGED content,
         \A b \in Batches : job'[b].status = "completed" => job[b].status = "completed"
  PROVE  CompletedIsKnown'
BY DEF PunchInv, CompletedIsKnown

\* A job or row of another state holds its batch as well.
LEMMA JobsFrame ==
  ASSUME PunchInv, KeepsJobs, UNCHANGED row,
         \A b \in Batches : job'[b].status \in {"none", "waiting", "active", "completed", "failed"},
         \A b \in Batches : job'[b].status = "completed" => job[b].status = "completed"
  PROVE  HoldsOn
BY DEF HoldsOn, Held, KeepsJobs

-----------------------------------------------------------------------------
(* The sync job.                                                            *)

\* A new punch changes nothing else.
LEMMA PunchKeeps ==
  ASSUME PunchInv, Punch
  PROVE  PunchInv'
<1>1. UNCHANGED <<cursor, sync, content, job, row, list, drain, fingerprints, entries, review,
                  unmapped, worker, faults, lost>>
  BY DEF Punch, bufferVars, recordVars
<1>2. PunchTypeOK'
  BY <1>1, PunchAssumption DEF PunchInv, PunchTypeOK, Punch
<1> QED BY <1>1, <1>2 DEF PunchInv, HandedOver, Held, EmptyIsUnused, Unused, CompletedIsKnown,
          WorkersOK, SyncsOK, Safe, DrainOK

\* What a sync step that leaves cursor and batches alone has to show.
LEMMA SyncFrame ==
  ASSUME PunchInv, Grows, HoldsOn, NEW s \in SyncJobs, NEW e \in SyncRows,
         sync' = [sync EXCEPT ![s] = e], UNCHANGED <<cursor, content>>,
         e.step # "idle" => e.batch \in Batches,
         e.step \in {"submit", "persist"} =>
           \A p \in 1..e.upto : Safe(p)' \/ p \in content[e.batch],
         e.step \in {"push", "advance"} => \A p \in 1..e.upto : Safe(p)'
  PROVE  HandedOver' /\ SyncsOK'
<1>1. \A p \in 1..cursor : Safe(p)'
  BY SafeStays DEF PunchInv, HandedOver, Safe
<1>2. HandedOver'
  BY <1>1 DEF HandedOver, Safe
<1>3. sync'[s] = e /\ \A r \in SyncJobs \ {s} : sync'[r] = sync[r]
  BY SyncSet DEF PunchInv
<1>4. ASSUME NEW r \in SyncJobs
      PROVE  /\ sync[r].step # "idle" => sync[r].batch \in Batches
             /\ sync[r].step \in {"submit", "persist"} =>
                  \A p \in 1..sync[r].upto : Safe(p)' \/ p \in content[sync[r].batch]
             /\ sync[r].step \in {"push", "advance"} => \A p \in 1..sync[r].upto : Safe(p)'
  BY SafeStays DEF PunchInv, SyncsOK
<1>5. SyncsOK'
  BY <1>3, <1>4 DEF SyncsOK
<1> QED BY <1>2, <1>5

\* Nothing but sync jobs changes: the batches are held as before.
LEMMA NothingMoves ==
  ASSUME UNCHANGED <<content, job, row, fingerprints, lost>>
  PROVE  Grows /\ HoldsOn /\ KeepsJobs
BY DEF Grows, HoldsOn, Held, KeepsJobs

\* A sync job that starts over or ends, and has no batch.
LEMMA SyncRests ==
  ASSUME PunchInv, NEW s \in SyncJobs,
         NEW st \in {"none", "waiting", "active", "completed", "failed"},
         NEW n \in 0..MaxAttempts, sync' = [sync EXCEPT ![s] = SyncEntry(st, n)],
         UNCHANGED <<available, cursor, content, job, bufferVars, recordVars, worker, lost>>,
         faults' \in 0..MaxFaults
  PROVE  PunchInv'
<1> DEFINE e == SyncEntry(st, n)
<1>1. e \in SyncRows /\ e.step = "idle" /\ e.batch = NoBatch
  BY SyncEntryType
<1>2. /\ UNCHANGED <<available, cursor, content, job, row, list, drain, fingerprints, entries,
                     review, unmapped, worker, lost>>
      /\ Grows /\ HoldsOn /\ KeepsJobs
  BY NothingMoves DEF bufferVars, recordVars
<1>3. sync' \in [SyncJobs -> SyncRows] /\ sync'[s] = e
      /\ \A r \in SyncJobs \ {s} : sync'[r] = sync[r]
  BY <1>1, SyncSet DEF PunchInv
<1>4. PunchTypeOK'
  BY <1>2, <1>3 DEF PunchInv, PunchTypeOK
<1> HIDE DEF e
<1>5. HandedOver' /\ SyncsOK'
  <2>1. sync' = [sync EXCEPT ![s] = e]
    BY DEF e
  <2> QED BY <1>1, <1>2, <2>1, SyncFrame
<1>6. EmptyIsUnused'
  <2>1. \A b \in Batches : b # NoBatch
    BY DEF Batches, NoBatch
  <2> QED BY <1>1, <1>2, <1>3, <2>1 DEF PunchInv, EmptyIsUnused, Unused
<1>7. CompletedIsKnown' /\ WorkersOK' /\ DrainOK'
  BY <1>2, WorkerFrame, DrainFrame, CompletedFrame
<1> QED BY <1>4, <1>5, <1>6, <1>7 DEF PunchInv

\* A sync job is enqueued.
LEMMA EnqueueSyncKeeps ==
  ASSUME PunchInv, NEW s \in SyncJobs, EnqueueSync(s)
  PROVE  PunchInv'
<1>1. 0 \in 0..MaxAttempts /\ faults \in 0..MaxFaults
  BY PunchAssumption DEF PunchInv, PunchTypeOK
<1>2. sync' = [sync EXCEPT ![s] = SyncEntry("waiting", 0)]
  BY DEF EnqueueSync
<1> QED BY <1>1, <1>2, SyncRests DEF EnqueueSync

\* A sync job fails and is tried again, or is failed.
LEMMA SyncFailsKeeps ==
  ASSUME PunchInv, NEW s \in SyncJobs, SyncFails(s)
  PROVE  PunchInv'
<1> DEFINE n == sync[s].attempts + 1
           st == IF n < MaxAttempts THEN "waiting" ELSE "failed"
<1>1. sync[s].attempts \in 0..MaxAttempts
  BY FieldTypes DEF PunchInv
<1>2. n \in 0..MaxAttempts /\ faults' \in 0..MaxFaults
  BY <1>1, PunchAssumption DEF SyncFails, Fault, PunchInv, PunchTypeOK
<1>3. st \in {"none", "waiting", "active", "completed", "failed"}
  OBVIOUS
<1>4. sync' = [sync EXCEPT ![s] = SyncEntry(st, n)]
  BY DEF SyncFails
<1>5. UNCHANGED <<available, cursor, content, job, bufferVars, recordVars, worker, lost>>
  BY DEF SyncFails
<1> HIDE DEF n, st
<1> QED BY <1>2, <1>3, <1>4, <1>5, SyncRests

\* A sync job starts: there is nothing to fetch, or it fills an unused batch.
LEMMA StartSyncKeeps ==
  ASSUME PunchInv, NEW s \in SyncJobs, StartSync(s)
  PROVE  PunchInv'
<1> DEFINE upto == IF available < cursor + BatchSize THEN available ELSE cursor + BatchSize
<1>1. available \in 0..MaxPunches /\ cursor \in 0..MaxPunches /\ faults \in 0..MaxFaults
  BY DEF PunchInv, PunchTypeOK
<1>2. upto \in Nat /\ (upto > cursor => upto \in 0..MaxPunches)
  BY <1>1, PunchAssumption
<1>3. /\ UNCHANGED <<available, cursor, job, bufferVars, recordVars, worker, faults, lost>>
      /\ UNCHANGED <<row, list, drain, fingerprints, entries, review, unmapped>>
  BY DEF StartSync, bufferVars, recordVars
<1>4. CASE upto <= cursor
  <2>1. sync' = [sync EXCEPT ![s] = SyncEntry("completed", 0)] /\ UNCHANGED content
    BY <1>4 DEF StartSync
  <2>2. 0 \in 0..MaxAttempts
    BY PunchAssumption
  <2> QED BY <1>1, <1>3, <2>1, <2>2, SyncRests
<1>5. CASE ~(upto <= cursor)
  <2>1. PICK b \in Batches :
          /\ content[b] = {}
          /\ content' = [content EXCEPT ![b] = (cursor + 1)..upto]
          /\ sync' = [sync EXCEPT ![s] = [status |-> "active", attempts |-> @.attempts,
                                          step |-> "submit", batch |-> b, upto |-> upto]]
    BY <1>5 DEF StartSync
  <2> DEFINE e == [status |-> "active", attempts |-> sync[s].attempts,
                   step |-> "submit", batch |-> b, upto |-> upto]
  <2>2. upto \in 0..MaxPunches /\ cursor + 1 \in (cursor + 1)..upto
    BY <1>1, <1>2, <1>5
  <2>3. sync[s].attempts \in 0..MaxAttempts
    BY FieldTypes DEF PunchInv
  <2> HIDE DEF upto
  <2>4. e \in SyncRows
    BY <2>2, <2>3, SyncActiveType
  <2>5. e.step = "submit" /\ e.batch = b /\ e.upto = upto
    OBVIOUS
  <2>6. sync' = [sync EXCEPT ![s] = e]
    BY <2>1 DEF PunchInv, PunchTypeOK
  <2> HIDE DEF e
  <2>7. sync' \in [SyncJobs -> SyncRows] /\ sync'[s] = e
        /\ \A r \in SyncJobs \ {s} : sync'[r] = sync[r]
    BY <2>4, <2>6, SyncSet DEF PunchInv
  <2>8. (cursor + 1)..upto \subseteq Punches
    BY <1>1, <2>2, PunchAssumption DEF Punches
  <2>9. /\ content' \in [Batches -> SUBSET Punches]
        /\ content'[b] = (cursor + 1)..upto
        /\ \A c \in Batches \ {b} : content'[c] = content[c]
    BY <2>1, <2>8 DEF PunchInv, PunchTypeOK
  <2>10. PunchTypeOK'
    BY <1>3, <2>7, <2>9 DEF PunchInv, PunchTypeOK
  <2>11. Grows
    BY <1>3, <2>1, <2>9 DEF Grows
  <2>12. HoldsOn
    BY <1>3 DEF HoldsOn, Held
  <2>13. Unused(b)
    BY <2>1 DEF PunchInv, EmptyIsUnused
  <2>14. ASSUME NEW p \in 1..upto, ~Safe(p)'
         PROVE  p \in content'[b]
    <3>1. p \notin 1..cursor
      BY <2>14, <2>11, <2>12, SafeStays DEF PunchInv, HandedOver, Safe
    <3> QED BY <1>1, <2>2, <2>9, <3>1
  <2>15. HandedOver'
    <3>1. \A p \in 1..cursor : Safe(p)'
      BY <2>11, <2>12, SafeStays DEF PunchInv, HandedOver, Safe
    <3> QED BY <1>3, <3>1 DEF HandedOver, Safe
  <2>16. SyncsOK'
    <3>1. ASSUME NEW r \in SyncJobs \ {s}
          PROVE  /\ sync[r].step # "idle" => sync[r].batch \in Batches
                 /\ sync[r].step \in {"submit", "persist"} =>
                      \A p \in 1..sync[r].upto : Safe(p)' \/ p \in content'[sync[r].batch]
                 /\ sync[r].step \in {"push", "advance"} => \A p \in 1..sync[r].upto : Safe(p)'
      <4>1. sync[r].batch # b
        BY <2>13 DEF Unused
      <4>2. /\ sync[r].step # "idle" => sync[r].batch \in Batches
            /\ sync[r].step \in {"submit", "persist"} =>
                 \A p \in 1..sync[r].upto : Safe(p)' \/ p \in content[sync[r].batch]
            /\ sync[r].step \in {"push", "advance"} => \A p \in 1..sync[r].upto : Safe(p)'
        BY <2>11, <2>12, SafeStays DEF PunchInv, SyncsOK
      <4>3. sync[r].step \in {"submit", "persist"} => sync[r].step # "idle"
        OBVIOUS
      <4> QED BY <2>9, <4>1, <4>2, <4>3
    <3>2. /\ e.step # "idle" => e.batch \in Batches
          /\ e.step \in {"submit", "persist"} =>
               \A p \in 1..e.upto : Safe(p)' \/ p \in content'[e.batch]
          /\ e.step \notin {"push", "advance"}
      BY <2>5, <2>14
    <3>3. \A r \in SyncJobs \ {s} : sync'[r] = sync[r]
      BY <2>7
    <3> QED BY <2>7, <3>1, <3>2, <3>3 DEF SyncsOK
  <2>17. EmptyIsUnused'
    <3>1. content'[b] # {}
      BY <2>2, <2>9
    <3>2. ASSUME NEW c \in Batches, content'[c] = {}
          PROVE  Unused(c)'
      <4>1. c # b /\ Unused(c)
        BY <2>9, <3>1, <3>2 DEF PunchInv, EmptyIsUnused
      <4> QED BY <1>3, <2>5, <2>7, <4>1 DEF Unused
    <3> QED BY <3>2 DEF EmptyIsUnused
  <2>18. CompletedIsKnown'
    <3>1. job[b].status = "none"
      BY <2>13 DEF Unused
    <3> QED BY <1>3, <2>9, <3>1 DEF PunchInv, CompletedIsKnown
  <2>19. WorkersOK'
    <3>1. \A w \in PunchWorkers : worker[w].batch # b
      BY <2>13 DEF Unused
    <3> QED BY <1>3, <2>9, <3>1 DEF PunchInv, WorkersOK
  <2>20. DrainOK'
    BY <1>3 DEF PunchInv, DrainOK
  <2> QED BY <2>10, <2>15, <2>16, <2>17, <2>18, <2>19, <2>20 DEF PunchInv
<1> QED BY <1>4, <1>5

\* What the fields of a job that is past its start are.
LEMMA GotoSets ==
  ASSUME PunchInv, NEW s \in SyncJobs, NEW step \in {"submit", "persist", "push", "advance"},
         Goto(s, step), sync[s].step # "idle"
  PROVE  \E e \in SyncRows :
           /\ sync' = [sync EXCEPT ![s] = e]
           /\ e.step = step /\ e.batch = sync[s].batch /\ e.upto = sync[s].upto
           /\ e.batch \in Batches
<1> DEFINE e == [status |-> "active", attempts |-> sync[s].attempts,
                 step |-> step, batch |-> sync[s].batch, upto |-> sync[s].upto]
<1>1. sync[s].batch \in Batches
  BY DEF PunchInv, SyncsOK
<1>2. sync[s].attempts \in 0..MaxAttempts /\ sync[s].upto \in 0..MaxPunches
  BY FieldTypes DEF PunchInv
<1>3. e \in SyncRows
  BY <1>1, <1>2, SyncActiveType
<1>4. e.step = step /\ e.batch = sync[s].batch /\ e.upto = sync[s].upto
  OBVIOUS
<1>5. sync' = [sync EXCEPT ![s] = e]
  BY DEF Goto, PunchInv, PunchTypeOK
<1> QED BY <1>1, <1>3, <1>4, <1>5

\* A sync step that keeps its batch keeps empty batches unused.
LEMMA EmptyFrame ==
  ASSUME PunchInv, NEW s \in SyncJobs, sync[s].batch \in Batches, sync'[s].batch = sync[s].batch,
         \A r \in SyncJobs \ {s} : sync'[r] = sync[r],
         UNCHANGED <<content, drain, worker>>,
         \A b \in Batches \ {sync[s].batch} :
           job'[b] = job[b] /\ row'[b] = row[b] /\ (b \in list' => b \in list)
  PROVE  EmptyIsUnused'
<1>1. ASSUME NEW b \in Batches, content'[b] = {}
      PROVE  Unused(b)'
  <2>1. Unused(b)
    BY <1>1 DEF PunchInv, EmptyIsUnused
  <2>2. b # sync[s].batch
    BY <2>1 DEF Unused
  <2> QED BY <2>1, <2>2 DEF Unused
<1> QED BY <1>1 DEF EmptyIsUnused

\* A batch that is held, or whose job was added, is safe.
LEMMA HeldIsSafe ==
  ASSUME NEW b \in Batches, Held(b)', NEW p \in content'[b]
  PROVE  Safe(p)'
BY DEF Safe

\* A batch is submitted to the queue, or is to be buffered.
LEMMA SubmitKeeps ==
  ASSUME PunchInv, NEW s \in SyncJobs, Submit(s)
  PROVE  PunchInv'
<1>0. sync[s].batch \in Batches /\ sync[s].step = "submit"
  BY DEF Submit, PunchInv, SyncsOK
<1>1. PICK b \in Batches : b = sync[s].batch
  BY <1>0
<1>2. /\ UNCHANGED <<available, cursor, content, row, list, drain, fingerprints, entries,
                     review, unmapped, worker, lost>>
  BY DEF Submit, bufferVars, recordVars
<1>3. \A p \in 1..sync[s].upto : Safe(p) \/ p \in content[b]
  BY <1>0, <1>1 DEF PunchInv, SyncsOK
<1>4. CASE Add(b) /\ Goto(s, "advance") /\ UNCHANGED faults
  <2>1. PICK e \in SyncRows :
          /\ sync' = [sync EXCEPT ![s] = e]
          /\ e.step = "advance" /\ e.batch = b /\ e.upto = sync[s].upto
    BY <1>0, <1>1, <1>4, GotoSets
  <2>2. sync' \in [SyncJobs -> SyncRows] /\ sync'[s] = e
        /\ \A r \in SyncJobs \ {s} : sync'[r] = sync[r]
    BY <2>1, SyncSet DEF PunchInv
  <2>3. /\ job' \in [Batches -> Jobs]
        /\ job'[b].status # "none"
        /\ job[b].status # "none" => job'[b] = job[b]
        /\ job[b].status = "none" => job'[b].status = "waiting"
        /\ \A c \in Batches \ {b} : job'[c] = job[c]
    BY <1>1, <1>4, JobAdded DEF PunchInv
  <2>4. PunchTypeOK'
    BY <1>2, <1>4, <2>2, <2>3 DEF PunchInv, PunchTypeOK
  <2>5. Grows /\ KeepsJobs
    BY <1>2, <2>3 DEF Grows, KeepsJobs
  <2>6. \A c \in Batches : job'[c].status = "completed" => job[c].status = "completed"
    BY <1>1, <2>3
  <2>7. HoldsOn
    BY <1>2, <2>3 DEF HoldsOn, Held
  <2>8. Held(b)' \/ content[b] \subseteq fingerprints
    <3>1. job'[b].status \in {"waiting", "active", "failed", "completed"}
      BY <1>1, <2>3, <2>4, FieldTypes DEF PunchInv
    <3>2. job'[b].status = "completed" => content[b] \subseteq fingerprints
      BY <1>1, <2>6 DEF PunchInv, CompletedIsKnown
    <3> QED BY <3>1, <3>2 DEF Held
  <2>9. \A p \in content[b] : Safe(p)'
    BY <1>1, <1>2, <2>8, HeldIsSafe DEF Safe
  <2>10. \A p \in 1..e.upto : Safe(p)'
    BY <1>3, <2>1, <2>5, <2>7, <2>9, SafeStays
  <2>11. HandedOver' /\ SyncsOK'
    BY <1>1, <1>2, <2>1, <2>5, <2>7, <2>10, SyncFrame
  <2>12. EmptyIsUnused'
    BY <1>1, <1>2, <2>1, <2>2, <2>3, EmptyFrame
  <2>13. CompletedIsKnown' /\ WorkersOK' /\ DrainOK'
    BY <1>2, <2>5, <2>6, CompletedFrame, WorkerFrame, DrainFrame
  <2> QED BY <2>4, <2>11, <2>12, <2>13 DEF PunchInv
<1>5. CASE Fault("queue") /\ Goto(s, "persist") /\ UNCHANGED job
  <2>1. PICK e \in SyncRows :
          /\ sync' = [sync EXCEPT ![s] = e]
          /\ e.step = "persist" /\ e.batch = b /\ e.upto = sync[s].upto
    BY <1>0, <1>1, <1>5, GotoSets
  <2>2. sync' \in [SyncJobs -> SyncRows] /\ sync'[s] = e
        /\ \A r \in SyncJobs \ {s} : sync'[r] = sync[r]
    BY <2>1, SyncSet DEF PunchInv
  <2>3. faults' \in 0..MaxFaults
    BY <1>5, PunchAssumption DEF Fault, PunchInv, PunchTypeOK
  <2>4. PunchTypeOK'
    BY <1>2, <1>5, <2>2, <2>3 DEF PunchInv, PunchTypeOK
  <2>5. Grows /\ HoldsOn /\ KeepsJobs
    BY <1>2, <1>5, NothingMoves
  <2>6. \A p \in 1..e.upto : Safe(p)' \/ p \in content[e.batch]
    BY <1>3, <2>1, <2>5, SafeStays
  <2>7. HandedOver' /\ SyncsOK'
    BY <1>1, <1>2, <2>1, <2>5, <2>6, SyncFrame
  <2>8. EmptyIsUnused'
    BY <1>1, <1>2, <1>5, <2>1, <2>2, EmptyFrame
  <2>9. CompletedIsKnown' /\ WorkersOK' /\ DrainOK'
    BY <1>2, <1>5, <2>5, CompletedFrame, WorkerFrame, DrainFrame
  <2> QED BY <2>4, <2>7, <2>8, <2>9 DEF PunchInv
<1> QED BY <1>0, <1>1, <1>4, <1>5 DEF Submit

\* The buffer's row is inserted, or its punches are lost.
LEMMA PersistKeeps ==
  ASSUME PunchInv, NEW s \in SyncJobs, Persist(s)
  PROVE  PunchInv'
<1>0. sync[s].batch \in Batches /\ sync[s].step = "persist"
  BY DEF Persist, PunchInv, SyncsOK
<1>1. PICK b \in Batches : b = sync[s].batch
  BY <1>0
<1>2. UNCHANGED <<available, cursor, content, job, list, drain, fingerprints, entries, review,
                  unmapped, worker>>
  BY DEF Persist, recordVars
<1>3. \A p \in 1..sync[s].upto : Safe(p) \/ p \in content[b]
  BY <1>0, <1>1 DEF PunchInv, SyncsOK
<1>4. CASE row' = [row EXCEPT ![b] = Entry("buffered", 0)] /\ Goto(s, "push")
           /\ UNCHANGED <<faults, lost>>
  <2>1. PICK e \in SyncRows :
          /\ sync' = [sync EXCEPT ![s] = e]
          /\ e.step = "push" /\ e.batch = b /\ e.upto = sync[s].upto
    BY <1>0, <1>1, <1>4, GotoSets
  <2>2. sync' \in [SyncJobs -> SyncRows] /\ sync'[s] = e
        /\ \A r \in SyncJobs \ {s} : sync'[r] = sync[r]
    BY <2>1, SyncSet DEF PunchInv
  <2>3. 0 \in 0..MaxDrains /\ 0 < MaxDrains
    BY PunchAssumption
  <2>4. /\ row' \in [Batches -> BufferRows]
        /\ row'[b].status = "buffered" /\ row'[b].attempts < MaxDrains
        /\ \A c \in Batches \ {b} : row'[c] = row[c]
    <3>1. /\ row' \in [Batches -> BufferRows]
          /\ row'[b].status = "buffered" /\ row'[b].attempts = 0
          /\ \A c \in Batches \ {b} : row'[c] = row[c]
      BY <1>4, <2>3, RowSet DEF PunchInv
    <3> QED BY <2>3, <3>1
  <2>5. PunchTypeOK'
    BY <1>2, <1>4, <2>2, <2>4 DEF PunchInv, PunchTypeOK
  <2>6. Grows /\ KeepsJobs
    BY <1>2, <1>4 DEF Grows, KeepsJobs
  <2>7. HoldsOn
    BY <1>2, <2>4 DEF HoldsOn, Held
  <2>8. \A p \in content[b] : Safe(p)'
    BY <1>1, <1>2, <2>4 DEF Safe, Held
  <2>9. \A p \in 1..e.upto : Safe(p)'
    BY <1>3, <2>1, <2>6, <2>7, <2>8, SafeStays
  <2>10. HandedOver' /\ SyncsOK'
    BY <1>1, <1>2, <2>1, <2>6, <2>7, <2>9, SyncFrame
  <2>11. EmptyIsUnused'
    BY <1>1, <1>2, <2>1, <2>2, <2>4, EmptyFrame
  <2>12. CompletedIsKnown' /\ WorkersOK' /\ DrainOK'
    BY <1>2, <2>4, <2>6, CompletedFrame, WorkerFrame, DrainFrame
  <2> QED BY <2>5, <2>10, <2>11, <2>12 DEF PunchInv
<1>5. CASE Fault("insert") /\ lost' = lost \cup content[b] /\ Goto(s, "advance") /\ UNCHANGED row
  <2>1. PICK e \in SyncRows :
          /\ sync' = [sync EXCEPT ![s] = e]
          /\ e.step = "advance" /\ e.batch = b /\ e.upto = sync[s].upto
    BY <1>0, <1>1, <1>5, GotoSets
  <2>2. sync' \in [SyncJobs -> SyncRows] /\ sync'[s] = e
        /\ \A r \in SyncJobs \ {s} : sync'[r] = sync[r]
    BY <2>1, SyncSet DEF PunchInv
  <2>3. faults' \in 0..MaxFaults
    BY <1>5, PunchAssumption DEF Fault, PunchInv, PunchTypeOK
  <2>4. lost' \in SUBSET Punches
    BY <1>1, <1>5 DEF PunchInv, PunchTypeOK
  <2>5. PunchTypeOK'
    BY <1>2, <1>5, <2>2, <2>3, <2>4 DEF PunchInv, PunchTypeOK
  <2>6. Grows /\ KeepsJobs /\ HoldsOn
    BY <1>2, <1>5 DEF Grows, KeepsJobs, HoldsOn, Held
  <2>7. \A p \in content[b] : Safe(p)'
    BY <1>5 DEF Safe
  <2>8. \A p \in 1..e.upto : Safe(p)'
    BY <1>3, <2>1, <2>6, <2>7, SafeStays
  <2>9. HandedOver' /\ SyncsOK'
    BY <1>1, <1>2, <2>1, <2>6, <2>8, SyncFrame
  <2>10. EmptyIsUnused'
    BY <1>1, <1>2, <1>5, <2>1, <2>2, EmptyFrame
  <2>11. CompletedIsKnown' /\ WorkersOK' /\ DrainOK'
    BY <1>2, <1>5, <2>6, CompletedFrame, WorkerFrame, DrainFrame DEF Grows
  <2> QED BY <2>5, <2>9, <2>10, <2>11 DEF PunchInv
<1> QED BY <1>1, <1>4, <1>5 DEF Persist

\* The batch is pushed to the buffer's list, or not.
LEMMA PushKeeps ==
  ASSUME PunchInv, NEW s \in SyncJobs, Push(s)
  PROVE  PunchInv'
<1>0. sync[s].batch \in Batches /\ sync[s].step = "push"
  BY DEF Push, PunchInv, SyncsOK
<1>1. PICK b \in Batches : b = sync[s].batch
  BY <1>0
<1>2. UNCHANGED <<available, cursor, content, job, row, drain, fingerprints, entries, review,
                  unmapped, worker, lost>>
  BY DEF Push, recordVars
<1>3. \A p \in 1..sync[s].upto : Safe(p)
  BY <1>0 DEF PunchInv, SyncsOK
<1>4. /\ list' \subseteq list \cup {b} /\ faults' \in 0..MaxFaults
  BY <1>1, PunchAssumption DEF Push, Fault, PunchInv, PunchTypeOK
<1>5. PICK e \in SyncRows :
        /\ sync' = [sync EXCEPT ![s] = e]
        /\ e.step = "advance" /\ e.batch = b /\ e.upto = sync[s].upto
  BY <1>0, <1>1, GotoSets DEF Push
<1>6. sync' \in [SyncJobs -> SyncRows] /\ sync'[s] = e
      /\ \A r \in SyncJobs \ {s} : sync'[r] = sync[r]
  BY <1>5, SyncSet DEF PunchInv
<1>7. PunchTypeOK'
  BY <1>1, <1>2, <1>4, <1>6 DEF PunchInv, PunchTypeOK
<1>8. Grows /\ HoldsOn /\ KeepsJobs
  BY <1>2, NothingMoves
<1>9. \A p \in 1..e.upto : Safe(p)'
  BY <1>3, <1>5, <1>8, SafeStays
<1>10. HandedOver' /\ SyncsOK'
  BY <1>1, <1>2, <1>5, <1>8, <1>9, SyncFrame
<1>11. EmptyIsUnused'
  BY <1>1, <1>2, <1>4, <1>5, <1>6, EmptyFrame
<1>12. CompletedIsKnown' /\ WorkersOK' /\ DrainOK'
  BY <1>2, <1>8, CompletedFrame, WorkerFrame, DrainFrame
<1> QED BY <1>7, <1>10, <1>11, <1>12 DEF PunchInv

\* The cursor passes what the job has handed over.
LEMMA AdvanceCursorKeeps ==
  ASSUME PunchInv, NEW s \in SyncJobs, AdvanceCursor(s)
  PROVE  PunchInv'
<1>1. UNCHANGED <<available, content, job, row, list, drain, fingerprints, entries, review,
                  unmapped, worker, faults, lost>>
  BY DEF AdvanceCursor, bufferVars, recordVars
<1>2. cursor' = sync[s].upto /\ sync' = [sync EXCEPT ![s] = SyncEntry("completed", 0)]
  BY DEF AdvanceCursor
<1> DEFINE e == SyncEntry("completed", 0)
<1>3. e \in SyncRows /\ e.step = "idle" /\ e.batch = NoBatch
  BY SyncEntryType, PunchAssumption
<1>4. sync' \in [SyncJobs -> SyncRows] /\ sync'[s] = e
      /\ \A r \in SyncJobs \ {s} : sync'[r] = sync[r]
  BY <1>2, <1>3, SyncSet DEF PunchInv
<1> HIDE DEF e
<1>5. sync[s].upto \in 0..MaxPunches
  BY FieldTypes DEF PunchInv
<1>6. PunchTypeOK'
  BY <1>1, <1>2, <1>4, <1>5 DEF PunchInv, PunchTypeOK
<1>7. Grows /\ HoldsOn /\ KeepsJobs
  BY <1>1, NothingMoves
<1>8. \A p \in 1..sync[s].upto : Safe(p)'
  BY <1>7, SafeStays DEF AdvanceCursor, PunchInv, SyncsOK
<1>9. HandedOver'
  BY <1>2, <1>8 DEF HandedOver, Safe
<1>10. SyncsOK'
  <2>1. ASSUME NEW r \in SyncJobs
        PROVE  /\ sync[r].step # "idle" => sync[r].batch \in Batches
               /\ sync[r].step \in {"submit", "persist"} =>
                    \A p \in 1..sync[r].upto : Safe(p)' \/ p \in content[sync[r].batch]
               /\ sync[r].step \in {"push", "advance"} => \A p \in 1..sync[r].upto : Safe(p)'
    BY <1>7, SafeStays DEF PunchInv, SyncsOK
  <2> QED BY <1>1, <1>3, <1>4, <2>1 DEF SyncsOK
<1>11. EmptyIsUnused'
  <2>1. \A b \in Batches : b # NoBatch
    BY DEF Batches, NoBatch
  <2> QED BY <1>1, <1>3, <1>4, <2>1 DEF PunchInv, EmptyIsUnused, Unused
<1>12. CompletedIsKnown' /\ WorkersOK' /\ DrainOK'
  BY <1>1, <1>7, CompletedFrame, WorkerFrame, DrainFrame
<1> QED BY <1>6, <1>9, <1>10, <1>11, <1>12 DEF PunchInv

-----------------------------------------------------------------------------
(* The drain.                                                               *)

\* What a step of the drain has to show.
LEMMA DrainStepKeeps ==
  ASSUME PunchInv, UNCHANGED <<sourceVars, recordVars, worker, lost>>, HoldsOn,
         job' \in [Batches -> Jobs], row' \in [Batches -> BufferRows], list' \in SUBSET Batches,
         drain' \in Drains, faults' \in 0..MaxFaults,
         \A b \in Batches : job'[b].status = "completed" => job[b].status = "completed",
         \A b \in Batches : content[b] = {} =>
           /\ job'[b] = job[b] /\ row'[b] = row[b] /\ b \notin list'
           /\ b \notin drain'.todo /\ b # drain'.batch,
         DrainOK'
  PROVE  PunchInv'
<1>1. UNCHANGED <<available, cursor, sync, content, fingerprints, entries, review, unmapped,
                  worker, lost>>
  BY DEF sourceVars, recordVars
<1>2. PunchTypeOK'
  BY <1>1 DEF PunchInv, PunchTypeOK
<1>3. Grows
  BY <1>1 DEF Grows
<1>4. HandedOver' /\ SyncsOK'
  BY <1>3, SourceFrame
<1>5. EmptyIsUnused'
  BY <1>1 DEF PunchInv, EmptyIsUnused, Unused
<1>6. CompletedIsKnown' /\ WorkersOK'
  BY <1>1, CompletedFrame, WorkerFrame
<1> QED BY <1>2, <1>4, <1>5, <1>6 DEF PunchInv

\* A batch in use has punches.
LEMMA UsedHasPunches ==
  ASSUME PunchInv
  PROVE  \A b \in Batches : content[b] = {} =>
           /\ b \notin list /\ b \notin drain.todo /\ b # drain.batch /\ ~Due(b)
           /\ job[b].status = "none" /\ row[b].status = "none"
BY DEF PunchInv, EmptyIsUnused, Unused, Due

\* The drain at a step, with no rows selected.
LEMMA DrainAtType ==
  ASSUME NEW step \in {"idle", "pop", "popped", "select", "rows", "mark"},
         NEW b \in {NoBatch} \cup Batches
  PROVE  /\ DrainAt(step, b) \in Drains
         /\ DrainAt(step, b).step = step /\ DrainAt(step, b).batch = b
         /\ DrainAt(step, b).todo = {}
BY DEF DrainAt, Drains

\* The drain begins, ends or dies: nothing else changes.
LEMMA DrainRests ==
  ASSUME PunchInv, NEW step \in {"idle", "pop", "select"}, drain' = DrainAt(step, NoBatch),
         UNCHANGED <<sourceVars, job, row, list, recordVars, worker, lost>>,
         faults' \in 0..MaxFaults
  PROVE  PunchInv'
<1>1. drain' \in Drains /\ drain'.step = step /\ drain'.batch = NoBatch /\ drain'.todo = {}
  BY DrainAtType
<1>2. HoldsOn
  BY DEF HoldsOn, Held
<1>3. /\ job' \in [Batches -> Jobs] /\ row' \in [Batches -> BufferRows]
      /\ list' \in SUBSET Batches
  BY DEF PunchInv, PunchTypeOK
<1>4. \A b \in Batches : b # NoBatch
  BY DEF Batches, NoBatch
<1>5. DrainOK'
  BY <1>1 DEF DrainOK
<1> QED BY <1>1, <1>2, <1>3, <1>4, <1>5, UsedHasPunches, DrainStepKeeps

\* The drain finds rows that are due.
LEMMA BeginDrainKeeps ==
  ASSUME PunchInv, BeginDrain
  PROVE  PunchInv'
<1>1. faults' \in 0..MaxFaults
  BY DEF PunchInv, PunchTypeOK, BeginDrain
<1> QED BY <1>1, DrainRests DEF BeginDrain

\* The drain is through.
LEMMA EndDrainKeeps ==
  ASSUME PunchInv, EndDrain
  PROVE  PunchInv'
<1>1. faults' \in 0..MaxFaults
  BY DEF PunchInv, PunchTypeOK, EndDrain
<1> QED BY <1>1, DrainRests DEF EndDrain, DrainIdle

\* The drain dies.
LEMMA DrainDiesKeeps ==
  ASSUME PunchInv, DrainDies
  PROVE  PunchInv'
<1>1. faults' \in 0..MaxFaults
  BY PunchAssumption DEF PunchInv, PunchTypeOK, DrainDies, Fault
<1> QED BY <1>1, DrainRests DEF DrainDies, DrainIdle

\* A batch is popped: its row still holds it.
LEMMA PopListKeeps ==
  ASSUME PunchInv, PopList
  PROVE  PunchInv'
<1>1. PICK b \in list : list' = list \ {b} /\ drain' = DrainAt("popped", b)
  BY DEF PopList
<1>2. /\ b \in Batches /\ faults' \in 0..MaxFaults /\ list' \in SUBSET Batches
      /\ job' \in [Batches -> Jobs] /\ row' \in [Batches -> BufferRows]
  BY <1>1 DEF PunchInv, PunchTypeOK, PopList
<1>3. drain' \in Drains /\ drain'.step = "popped" /\ drain'.batch = b /\ drain'.todo = {}
  BY <1>1, <1>2, DrainAtType
<1>4. /\ UNCHANGED <<sourceVars, recordVars, worker, lost>> /\ job' = job /\ row' = row
      /\ HoldsOn
  BY DEF PopList, HoldsOn, Held
<1>5. content[b] # {}
  BY <1>1, <1>2, UsedHasPunches
<1>6. DrainOK'
  BY <1>2, <1>3 DEF DrainOK
<1> QED BY <1>1, <1>2, <1>3, <1>4, <1>5, <1>6, UsedHasPunches, DrainStepKeeps

\* The popped batch is added, or put back.
LEMMA EnqueuePoppedKeeps ==
  ASSUME PunchInv, EnqueuePopped
  PROVE  PunchInv'
<1>1. PICK b \in Batches : b = drain.batch
  BY DEF EnqueuePopped, PunchInv, DrainOK
<1>2. UNCHANGED <<sourceVars, recordVars, worker, lost>> /\ row' = row
  BY DEF EnqueuePopped
<1>3. content[b] # {}
  BY <1>1, UsedHasPunches
<1>4. /\ list \in SUBSET Batches /\ faults \in 0..MaxFaults
      /\ row' \in [Batches -> BufferRows]
  BY <1>2 DEF PunchInv, PunchTypeOK
<1>5. \A c \in Batches : c # NoBatch
  BY DEF Batches, NoBatch
<1>6. CASE Add(b) /\ drain' = DrainAt("pop", NoBatch) /\ UNCHANGED <<list, faults>>
  <2>1. drain' \in Drains /\ drain'.step = "pop" /\ drain'.batch = NoBatch /\ drain'.todo = {}
    BY <1>6, DrainAtType
  <2>2. /\ job' \in [Batches -> Jobs]
        /\ job'[b].status # "none"
        /\ job[b].status # "none" => job'[b] = job[b]
        /\ job[b].status = "none" => job'[b].status = "waiting"
        /\ \A c \in Batches \ {b} : job'[c] = job[c]
    BY <1>6, JobAdded DEF PunchInv
  <2>3. HoldsOn /\ \A c \in Batches : job'[c].status = "completed" => job[c].status = "completed"
    BY <1>2, <2>2 DEF HoldsOn, Held
  <2>4. DrainOK'
    BY <2>1 DEF DrainOK
  <2> QED BY <1>2, <1>3, <1>4, <1>5, <1>6, <2>1, <2>2, <2>3, <2>4, UsedHasPunches, DrainStepKeeps
<1>7. CASE /\ Fault("queue") /\ list' = list \cup {b}
           /\ drain' = DrainAt("select", NoBatch) /\ UNCHANGED job
  <2>1. drain' \in Drains /\ drain'.step = "select" /\ drain'.batch = NoBatch /\ drain'.todo = {}
    BY <1>7, DrainAtType
  <2>2. HoldsOn /\ job' \in [Batches -> Jobs]
    BY <1>2, <1>7 DEF HoldsOn, Held, PunchInv, PunchTypeOK
  <2>3. faults' \in 0..MaxFaults /\ list' \in SUBSET Batches
    BY <1>4, <1>7, PunchAssumption DEF Fault
  <2>4. DrainOK'
    BY <2>1 DEF DrainOK
  <2> QED BY <1>2, <1>3, <1>4, <1>5, <1>7, <2>1, <2>2, <2>3, <2>4, UsedHasPunches, DrainStepKeeps
<1> QED BY <1>1, <1>6, <1>7 DEF EnqueuePopped

\* The due rows are selected.
LEMMA SelectRowsKeeps ==
  ASSUME PunchInv, SelectRows
  PROVE  PunchInv'
<1> DEFINE todo == {b \in Batches : Due(b)}
<1>1. drain' = [step |-> "rows", batch |-> NoBatch, todo |-> todo]
  BY DEF SelectRows
<1>2. drain' \in Drains /\ drain'.step = "rows" /\ drain'.batch = NoBatch /\ drain'.todo = todo
  BY <1>1 DEF Drains
<1>3. /\ UNCHANGED <<sourceVars, recordVars, worker, lost>> /\ job' = job /\ row' = row
      /\ list' = list /\ HoldsOn
  BY DEF SelectRows, HoldsOn, Held
<1>4. /\ job' \in [Batches -> Jobs] /\ row' \in [Batches -> BufferRows]
      /\ list' \in SUBSET Batches /\ faults' \in 0..MaxFaults
  BY DEF SelectRows, PunchInv, PunchTypeOK
<1>5. \A b \in todo : b \in Batches /\ Due(b)
  OBVIOUS
<1>6. DrainOK'
  BY <1>2, <1>3, <1>5 DEF DrainOK, Due
<1>7. \A b \in Batches : b # NoBatch
  BY DEF Batches, NoBatch
<1> HIDE DEF todo
<1> QED BY <1>2, <1>3, <1>4, <1>5, <1>6, <1>7, UsedHasPunches, DrainStepKeeps

\* A selected batch is added.
LEMMA EnqueueRowKeeps ==
  ASSUME PunchInv, EnqueueRow
  PROVE  PunchInv'
<1>1. PICK b \in drain.todo :
        Add(b) /\ drain' = [step |-> "mark", batch |-> b, todo |-> drain.todo \ {b}]
  BY DEF EnqueueRow
<1>2. drain.todo \in SUBSET Batches /\ b \in Batches
  BY <1>1, FieldTypes DEF PunchInv
<1>3. /\ drain' \in Drains /\ drain'.step = "mark" /\ drain'.batch = b
      /\ drain'.todo = drain.todo \ {b}
  BY <1>1, <1>2 DEF Drains
<1>4. UNCHANGED <<sourceVars, recordVars, worker, lost>> /\ row' = row /\ list' = list
  BY DEF EnqueueRow
<1>5. /\ row' \in [Batches -> BufferRows] /\ list' \in SUBSET Batches /\ faults' \in 0..MaxFaults
  BY DEF EnqueueRow, PunchInv, PunchTypeOK
<1>6. /\ job' \in [Batches -> Jobs]
      /\ job'[b].status # "none"
      /\ job[b].status # "none" => job'[b] = job[b]
      /\ job[b].status = "none" => job'[b].status = "waiting"
      /\ \A c \in Batches \ {b} : job'[c] = job[c]
  BY <1>1, <1>2, JobAdded DEF PunchInv
<1>7. HoldsOn /\ \A c \in Batches : job'[c].status = "completed" => job[c].status = "completed"
  BY <1>4, <1>6 DEF HoldsOn, Held
<1>8. DrainOK'
  BY <1>1, <1>2, <1>3, <1>4, <1>6 DEF PunchInv, DrainOK
<1>9. content[b] # {}
  BY <1>1, <1>2, UsedHasPunches
<1> QED BY <1>2, <1>3, <1>4, <1>5, <1>6, <1>7, <1>8, <1>9, UsedHasPunches, DrainStepKeeps

\* The row is marked as queued: the job holds its batch, or the punches are
\* registered.
LEMMA MarkQueuedKeeps ==
  ASSUME PunchInv, MarkQueued
  PROVE  PunchInv'
<1>1. PICK b \in Batches : b = drain.batch
  BY DEF MarkQueued, PunchInv, DrainOK
<1>2. /\ b \notin drain.todo /\ row[b].attempts < MaxDrains /\ job[b].status # "none"
      /\ \A c \in drain.todo : row[c].attempts < MaxDrains
  BY <1>1 DEF MarkQueued, PunchInv, DrainOK
<1>3. row[b].attempts + 1 \in 0..MaxDrains
  BY <1>2, FieldTypes, PunchAssumption DEF PunchInv
<1>4. row' = [row EXCEPT ![b] = Entry("queued", row[b].attempts + 1)]
  BY <1>1 DEF MarkQueued, PunchInv, PunchTypeOK
<1>5. /\ row' \in [Batches -> BufferRows]
      /\ \A c \in Batches \ {b} : row'[c] = row[c]
  BY <1>3, <1>4, RowSet DEF PunchInv
<1>6. drain.todo \in SUBSET Batches
  BY FieldTypes DEF PunchInv
<1>7. drain' = [step |-> "rows", batch |-> NoBatch, todo |-> drain.todo]
  BY DEF MarkQueued
<1>8. /\ drain' \in Drains /\ drain'.step = "rows" /\ drain'.batch = NoBatch
      /\ drain'.todo = drain.todo
  BY <1>6, <1>7 DEF Drains
<1>9. UNCHANGED <<sourceVars, recordVars, worker, lost>> /\ job' = job /\ list' = list
  BY DEF MarkQueued
<1>10. /\ job' \in [Batches -> Jobs] /\ list' \in SUBSET Batches /\ faults' \in 0..MaxFaults
  BY DEF MarkQueued, PunchInv, PunchTypeOK
<1>11. HoldsOn
  <2>1. job[b].status \in {"waiting", "active", "failed", "completed"}
    BY <1>2, FieldTypes DEF PunchInv
  <2>2. job[b].status = "completed" => content[b] \subseteq fingerprints
    BY DEF PunchInv, CompletedIsKnown
  <2> QED BY <1>5, <1>9, <2>1, <2>2 DEF HoldsOn, Held
<1>12. DrainOK'
  BY <1>2, <1>5, <1>6, <1>8 DEF DrainOK
<1>13. content[b] # {} /\ \A c \in Batches : c # NoBatch
  BY <1>1, UsedHasPunches DEF Batches, NoBatch
<1> QED BY <1>5, <1>8, <1>9, <1>10, <1>11, <1>12, <1>13, UsedHasPunches, DrainStepKeeps

\* The row counts a failed attempt, and holds its batch.
LEMMA RowFailsKeeps ==
  ASSUME PunchInv, RowFails
  PROVE  PunchInv'
<1>1. PICK b \in Batches :
        /\ b \in drain.todo \/ (drain.step = "mark" /\ b = drain.batch)
        /\ Fault("queue")
        /\ row' = [row EXCEPT ![b] = Entry("failed", @.attempts + 1)]
        /\ drain' = DrainIdle
        /\ UNCHANGED <<sourceVars, job, list, recordVars, worker, lost>>
  BY DEF RowFails
<1>2. row[b].attempts < MaxDrains
  BY <1>1 DEF PunchInv, DrainOK
<1>3. row[b].attempts + 1 \in 0..MaxDrains
  BY <1>2, FieldTypes, PunchAssumption DEF PunchInv
<1>4. row' = [row EXCEPT ![b] = Entry("failed", row[b].attempts + 1)]
  BY <1>1 DEF PunchInv, PunchTypeOK
<1>5. /\ row' \in [Batches -> BufferRows] /\ row'[b].status = "failed"
      /\ \A c \in Batches \ {b} : row'[c] = row[c]
  BY <1>3, <1>4, RowSet DEF PunchInv
<1>6. drain' \in Drains /\ drain'.step = "idle" /\ drain'.batch = NoBatch /\ drain'.todo = {}
  BY <1>1, DrainAtType DEF DrainIdle
<1>7. /\ job' \in [Batches -> Jobs] /\ list' \in SUBSET Batches /\ faults' \in 0..MaxFaults
      /\ job' = job /\ list' = list
  BY <1>1, PunchAssumption DEF PunchInv, PunchTypeOK, Fault
<1>8. HoldsOn
  BY <1>5, <1>7 DEF HoldsOn, Held
<1>9. DrainOK'
  BY <1>6 DEF DrainOK
<1>10. content[b] # {} /\ \A c \in Batches : c # NoBatch
  BY <1>1, UsedHasPunches DEF Batches, NoBatch
<1> QED BY <1>1, <1>5, <1>6, <1>7, <1>8, <1>9, <1>10, UsedHasPunches, DrainStepKeeps

\* Every step of the drain.
LEMMA DrainKeeps ==
  ASSUME PunchInv, DrainStep
  PROVE  PunchInv'
BY BeginDrainKeeps, PopListKeeps, EnqueuePoppedKeeps, SelectRowsKeeps, EnqueueRowKeeps,
   MarkQueuedKeeps, RowFailsKeeps, EndDrainKeeps, DrainDiesKeeps DEF DrainStep

-----------------------------------------------------------------------------
(* The workers.                                                             *)

\* What a step of a worker has to show.
LEMMA WorkStepKeeps ==
  ASSUME PunchInv, NEW w \in PunchWorkers, NEW e \in PunchJobs,
         worker' = [worker EXCEPT ![w] = e],
         UNCHANGED <<sourceVars, list, drain>>,
         job' \in [Batches -> Jobs], row' \in [Batches -> BufferRows],
         fingerprints' \in SUBSET Punches, entries' \in SUBSET Punches,
         review' \in Reviews, unmapped' \in SUBSET Punches, lost' \in SUBSET Punches,
         faults' \in 0..MaxFaults,
         fingerprints \subseteq fingerprints', lost \subseteq lost', HoldsOn, KeepsJobs,
         \A b \in Batches : row'[b].attempts = row[b].attempts,
         \A b \in Batches : content[b] = {} =>
           job'[b] = job[b] /\ row'[b] = row[b] /\ e.batch # b,
         \A b \in Batches : job'[b].status = "completed" =>
           job[b].status = "completed" \/ content[b] \subseteq fingerprints,
         e.step \in {"select", "register", "punches", "write", "done"} => e.batch \in Batches,
         e.step = "register" => content[e.batch] \ e.todo \subseteq fingerprints',
         e.step \in {"punches", "write", "done"} => content[e.batch] \subseteq fingerprints'
  PROVE  PunchInv'
<1>1. UNCHANGED <<available, cursor, sync, content>>
  BY DEF sourceVars
<1>2. /\ worker' \in [PunchWorkers -> PunchJobs] /\ worker'[w] = e
      /\ \A v \in PunchWorkers \ {w} : worker'[v] = worker[v]
  BY WorkerSet DEF PunchInv
<1>3. PunchTypeOK'
  BY <1>1, <1>2 DEF PunchInv, PunchTypeOK
<1>4. Grows
  BY <1>1 DEF Grows
<1>5. HandedOver' /\ SyncsOK'
  BY <1>4, SourceFrame
<1>6. EmptyIsUnused'
  <2>1. ASSUME NEW b \in Batches, content'[b] = {}
        PROVE  Unused(b)'
    <3>1. Unused(b) /\ job'[b] = job[b] /\ row'[b] = row[b] /\ e.batch # b
      BY <1>1, <2>1 DEF PunchInv, EmptyIsUnused
    <3> QED BY <1>1, <1>2, <3>1 DEF Unused
  <2> QED BY <2>1 DEF EmptyIsUnused
<1>7. CompletedIsKnown'
  BY <1>1 DEF PunchInv, CompletedIsKnown
<1>8. DrainOK'
  BY DrainFrame
<1>9. WorkersOK'
  <2>1. ASSUME NEW v \in PunchWorkers \ {w}
        PROVE  LET b == worker'[v].batch IN
               /\ worker'[v].step \in {"select", "register", "punches", "write", "done"} => b \in Batches
               /\ worker'[v].step = "register" => content'[b] \ worker'[v].todo \subseteq fingerprints'
               /\ worker'[v].step \in {"punches", "write", "done"} => content'[b] \subseteq fingerprints'
    BY <1>1, <1>2 DEF PunchInv, WorkersOK
  <2>2. LET b == worker'[w].batch IN
          /\ worker'[w].step \in {"select", "register", "punches", "write", "done"} => b \in Batches
          /\ worker'[w].step = "register" => content'[b] \ worker'[w].todo \subseteq fingerprints'
          /\ worker'[w].step \in {"punches", "write", "done"} => content'[b] \subseteq fingerprints'
    BY <1>1, <1>2
  <2> QED BY <2>1, <2>2 DEF WorkersOK
<1> QED BY <1>3, <1>5, <1>6, <1>7, <1>8, <1>9 DEF PunchInv

\* What every step of a worker starts from.
LEMMA WorkStart ==
  ASSUME PunchInv
  PROVE  /\ fingerprints \in SUBSET Punches /\ entries \in SUBSET Punches
         /\ review \in Reviews /\ unmapped \in SUBSET Punches /\ lost \in SUBSET Punches
         /\ job \in [Batches -> Jobs] /\ row \in [Batches -> BufferRows]
         /\ faults \in 0..MaxFaults /\ (\A k : Fault(k) => faults' \in 0..MaxFaults)
         /\ \A w \in PunchWorkers, b \in Batches : worker[w].batch = b => content[b] # {}
BY PunchAssumption DEF PunchInv, PunchTypeOK, EmptyIsUnused, Unused, Fault

\* A step that leaves jobs, rows, fingerprints and losses alone holds on.
LEMMA WorkHolds ==
  ASSUME UNCHANGED <<job, row>>
  PROVE  HoldsOn /\ KeepsJobs
BY DEF HoldsOn, Held, KeepsJobs

\* The worker's own steps: nothing but its state and the records changes.
LEMMA OwnStepKeeps ==
  ASSUME PunchInv, NEW w \in PunchWorkers, NEW e \in PunchJobs,
         worker' = [worker EXCEPT ![w] = e],
         UNCHANGED <<sourceVars, job, bufferVars>>,
         fingerprints' \in SUBSET Punches, entries' \in SUBSET Punches,
         review' \in Reviews, unmapped' \in SUBSET Punches, lost' \in SUBSET Punches,
         faults' \in 0..MaxFaults,
         fingerprints \subseteq fingerprints', lost \subseteq lost',
         e.batch \in {NoBatch, worker[w].batch},
         e.step \in {"select", "register", "punches", "write", "done"} => e.batch \in Batches,
         e.step = "register" => content[e.batch] \ e.todo \subseteq fingerprints',
         e.step \in {"punches", "write", "done"} => content[e.batch] \subseteq fingerprints'
  PROVE  PunchInv'
<1>1. job' = job /\ row' = row /\ UNCHANGED <<sourceVars, list, drain>>
  BY DEF bufferVars
<1>2. HoldsOn /\ KeepsJobs
  BY <1>1, WorkHolds
<1>3. job' \in [Batches -> Jobs] /\ row' \in [Batches -> BufferRows]
  BY <1>1, WorkStart
<1>4. \A b \in Batches : content[b] = {} => e.batch # b
  BY WorkStart DEF Batches, NoBatch
<1> QED BY <1>1, <1>2, <1>3, <1>4, WorkStepKeeps

\* A worker takes a job.
LEMMA TakeJobKeeps ==
  ASSUME PunchInv, NEW w \in PunchWorkers, NEW b \in Batches, TakeJob(w, b)
  PROVE  PunchInv'
<1> DEFINE e == Work("select", b, {}, {}, {})
<1>1. e \in PunchJobs /\ e.step = "select" /\ e.batch = b
  BY WorkType
<1>2. worker' = [worker EXCEPT ![w] = e]
  BY DEF TakeJob
<1> HIDE DEF e
<1>3. /\ job[b].status = "waiting" /\ job[b].attempts \in 0..MaxAttempts
      /\ job' = [job EXCEPT ![b] = Entry("active", job[b].attempts)]
  BY FieldTypes, WorkStart DEF TakeJob, PunchInv
<1>4. /\ job' \in [Batches -> Jobs] /\ job'[b].status = "active"
      /\ \A c \in Batches \ {b} : job'[c] = job[c]
  BY <1>3, JobSet DEF PunchInv
<1>5. UNCHANGED <<sourceVars, row, list, drain, fingerprints, entries, review, unmapped, faults, lost>>
  BY DEF TakeJob, bufferVars, recordVars
<1>6. KeepsJobs /\ HoldsOn
  BY <1>4, <1>5 DEF KeepsJobs, HoldsOn, Held
<1>7. content[b] # {}
  BY <1>3, UsedHasPunches
<1>8. /\ row' \in [Batches -> BufferRows] /\ fingerprints' \in SUBSET Punches
      /\ entries' \in SUBSET Punches /\ review' \in Reviews
      /\ unmapped' \in SUBSET Punches /\ lost' \in SUBSET Punches /\ faults' \in 0..MaxFaults
  BY <1>5, WorkStart
<1>9. \A c \in Batches : content[c] = {} => job'[c] = job[c] /\ row'[c] = row[c] /\ e.batch # c
  BY <1>1, <1>4, <1>5, <1>7
<1>10. \A c \in Batches : job'[c].status = "completed" => job[c].status = "completed"
  BY <1>4
<1>11. \A c \in Batches : row'[c].attempts = row[c].attempts
  BY <1>5
<1> QED BY <1>1, <1>2, <1>4, <1>5, <1>6, <1>8, <1>9, <1>10, <1>11, WorkStepKeeps

\* A worker looks up what is known of its batch.
LEMMA SelectFreshKeeps ==
  ASSUME PunchInv, NEW w \in PunchWorkers, SelectFresh(w)
  PROVE  PunchInv'
<1> DEFINE fresh == content[worker[w].batch] \ fingerprints
           step  == IF fresh = {} THEN "punches" ELSE "register"
           e     == Work(step, worker[w].batch, fresh, {}, {})
<1>1. worker[w].batch \in Batches /\ worker[w].step = "select"
  BY DEF SelectFresh, PunchInv, WorkersOK
<1>2. content[worker[w].batch] \in SUBSET Punches
  BY <1>1 DEF PunchInv, PunchTypeOK
<1>3. e \in PunchJobs /\ e.step = step /\ e.batch = worker[w].batch /\ e.todo = fresh
  <2>1. step \in {"idle", "select", "register", "punches", "write", "done", "retry", "resolve"}
    OBVIOUS
  <2> HIDE DEF step
  <2> QED BY <1>1, <1>2, <2>1, WorkType
<1>4. worker' = [worker EXCEPT ![w] = e]
  BY DEF SelectFresh, PunchInv, PunchTypeOK
<1> HIDE DEF e
<1>5. UNCHANGED <<sourceVars, job, bufferVars, fingerprints, entries, review, unmapped, faults, lost>>
  BY DEF SelectFresh, recordVars
<1>6. /\ step \in {"register", "punches"}
      /\ step = "register" => content[e.batch] \ fresh \subseteq fingerprints'
      /\ step = "punches" => content[e.batch] \subseteq fingerprints'
  BY <1>3, <1>5
<1> HIDE DEF fresh, step
<1> QED BY <1>1, <1>3, <1>4, <1>5, <1>6, WorkStart, OwnStepKeeps

\* It registers the punches of its batch that were not known.
LEMMA RegisterKeeps ==
  ASSUME PunchInv, NEW w \in PunchWorkers, Register(w)
  PROVE  PunchInv'
<1> DEFINE todo == worker[w].todo
           e    == Work("punches", worker[w].batch, todo, todo \cap unmapped, {})
<1>1. /\ worker[w].batch \in Batches /\ content[worker[w].batch] \ todo \subseteq fingerprints
      /\ todo \in SUBSET Punches
  BY FieldTypes DEF Register, PunchInv, WorkersOK
<1>2. e \in PunchJobs /\ e.step = "punches" /\ e.batch = worker[w].batch
  BY <1>1, WorkType
<1>3. worker' = [worker EXCEPT ![w] = e] /\ fingerprints' = fingerprints \cup todo
  BY DEF Register, PunchInv, PunchTypeOK
<1> HIDE DEF e
<1>4. UNCHANGED <<sourceVars, job, bufferVars, entries, review, unmapped, faults, lost>>
  BY DEF Register
<1>5. content[e.batch] \subseteq fingerprints' /\ fingerprints' \in SUBSET Punches
  BY <1>1, <1>2, <1>3, WorkStart
<1> QED BY <1>1, <1>2, <1>3, <1>4, <1>5, WorkStart, OwnStepKeeps

\* Between its punches a worker only looks at its batch again.
LEMMA PunchesKeep ==
  ASSUME PunchInv, NEW w \in PunchWorkers, NEW step \in {"punches", "write", "done"},
         NEW todo \in SUBSET Punches, NEW unknown \in SUBSET Punches, NEW read \in SUBSET Punches,
         worker[w].step \in {"punches", "write"},
         worker' = [worker EXCEPT ![w] = Work(step, worker[w].batch, todo, unknown, read)],
         UNCHANGED <<sourceVars, job, bufferVars, fingerprints, unmapped>>,
         entries' \in SUBSET Punches, review' \in Reviews, lost' \in SUBSET Punches,
         lost \subseteq lost', faults' \in 0..MaxFaults
  PROVE  PunchInv'
<1> DEFINE e == Work(step, worker[w].batch, todo, unknown, read)
<1>1. worker[w].batch \in Batches /\ content[worker[w].batch] \subseteq fingerprints
  BY DEF PunchInv, WorkersOK
<1>2. e \in PunchJobs /\ e.step = step /\ e.batch = worker[w].batch
  BY <1>1, WorkType
<1>3. worker' = [worker EXCEPT ![w] = e]
  OBVIOUS
<1> HIDE DEF e
<1> QED BY <1>1, <1>2, <1>3, WorkStart, OwnStepKeeps

\* A punch without an employee is put under review.
LEMMA ReviewPunchKeeps ==
  ASSUME PunchInv, NEW w \in PunchWorkers, NEW p \in Punches, ReviewPunch(w, p)
  PROVE  PunchInv'
<1> DEFINE todo == worker[w].todo \ {p}
<1>1. todo \in SUBSET Punches /\ worker[w].unknown \in SUBSET Punches /\ {} \in SUBSET Punches
  BY FieldTypes DEF PunchInv
<1>2. worker' = [worker EXCEPT ![w] =
                   Work("punches", worker[w].batch, todo, worker[w].unknown, {})]
  BY DEF ReviewPunch, Done, PunchInv, PunchTypeOK
<1>3. /\ UNCHANGED <<sourceVars, job, bufferVars, fingerprints, unmapped, entries, faults, lost>>
      /\ review' \in Reviews
  BY WorkStart DEF ReviewPunch, Reviewed, Reviews
<1>4. worker[w].step = "punches"
  BY DEF ReviewPunch
<1> HIDE DEF todo
<1> QED BY <1>1, <1>2, <1>3, <1>4, WorkStart, PunchesKeep

\* A worker reads the record of its next punch.
LEMMA ReadRecordKeeps ==
  ASSUME PunchInv, NEW w \in PunchWorkers, NEW p \in Punches, ReadRecord(w, p)
  PROVE  PunchInv'
<1> DEFINE read == entries \cap SameRecord(p)
<1>1. /\ worker[w].todo \in SUBSET Punches /\ worker[w].unknown \in SUBSET Punches
      /\ read \in SUBSET Punches
  BY FieldTypes, WorkStart DEF PunchInv
<1>2. worker' = [worker EXCEPT ![w] =
                   Work("write", worker[w].batch, worker[w].todo, worker[w].unknown, read)]
  BY DEF ReadRecord, PunchInv, PunchTypeOK
<1>3. UNCHANGED <<sourceVars, job, bufferVars, fingerprints, entries, review, unmapped, faults, lost>>
  BY DEF ReadRecord, recordVars
<1>4. worker[w].step = "punches"
  BY DEF ReadRecord
<1> HIDE DEF read
<1> QED BY <1>1, <1>2, <1>3, <1>4, WorkStart, PunchesKeep

\* A worker writes the record of its punch.
LEMMA WriteRecordKeeps ==
  ASSUME PunchInv, NEW w \in PunchWorkers, NEW p \in Punches, WriteRecord(w, p)
  PROVE  PunchInv'
<1> DEFINE todo == worker[w].todo \ {p}
<1>1. /\ todo \in SUBSET Punches /\ worker[w].unknown \in SUBSET Punches /\ {} \in SUBSET Punches
      /\ worker[w].read \in SUBSET Punches
  BY FieldTypes DEF PunchInv
<1>2. worker' = [worker EXCEPT ![w] =
                   Work("punches", worker[w].batch, todo, worker[w].unknown, {})]
  BY DEF WriteRecord, Done, PunchInv, PunchTypeOK
<1>3. entries' \in SUBSET Punches
  BY <1>1, WorkStart DEF WriteRecord, Merged
<1>4. UNCHANGED <<sourceVars, job, bufferVars, fingerprints, review, unmapped, faults, lost>>
  BY DEF WriteRecord
<1>5. worker[w].step = "write"
  BY DEF WriteRecord
<1> HIDE DEF todo
<1> QED BY <1>1, <1>2, <1>3, <1>4, <1>5, WorkStart, PunchesKeep

\* An error on one punch.
LEMMA PunchFailsKeeps ==
  ASSUME PunchInv, NEW w \in PunchWorkers, NEW p \in Punches, PunchFails(w, p)
  PROVE  PunchInv'
<1> DEFINE todo == worker[w].todo \ {p}
<1>1. todo \in SUBSET Punches /\ worker[w].unknown \in SUBSET Punches /\ {} \in SUBSET Punches
  BY FieldTypes DEF PunchInv
<1>2. worker' = [worker EXCEPT ![w] =
                   Work("punches", worker[w].batch, todo, worker[w].unknown, {})]
  BY DEF PunchFails, Done, PunchInv, PunchTypeOK
<1>3. /\ UNCHANGED <<sourceVars, job, bufferVars, fingerprints, entries, review, unmapped>>
      /\ lost' \in SUBSET Punches /\ lost \subseteq lost' /\ faults' \in 0..MaxFaults
  BY WorkStart DEF PunchFails, recordVars
<1>4. worker[w].step \in {"punches", "write"}
  BY DEF PunchFails
<1> HIDE DEF todo
<1> QED BY <1>1, <1>2, <1>3, <1>4, WorkStart, PunchesKeep

\* A worker that is idle again.
LEMMA IdleType == Idle \in PunchJobs /\ Idle.step = "idle" /\ Idle.batch = NoBatch
BY WorkType DEF Idle

\* The row of the batch is processed, or the UPDATE fails unheard.
LEMMA MarkProcessedKeeps ==
  ASSUME PunchInv, NEW w \in PunchWorkers, MarkProcessed(w)
  PROVE  PunchInv'
<1>1. PICK b \in Batches : b = worker[w].batch
  BY DEF MarkProcessed, PunchInv, WorkersOK
<1> DEFINE e == Work("done", b, {}, {}, {})
<1>2. content[b] \subseteq fingerprints /\ content[b] # {}
  BY <1>1, WorkStart DEF MarkProcessed, PunchInv, WorkersOK
<1>3. /\ row' \in [Batches -> BufferRows] /\ row'[b].attempts = row[b].attempts
      /\ \A c \in Batches \ {b} : row'[c] = row[c]
  <2>1. CASE row[b].status \in Open /\ row' # row
    <3>1. /\ row[b].attempts \in 0..MaxDrains
          /\ row' = [row EXCEPT ![b] = Entry("processed", row[b].attempts)]
      BY <1>1, <2>1, FieldTypes, WorkStart DEF MarkProcessed, PunchInv
    <3> QED BY <3>1, RowSet DEF PunchInv
  <2>2. CASE row[b].status \notin Open \/ row' = row
    BY <1>1, <2>2, WorkStart DEF MarkProcessed
  <2> QED BY <2>1, <2>2
<1>4. /\ UNCHANGED <<sourceVars, job, list, drain, fingerprints, entries, review, unmapped, lost>>
      /\ worker' = [worker EXCEPT ![w] = e]
  BY <1>1 DEF MarkProcessed, recordVars
<1>5. faults' \in 0..MaxFaults
  BY WorkStart DEF MarkProcessed
<1>6. e \in PunchJobs /\ e.step = "done" /\ e.batch = b
  BY WorkType
<1> HIDE DEF e
<1>7. HoldsOn /\ KeepsJobs
  BY <1>2, <1>3, <1>4 DEF HoldsOn, Held, KeepsJobs
<1>8. \A c \in Batches : content[c] = {} => job'[c] = job[c] /\ row'[c] = row[c] /\ e.batch # c
  BY <1>2, <1>3, <1>4, <1>6
<1>9. /\ job' \in [Batches -> Jobs] /\ fingerprints' \in SUBSET Punches
      /\ entries' \in SUBSET Punches /\ review' \in Reviews
      /\ unmapped' \in SUBSET Punches /\ lost' \in SUBSET Punches
      /\ fingerprints \subseteq fingerprints' /\ lost \subseteq lost'
  BY <1>4, WorkStart
<1>10. \A c \in Batches : row'[c].attempts = row[c].attempts
  BY <1>3
<1>11. content[e.batch] \subseteq fingerprints'
  BY <1>2, <1>4, <1>6
<1>12. \A c \in Batches : job'[c].status = "completed" => job[c].status = "completed"
  BY <1>4
<1> QED BY <1>3, <1>4, <1>5, <1>6, <1>7, <1>8, <1>9, <1>10, <1>11, <1>12, WorkStepKeeps

\* The job is completed: its punches are registered.
LEMMA FinishJobKeeps ==
  ASSUME PunchInv, NEW w \in PunchWorkers, FinishJob(w)
  PROVE  PunchInv'
<1>1. PICK b \in Batches : b = worker[w].batch
  BY DEF FinishJob, PunchInv, WorkersOK
<1>2. content[b] \subseteq fingerprints /\ content[b] # {}
  BY <1>1, WorkStart DEF FinishJob, PunchInv, WorkersOK
<1>3. /\ job[b].attempts \in 0..MaxAttempts
      /\ job' = [job EXCEPT ![b] = Entry("completed", job[b].attempts)]
  BY <1>1, FieldTypes, WorkStart DEF FinishJob, PunchInv
<1>4. /\ job' \in [Batches -> Jobs] /\ job'[b].status = "completed"
      /\ \A c \in Batches \ {b} : job'[c] = job[c]
  BY <1>3, JobSet DEF PunchInv
<1>5. /\ UNCHANGED <<sourceVars, row, list, drain>> /\ worker' = [worker EXCEPT ![w] = Idle]
      /\ UNCHANGED <<fingerprints, entries, review, unmapped, faults, lost>>
  BY DEF FinishJob, bufferVars, recordVars
<1>6. HoldsOn /\ KeepsJobs
  BY <1>2, <1>4, <1>5 DEF HoldsOn, Held, KeepsJobs
<1>7. \A c \in Batches : content[c] = {} => job'[c] = job[c] /\ row'[c] = row[c] /\ Idle.batch # c
  BY <1>2, <1>4, <1>5, IdleType DEF Batches, NoBatch
<1>8. \A c \in Batches : job'[c].status = "completed" =>
        job[c].status = "completed" \/ content[c] \subseteq fingerprints
  BY <1>2, <1>4
<1>9. /\ fingerprints' \in SUBSET Punches /\ entries' \in SUBSET Punches
      /\ review' \in Reviews /\ unmapped' \in SUBSET Punches
      /\ row' \in [Batches -> BufferRows]
      /\ lost' \in SUBSET Punches /\ faults' \in 0..MaxFaults
  BY <1>5, WorkStart
<1> QED BY <1>4, <1>5, <1>6, <1>7, <1>8, <1>9, IdleType, WorkStepKeeps

\* An attempt of the job fails: it waits for another, or is failed and kept.
LEMMA JobFailsKeeps ==
  ASSUME PunchInv, NEW w \in PunchWorkers, JobFails(w)
  PROVE  PunchInv'
<1>1. PICK b \in Batches : b = worker[w].batch
  BY DEF JobFails, PunchInv, WorkersOK
<1> DEFINE n  == IF job[b].attempts < MaxAttempts THEN job[b].attempts + 1 ELSE MaxAttempts
           st == IF n < MaxAttempts THEN "waiting" ELSE "failed"
<1>2. n \in 0..MaxAttempts /\ st \in {"waiting", "failed"}
  BY FieldTypes, PunchAssumption DEF PunchInv
<1>3. job' = [job EXCEPT ![b] = Entry(st, n)]
  BY <1>1 DEF JobFails
<1> HIDE DEF n, st
<1>4. /\ job' \in [Batches -> Jobs] /\ job'[b].status = st
      /\ \A c \in Batches \ {b} : job'[c] = job[c]
  BY <1>2, <1>3, JobSet DEF PunchInv
<1>5. /\ row' \in [Batches -> BufferRows] /\ row'[b].attempts = row[b].attempts
      /\ \A c \in Batches \ {b} : row'[c] = row[c]
      /\ row'[b].status = row[b].status \/ row'[b].status = "failed"
  <2>1. CASE row' = row
    BY <2>1, WorkStart
  <2>2. CASE row' = [row EXCEPT ![b] = Entry("failed", @.attempts)]
    <3>1. /\ row[b].attempts \in 0..MaxDrains
          /\ row' = [row EXCEPT ![b] = Entry("failed", row[b].attempts)]
      BY <2>2, FieldTypes, WorkStart DEF PunchInv
    <3> QED BY <3>1, RowSet DEF PunchInv
  <2> QED BY <1>1, <2>1, <2>2 DEF JobFails
<1>6. /\ UNCHANGED <<sourceVars, list, drain>> /\ worker' = [worker EXCEPT ![w] = Idle]
      /\ UNCHANGED <<fingerprints, entries, review, unmapped>>
  BY DEF JobFails, recordVars
<1>7. worker[w].todo \in SUBSET Punches
  BY FieldTypes DEF PunchInv
<1>8. lost' \in SUBSET Punches /\ lost \subseteq lost' /\ faults' \in 0..MaxFaults
  BY <1>7, WorkStart DEF JobFails
<1>9. HoldsOn /\ KeepsJobs
  BY <1>2, <1>4, <1>5 DEF HoldsOn, Held, KeepsJobs
<1>10. content[b] # {}
  BY <1>1, WorkStart
<1>11. \A c \in Batches : content[c] = {} => job'[c] = job[c] /\ row'[c] = row[c] /\ Idle.batch # c
  BY <1>4, <1>5, <1>10, IdleType DEF Batches, NoBatch
<1>12. \A c \in Batches : job'[c].status = "completed" => job[c].status = "completed"
  BY <1>2, <1>4
<1>13. \A c \in Batches : row'[c].attempts = row[c].attempts
  BY <1>5
<1>14. /\ fingerprints' \in SUBSET Punches /\ entries' \in SUBSET Punches
       /\ review' \in Reviews /\ unmapped' \in SUBSET Punches
  BY <1>6, WorkStart
<1> QED BY <1>4, <1>5, <1>6, <1>8, <1>9, <1>11, <1>12, <1>13, <1>14, IdleType, WorkStepKeeps

\* A punch under review is taken up, ...
LEMMA BeginResolveKeeps ==
  ASSUME PunchInv, NEW w \in PunchWorkers, NEW p \in Punches, BeginResolve(w, p)
  PROVE  PunchInv'
<1> DEFINE e == Work("retry", NoBatch, {p}, {}, {})
<1>1. e \in PunchJobs /\ e.step = "retry" /\ e.batch = NoBatch
  BY WorkType
<1>2. worker' = [worker EXCEPT ![w] = e]
  BY DEF BeginResolve
<1> HIDE DEF e
<1>3. UNCHANGED <<sourceVars, job, bufferVars, fingerprints, entries, review, unmapped, faults, lost>>
  BY DEF BeginResolve, recordVars
<1> QED BY <1>1, <1>2, <1>3, WorkStart, OwnStepKeeps

\* ... marked, ...
LEMMA MarkRetryingKeeps ==
  ASSUME PunchInv, NEW w \in PunchWorkers, NEW p \in Punches, MarkRetrying(w, p)
  PROVE  PunchInv'
<1> DEFINE read == entries \cap SameRecord(p)
           e    == Work("resolve", NoBatch, {p}, {}, read)
<1>1. read \in SUBSET Punches /\ {p} \in SUBSET Punches /\ {} \in SUBSET Punches
  BY WorkStart
<1> HIDE DEF read
<1>2. e \in PunchJobs /\ e.step = "resolve" /\ e.batch = NoBatch
  BY <1>1, WorkType
<1>3. worker' = [worker EXCEPT ![w] = e]
  BY DEF MarkRetrying, read
<1> HIDE DEF e
<1>4. /\ UNCHANGED <<sourceVars, job, bufferVars, fingerprints, entries, unmapped, faults, lost>>
      /\ review' \in Reviews
  BY WorkStart DEF MarkRetrying, Reviewed, Reviews
<1> QED BY <1>2, <1>3, <1>4, WorkStart, OwnStepKeeps

\* ... and recorded, or it stays.
LEMMA EndResolveKeeps ==
  ASSUME PunchInv, NEW w \in PunchWorkers, NEW p \in Punches, EndResolve(w, p)
  PROVE  PunchInv'
<1>1. worker[w].read \in SUBSET Punches /\ Merged(w, p) \in SUBSET Punches
  BY FieldTypes, WorkStart DEF PunchInv, Merged
<1>2. entries' \in SUBSET Punches /\ faults' \in 0..MaxFaults
  BY <1>1, WorkStart DEF EndResolve
<1>3. review' \in Reviews
  BY WorkStart DEF EndResolve, Reviewed, Reviews
<1>4. lost' \in SUBSET Punches /\ lost \subseteq lost'
  BY WorkStart DEF EndResolve
<1>5. /\ UNCHANGED <<sourceVars, job, bufferVars, fingerprints, unmapped>>
      /\ worker' = [worker EXCEPT ![w] = Idle]
  BY DEF EndResolve
<1> QED BY <1>2, <1>3, <1>4, <1>5, IdleType, WorkStart, OwnStepKeeps

\* Every step of a worker.
LEMMA WorkerKeeps ==
  ASSUME PunchInv, NEW w \in PunchWorkers, PunchStep(w)
  PROVE  PunchInv'
BY TakeJobKeeps, SelectFreshKeeps, RegisterKeeps, MarkProcessedKeeps, FinishJobKeeps,
   JobFailsKeeps, ReviewPunchKeeps, ReadRecordKeeps, WriteRecordKeeps, PunchFailsKeeps,
   MarkRetryingKeeps, EndResolveKeeps
   DEF PunchStep

\* A failed job waits again.
LEMMA RetryFailedKeeps ==
  ASSUME PunchInv, NEW b \in Batches, RetryFailed(b)
  PROVE  PunchInv'
<1>1. /\ job[b].status = "failed" /\ job[b].attempts \in 0..MaxAttempts
      /\ job' = [job EXCEPT ![b] = Entry("waiting", job[b].attempts)]
  BY FieldTypes, WorkStart DEF RetryFailed, PunchInv
<1>2. /\ job' \in [Batches -> Jobs] /\ job'[b].status = "waiting"
      /\ \A c \in Batches \ {b} : job'[c] = job[c]
  BY <1>1, JobSet DEF PunchInv
<1>3. UNCHANGED <<sourceVars, row, list, drain, recordVars, worker, faults, lost>>
  BY DEF RetryFailed, bufferVars
<1>4. HoldsOn /\ KeepsJobs
  BY <1>1, <1>2, <1>3 DEF HoldsOn, Held, KeepsJobs
<1>5. DrainOK'
  BY <1>3, <1>4, DrainFrame
<1>6. /\ row' \in [Batches -> BufferRows] /\ list' \in SUBSET Batches
      /\ drain' \in Drains /\ faults' \in 0..MaxFaults
  BY <1>3 DEF PunchInv, PunchTypeOK
<1>7. content[b] # {}
  BY <1>1, UsedHasPunches
<1>8. \A c \in Batches : content[c] = {} =>
        /\ job'[c] = job[c] /\ row'[c] = row[c] /\ c \notin list'
        /\ c \notin drain'.todo /\ c # drain'.batch
  BY <1>2, <1>3, <1>7, UsedHasPunches
<1> QED BY <1>2, <1>3, <1>4, <1>5, <1>6, <1>8, DrainStepKeeps

\* Somebody gets the code of a punch under review.
LEMMA MapEmployeeKeeps ==
  ASSUME PunchInv, NEW p \in Punches, MapEmployee(p)
  PROVE  PunchInv'
<1>1. UNCHANGED <<available, cursor, sync, content, job, row, list, drain, fingerprints, entries,
                  review, worker, faults, lost>>
  BY DEF MapEmployee, sourceVars, bufferVars
<1>2. unmapped' \in SUBSET Punches
  BY WorkStart DEF MapEmployee
<1>3. PunchTypeOK'
  BY <1>1, <1>2 DEF PunchInv, PunchTypeOK
<1> QED BY <1>1, <1>3 DEF PunchInv, HandedOver, Held, EmptyIsUnused, Unused, CompletedIsKnown,
          WorkersOK, SyncsOK, Safe, DrainOK

-----------------------------------------------------------------------------
(* The theorems.                                                            *)

\* The invariant holds at first: nothing has been fetched.
LEMMA PunchInitInv == PunchInit => PunchInv
<1> SUFFICES ASSUME PunchInit PROVE PunchInv
  OBVIOUS
<1>1. 0 \in 0..MaxAttempts /\ 0 \in 0..MaxDrains /\ 0 \in 0..MaxPunches /\ 0 \in 0..MaxFaults
  BY PunchAssumption
<1>2. SyncEntry("none", 0) \in SyncRows /\ SyncEntry("none", 0).step = "idle"
      /\ SyncEntry("none", 0).batch = NoBatch
  BY <1>1, SyncEntryType
<1>3. Entry("none", 0) \in Jobs /\ Entry("none", 0) \in BufferRows /\ Entry("none", 0).status = "none"
  BY <1>1 DEF Entry, Jobs, BufferRows
<1>4. DrainIdle \in Drains /\ DrainIdle.step = "idle" /\ DrainIdle.batch = NoBatch
      /\ DrainIdle.todo = {}
  BY DrainAtType DEF DrainIdle
<1>5. PunchTypeOK
  BY <1>1, <1>2, <1>3, <1>4, IdleType, PunchAssumption DEF PunchInit, PunchTypeOK, Reviews
<1>6. \A b \in Batches : job[b].status = "none" /\ row[b].status = "none" /\ b # NoBatch
  BY <1>3 DEF PunchInit, Batches, NoBatch
<1>7. /\ \A s \in SyncJobs : sync[s].step = "idle" /\ sync[s].batch = NoBatch
      /\ \A w \in PunchWorkers : worker[w].step = "idle" /\ worker[w].batch = NoBatch
  BY <1>2, IdleType DEF PunchInit
<1>8. list = {} /\ drain.step = "idle" /\ drain.batch = NoBatch /\ drain.todo = {}
  BY <1>4 DEF PunchInit
<1>9. HandedOver
  BY DEF PunchInit, HandedOver
<1>10. EmptyIsUnused
  BY <1>6, <1>7, <1>8 DEF EmptyIsUnused, Unused
<1>11. CompletedIsKnown /\ WorkersOK /\ SyncsOK /\ DrainOK
  BY <1>6, <1>7, <1>8 DEF CompletedIsKnown, WorkersOK, SyncsOK, DrainOK
<1> QED BY <1>5, <1>9, <1>10, <1>11 DEF PunchInv

\* And every step keeps it.
LEMMA PunchNextInv == PunchInv /\ [PunchNext]_punchVars => PunchInv'
<1> SUFFICES ASSUME PunchInv, [PunchNext]_punchVars PROVE PunchInv'
  OBVIOUS
<1>1. CASE Punch
  BY <1>1, PunchKeeps
<1>2. CASE DrainStep
  BY <1>2, DrainKeeps
<1>3. CASE Administer
  BY <1>3, RetryFailedKeeps, MapEmployeeKeeps, BeginResolveKeeps DEF Administer
<1>4. ASSUME NEW s \in SyncJobs, EnqueueSync(s) \/ SyncStep(s)
      PROVE  PunchInv'
  BY <1>4, EnqueueSyncKeeps, StartSyncKeeps, SubmitKeeps, PersistKeeps, PushKeeps,
     AdvanceCursorKeeps, SyncFailsKeeps DEF SyncStep
<1>5. ASSUME NEW w \in PunchWorkers, PunchStep(w)
      PROVE  PunchInv'
  BY <1>5, WorkerKeeps
<1>6. CASE UNCHANGED punchVars
  <2>1. UNCHANGED <<available, cursor, sync, content, job, row, list, drain, fingerprints,
                    entries, review, unmapped, worker, faults, lost>>
    BY <1>6 DEF punchVars, sourceVars, bufferVars, recordVars
  <2> QED BY <2>1 DEF PunchInv, PunchTypeOK, HandedOver, Held, EmptyIsUnused, Unused,
            CompletedIsKnown, WorkersOK, SyncsOK, Safe, DrainOK
<1> QED BY <1>1, <1>2, <1>3, <1>4, <1>5, <1>6 DEF PunchNext

\* Queue, buffer, drain, workers and records agree with each other at all
\* times: the inductive invariant holds.
THEOREM PunchInvHolds == PunchSpec => []PunchInv
BY PunchInitInv, PunchNextInv, PTL DEF PunchSpec

\* The tables hold what their columns may hold; above all, no row of the
\* buffer counts more attempts than its maximum.
THEOREM PunchTypesHold == PunchSpec => []PunchTypeOK
<1>1. PunchInv => PunchTypeOK
  BY DEF PunchInv
<1> QED BY <1>1, PunchInvHolds, PTL

\* A punch that the cursor has passed is registered, or in a batch that a job
\* or a buffered row holds, unless an error that the code swallows gave it up:
\* the delivery of BiometricPunchIngestionService forgets none by itself.
THEOREM NothingForgotten == PunchSpec => []HandedOver
<1>1. PunchInv => HandedOver
  BY DEF PunchInv
<1> QED BY <1>1, PunchInvHolds, PTL
=============================================================================
