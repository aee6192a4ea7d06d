--------------------------- MODULE PunchIngestion ---------------------------
(***************************************************************************)
(* The way of a punch from a biometric terminal to the attendance record:  *)
(* a sync job fetches the punches after its cursor and submits them as one *)
(* batch; the batch goes to the ingestion queue, or to a Redis list and a  *)
(* durable row that a drain empties into the queue later; a worker drops   *)
(* the punches whose fingerprint is known, registers the others, and       *)
(* merges each into the record of its employee and day, or puts it under   *)
(* review if nobody has its employee code.                                 *)
(*                                                                         *)
(* Punches are numbered in the order of their timestamps.  The terminal's  *)
(* log, Bull, Redis and PostgreSQL are external; Faults names what may go  *)
(* wrong.                                                                  *)
(***************************************************************************)
EXTENDS Integers

CONSTANTS
  MaxPunches,    \* bound: punches in the terminal's log
  MaxBatches,    \* bound: request ids
  SyncJobs,      \* "scheduled", whose job id is always the same, and manual ones
  PunchWorkers,  \* jobs of the ingestion queue processed at the same time
  BatchSize,     \* syncBatchSize
  MaxAttempts,   \* attempts of a job
  MaxDrains,     \* max_attempts of a buffered batch
  Record,        \* the record (employee, day) of each punch
  Unmapped,      \* punches whose employee code nobody has at first
  Faults,        \* what may go wrong
  MaxFaults      \* bound: how often

AllFaults == {"sync", "queue", "insert", "redis", "attempt", "late attempt", "punch", "mark", "retry",
              "drain"}

Punches == 1..MaxPunches
Batches == 1..MaxBatches

ASSUME PunchAssumption ==
  /\ MaxPunches \in Nat /\ MaxBatches \in Nat /\ MaxFaults \in Nat
  /\ BatchSize \in Nat \ {0} /\ MaxAttempts \in Nat \ {0} /\ MaxDrains \in Nat \ {0}
  /\ Unmapped \subseteq Punches /\ Faults \subseteq AllFaults

VARIABLES
  available,     \* how many punches the terminal's log has
  cursor,        \* biometric_sync_cursors.last_cursor
  sync,          \* the sync jobs
  content,       \* the punches of each batch
  job,           \* the ingestion queue, by batch: a job's id is its request id
  row,           \* biometric_offline_punch_buffers
  list,          \* the Redis list of buffered batches
  drain,         \* what the drain is doing
  fingerprints,  \* punch_fingerprints
  entries,       \* punch_sequence: the punches in their records
  review,        \* pending_punch_reviews, by punch; "pending" is also "failed"
  unmapped,      \* punches whose employee code nobody has
  worker,        \* what each worker is doing
  faults,        \* how often something went wrong
  lost           \* history: the punches an error made the code give up

sourceVars == <<available, cursor, sync, content>>
bufferVars == <<row, list, drain>>
recordVars == <<fingerprints, entries, review, unmapped>>
punchVars  == <<sourceVars, job, bufferVars, recordVars, worker, faults, lost>>

NoBatch   == 0
Entry(status, attempts) == [status |-> status, attempts |-> attempts]
SyncEntry(status, attempts) ==
  [status |-> status, attempts |-> attempts, step |-> "idle", batch |-> NoBatch, upto |-> 0]
DrainAt(step, b) == [step |-> step, batch |-> b, todo |-> {}]
DrainIdle == DrainAt("idle", NoBatch)
Work(step, b, todo, unknown, read) ==
  [step |-> step, batch |-> b, todo |-> todo, unknown |-> unknown, read |-> read]
Idle == Work("idle", NoBatch, {}, {}, {})

SyncRows ==
  [status : {"none", "waiting", "active", "completed", "failed"}, attempts : 0..MaxAttempts,
   step : {"idle", "submit", "persist", "push", "advance"}, batch : {NoBatch} \cup Batches,
   upto : 0..MaxPunches]
Jobs == [status : {"none", "waiting", "active", "completed", "failed"}, attempts : 0..MaxAttempts]
BufferRows == [status : {"none", "buffered", "queued", "processed", "failed"},
               attempts : 0..MaxDrains]
Drains == [step : {"idle", "pop", "popped", "select", "rows", "mark"},
           batch : {NoBatch} \cup Batches, todo : SUBSET Batches]
PunchJobs == [step : {"idle", "select", "register", "punches", "write", "done",
                      "retry", "resolve"},
              batch : {NoBatch} \cup Batches, todo : SUBSET Punches, unknown : SUBSET Punches,
              read : SUBSET Punches]
Reviews == [Punches -> {"none", "pending", "retrying", "processed"}]

PunchTypeOK ==
  /\ available \in 0..MaxPunches /\ cursor \in 0..MaxPunches
  /\ sync \in [SyncJobs -> SyncRows]
  /\ content \in [Batches -> SUBSET Punches]
  /\ job \in [Batches -> Jobs]
  /\ row \in [Batches -> BufferRows]
  /\ list \in SUBSET Batches
  /\ drain \in Drains
  /\ fingerprints \in SUBSET Punches /\ entries \in SUBSET Punches
  /\ review \in Reviews
  /\ unmapped \in SUBSET Punches
  /\ worker \in [PunchWorkers -> PunchJobs]
  /\ faults \in 0..MaxFaults /\ lost \in SUBSET Punches

PunchInit ==
  /\ available = 0 /\ cursor = 0
  /\ sync = [s \in SyncJobs |-> SyncEntry("none", 0)]
  /\ content = [b \in Batches |-> {}]
  /\ job = [b \in Batches |-> Entry("none", 0)]
  /\ row = [b \in Batches |-> Entry("none", 0)]
  /\ list = {} /\ drain = DrainIdle
  /\ fingerprints = {} /\ entries = {}
  /\ review = [p \in Punches |-> "none"] /\ unmapped = Unmapped
  /\ worker = [w \in PunchWorkers |-> Idle]
  /\ faults = 0 /\ lost = {}

\* Something goes wrong, if it may and as long as the bound allows.
Fault(kind) == kind \in Faults /\ faults < MaxFaults /\ faults' = faults + 1

-----------------------------------------------------------------------------
(* The sync job.                                                            *)

\* The terminal records a punch.
Punch ==
  /\ available < MaxPunches
  /\ available' = available + 1
  /\ UNCHANGED <<cursor, sync, content, job, bufferVars, recordVars, worker, faults, lost>>

\* Bull ignores an add() whose job id it knows, in whatever state that job is:
\* completed jobs are kept (the last 200), failed ones for good.  A manual run
\* has a fresh id; here it takes the entry of one that has ended.
TakesJob(s) ==
  sync[s].status \in IF s = "scheduled" THEN {"none"} ELSE {"none", "completed", "failed"}

EnqueueSync(s) ==
  /\ TakesJob(s)
  /\ sync' = [sync EXCEPT ![s] = SyncEntry("waiting", 0)]
  /\ UNCHANGED <<available, cursor, content, job, bufferVars, recordVars, worker, faults, lost>>

\* It reads the cursor and fetches the punches after it, oldest first.
StartSync(s) ==
  LET upto == IF available < cursor + BatchSize THEN available ELSE cursor + BatchSize IN
  /\ sync[s].status = "waiting"
  /\ IF upto <= cursor
     THEN sync' = [sync EXCEPT ![s] = SyncEntry("completed", 0)] /\ UNCHANGED content
     ELSE \E b \in Batches :
       /\ content[b] = {} /\ \A c \in Batches : c < b => content[c] # {}
       /\ content' = [content EXCEPT ![b] = (cursor + 1)..upto]
       /\ sync' = [sync EXCEPT ![s] = [status |-> "active", attempts |-> @.attempts,
                                       step |-> "submit", batch |-> b, upto |-> upto]]
  /\ UNCHANGED <<available, cursor, job, bufferVars, recordVars, worker, faults, lost>>

Goto(s, step) ==
  sync' = [sync EXCEPT ![s] = [status |-> "active", attempts |-> @.attempts,
                               step |-> step, batch |-> @.batch, upto |-> @.upto]]

Add(b) == job' = IF job[b].status = "none" THEN [job EXCEPT ![b] = Entry("waiting", 0)] ELSE job

\* Mutant: a batch that the queue does not take is given up.
SubmitOrDrop(s) ==
  /\ sync[s].step = "submit"
  /\ \/ Add(sync[s].batch) /\ Goto(s, "advance") /\ UNCHANGED faults
     \/ Fault("queue") /\ Goto(s, "advance") /\ UNCHANGED job
  /\ UNCHANGED <<available, cursor, content, bufferVars, recordVars, worker, lost>>

\* submit(): to the queue, or, if that fails or is at its limit, to the buffer.
Submit(s) ==
  /\ sync[s].step = "submit"
  /\ \/ Add(sync[s].batch) /\ Goto(s, "advance") /\ UNCHANGED faults
     \/ Fault("queue") /\ Goto(s, "persist") /\ UNCHANGED job
  /\ UNCHANGED <<available, cursor, content, bufferVars, recordVars, worker, lost>>

\* The buffer's row; if the INSERT fails, the sync run goes on all the same.
Persist(s) ==
  /\ sync[s].step = "persist"
  /\ \/ /\ row' = [row EXCEPT ![sync[s].batch] = Entry("buffered", 0)]
        /\ Goto(s, "push") /\ UNCHANGED <<faults, lost>>
     \/ /\ Fault("insert") /\ lost' = lost \cup content[sync[s].batch]
        /\ Goto(s, "advance") /\ UNCHANGED row
  /\ UNCHANGED <<available, cursor, content, job, list, drain, recordVars, worker>>

\* The buffer's list, unless it is full or Redis does not answer.
Push(s) ==
  /\ sync[s].step = "push"
  /\ \/ list' = list \cup {sync[s].batch} /\ UNCHANGED faults
     \/ Fault("redis") /\ UNCHANGED list
  /\ Goto(s, "advance")
  /\ UNCHANGED <<available, cursor, content, job, row, drain, recordVars, worker, lost>>

\* setCursor, whatever became of the batch, and whatever the cursor is by now.
AdvanceCursor(s) ==
  /\ sync[s].step = "advance"
  /\ cursor' = sync[s].upto
  /\ sync' = [sync EXCEPT ![s] = SyncEntry("completed", 0)]
  /\ UNCHANGED <<available, content, job, bufferVars, recordVars, worker, faults, lost>>

\* A query, the terminal or the process fails: Bull tries again from the start.
SyncFails(s) ==
  LET attempts == sync[s].attempts + 1 IN
  /\ sync[s].status \in {"waiting", "active"} /\ attempts <= MaxAttempts
  /\ Fault("sync")
  /\ sync' = [sync EXCEPT ![s] =
       SyncEntry(IF attempts < MaxAttempts THEN "waiting" ELSE "failed", attempts)]
  /\ UNCHANGED <<available, cursor, content, job, bufferVars, recordVars, worker, lost>>

SyncStep(s) ==
  StartSync(s) \/ Submit(s) \/ Persist(s) \/ Push(s) \/ AdvanceCursor(s) \/ SyncFails(s)

-----------------------------------------------------------------------------
(* The drain of the buffer, every 60 seconds.                               *)

Due(b) == row[b].status \in {"buffered", "failed"} /\ row[b].attempts < MaxDrains

BeginDrain ==
  /\ drain.step = "idle" /\ \E b \in Batches : Due(b)
  /\ drain' = DrainAt("pop", NoBatch)
  /\ UNCHANGED <<sourceVars, job, row, list, recordVars, worker, faults, lost>>

PopList ==
  /\ drain.step = "pop"
  /\ \E b \in list :
       /\ list' = list \ {b}
       /\ drain' = DrainAt("popped", b)
  /\ UNCHANGED <<sourceVars, job, row, recordVars, worker, faults, lost>>

EnqueuePopped ==
  /\ drain.step = "popped"
  /\ \/ /\ Add(drain.batch) /\ drain' = DrainAt("pop", NoBatch)
        /\ UNCHANGED <<list, faults>>
     \/ /\ Fault("queue") /\ list' = list \cup {drain.batch}
        /\ drain' = DrainAt("select", NoBatch) /\ UNCHANGED job
  /\ UNCHANGED <<sourceVars, row, recordVars, worker, lost>>

SelectRows ==
  /\ drain.step = "select" \/ (drain.step = "pop" /\ list = {})
  /\ drain' = [step |-> "rows", batch |-> NoBatch, todo |-> {b \in Batches : Due(b)}]
  /\ UNCHANGED <<sourceVars, job, row, list, recordVars, worker, faults, lost>>

EnqueueRow ==
  /\ drain.step = "rows"
  /\ \E b \in drain.todo :
       /\ \A c \in drain.todo : b <= c
       /\ Add(b)
       /\ drain' = [step |-> "mark", batch |-> b, todo |-> drain.todo \ {b}]
  /\ UNCHANGED <<sourceVars, row, list, recordVars, worker, faults, lost>>

\* Mutant: a status that the table does not know.
MarkWaiting ==
  /\ drain.step = "mark"
  /\ row' = [row EXCEPT ![drain.batch] = Entry("waiting", @.attempts + 1)]
  /\ drain' = [step |-> "rows", batch |-> NoBatch, todo |-> drain.todo]
  /\ UNCHANGED <<sourceVars, job, list, recordVars, worker, faults, lost>>

\* Whatever the status of the row is by now.
MarkQueued ==
  /\ drain.step = "mark"
  /\ row' = [row EXCEPT ![drain.batch] = Entry("queued", @.attempts + 1)]
  /\ drain' = [step |-> "rows", batch |-> NoBatch, todo |-> drain.todo]
  /\ UNCHANGED <<sourceVars, job, list, recordVars, worker, faults, lost>>

\* The queue, or the UPDATE, fails: the row counts an attempt, the drain ends.
RowFails ==
  \E b \in Batches :
    /\ \/ drain.step = "rows" /\ b \in drain.todo /\ \A c \in drain.todo : b <= c
       \/ drain.step = "mark" /\ b = drain.batch
    /\ Fault("queue")
    /\ row' = [row EXCEPT ![b] = Entry("failed", @.attempts + 1)]
    /\ drain' = DrainIdle
    /\ UNCHANGED <<sourceVars, job, list, recordVars, worker, lost>>

EndDrain ==
  /\ drain.step = "rows" /\ drain.todo = {}
  /\ drain' = DrainIdle
  /\ UNCHANGED <<sourceVars, job, row, list, recordVars, worker, faults, lost>>

\* The process, Redis or the database fails, with a batch popped or not.
DrainDies ==
  /\ drain.step # "idle" /\ Fault("drain")
  /\ drain' = DrainIdle
  /\ UNCHANGED <<sourceVars, job, row, list, recordVars, worker, lost>>

DrainStep ==
  \/ BeginDrain \/ PopList \/ EnqueuePopped \/ SelectRows \/ EnqueueRow \/ MarkQueued
  \/ RowFails \/ EndDrain \/ DrainDies

-----------------------------------------------------------------------------
(* The workers of the ingestion queue.                                      *)

TakeJob(w, b) ==
  /\ worker[w] = Idle /\ job[b].status = "waiting"
  /\ job' = [job EXCEPT ![b] = Entry("active", @.attempts)]
  /\ worker' = [worker EXCEPT ![w] = Work("select", b, {}, {}, {})]
  /\ UNCHANGED <<sourceVars, bufferVars, recordVars, faults, lost>>

\* Mutant: the punches are registered as soon as they are looked up.
SelectRegistering(w) ==
  LET fresh == content[worker[w].batch] \ fingerprints IN
  /\ worker[w].step = "select"
  /\ fingerprints' = fingerprints \cup fresh
  /\ worker' = [worker EXCEPT ![w] =
       Work(IF fresh = {} THEN "punches" ELSE "register", @.batch, fresh, {}, {})]
  /\ UNCHANGED <<sourceVars, job, bufferVars, entries, review, unmapped, faults, lost>>

\* filterDuplicates: first it looks which fingerprints are known ...
SelectFresh(w) ==
  LET fresh == content[worker[w].batch] \ fingerprints IN
  /\ worker[w].step = "select"
  /\ worker' = [worker EXCEPT ![w] =
       Work(IF fresh = {} THEN "punches" ELSE "register", @.batch, fresh, {}, {})]
  /\ UNCHANGED <<sourceVars, job, bufferVars, recordVars, faults, lost>>

\* ... then it registers the others; whose codes are known is looked up once.
Register(w) ==
  /\ worker[w].step = "register"
  /\ fingerprints' = fingerprints \cup worker[w].todo
  /\ worker' = [worker EXCEPT ![w] = Work("punches", @.batch, @.todo, @.todo \cap unmapped, {})]
  /\ UNCHANGED <<sourceVars, job, bufferVars, entries, review, unmapped, faults, lost>>

\* The punches are processed in the order of their timestamps.
Turn(w, p) == p \in worker[w].todo /\ \A q \in worker[w].todo : p <= q
SameRecord(p) == {q \in Punches : Record[q] = Record[p]}
Done(w, p) ==
  worker' = [worker EXCEPT ![w] = Work("punches", @.batch, @.todo \ {p}, @.unknown, {})]

Reviewed(p, s) == review' = [review EXCEPT ![p] = s]

\* A punch whose review is known already keeps it as it is (ON CONFLICT).
ReviewPunch(w, p) ==
  /\ worker[w].step = "punches" /\ Turn(w, p) /\ p \in worker[w].unknown
  /\ IF review[p] = "none" THEN Reviewed(p, "pending") ELSE UNCHANGED review
  /\ Done(w, p)
  /\ UNCHANGED <<sourceVars, job, bufferVars, fingerprints, entries, unmapped, faults, lost>>

ReadRecord(w, p) ==
  /\ worker[w].step = "punches" /\ Turn(w, p) /\ p \notin worker[w].unknown
  /\ worker' = [worker EXCEPT ![w] =
       Work("write", @.batch, @.todo, @.unknown, entries \cap SameRecord(p))]
  /\ UNCHANGED <<sourceVars, job, bufferVars, recordVars, faults, lost>>

\* The record's sequence becomes what was read and the punch.
Merged(w, p) == (entries \ SameRecord(p)) \cup worker[w].read \cup {p}

WriteRecord(w, p) ==
  /\ worker[w].step = "write" /\ Turn(w, p)
  /\ entries' = Merged(w, p)
  /\ Done(w, p)
  /\ UNCHANGED <<sourceVars, job, bufferVars, fingerprints, review, unmapped, faults, lost>>

\* An error on one punch is caught: the batch goes on without it.
PunchFails(w, p) ==
  /\ worker[w].step \in {"punches", "write"} /\ Turn(w, p) /\ p \notin worker[w].unknown
  /\ Fault("punch")
  /\ lost' = lost \cup {p}
  /\ Done(w, p)
  /\ UNCHANGED <<sourceVars, job, bufferVars, recordVars>>

Open == {"buffered", "queued", "failed"}

\* markProcessed, whose errors are swallowed ...
MarkProcessed(w) ==
  LET b == worker[w].batch IN
  /\ worker[w].step = "punches" /\ worker[w].todo = {}
  /\ \/ /\ row' = IF row[b].status \in Open
                  THEN [row EXCEPT ![b] = Entry("processed", @.attempts)] ELSE row
        /\ UNCHANGED faults
     \/ Fault("mark") /\ UNCHANGED row
  /\ worker' = [worker EXCEPT ![w] = Work("done", b, {}, {}, {})]
  /\ UNCHANGED <<sourceVars, job, list, drain, recordVars, lost>>

\* ... and the job is completed.
FinishJob(w) ==
  /\ worker[w].step = "done"
  /\ job' = [job EXCEPT ![worker[w].batch] = Entry("completed", @.attempts)]
  /\ worker' = [worker EXCEPT ![w] = Idle]
  /\ UNCHANGED <<sourceVars, bufferVars, recordVars, faults, lost>>

\* The attempt fails: another one, or, after the last, the job is failed and
\* its row too, if that UPDATE arrives.  What it had registered and not yet
\* processed, the next attempt drops as known.
JobFails(w) ==
  LET b        == worker[w].batch
      attempts == IF job[b].attempts < MaxAttempts THEN job[b].attempts + 1 ELSE MaxAttempts
  IN
  /\ \/ worker[w].step \in {"select", "register"} /\ Fault("attempt") /\ UNCHANGED lost
     \/ /\ worker[w].step \in {"punches", "write", "done"} /\ Fault("late attempt")
        /\ lost' = lost \cup worker[w].todo
  /\ job' = [job EXCEPT ![b] =
       Entry(IF attempts < MaxAttempts THEN "waiting" ELSE "failed", attempts)]
  /\ \/ UNCHANGED row
     \/ /\ attempts = MaxAttempts /\ row[b].status \in Open
        /\ row' = [row EXCEPT ![b] = Entry("failed", @.attempts)]
  /\ worker' = [worker EXCEPT ![w] = Idle]
  /\ UNCHANGED <<sourceVars, list, drain, recordVars>>

\* An administrator retries a failed job.
RetryFailed(b) ==
  /\ job[b].status = "failed"
  /\ job' = [job EXCEPT ![b] = Entry("waiting", @.attempts)]
  /\ UNCHANGED <<sourceVars, bufferVars, recordVars, worker, faults, lost>>

\* HR gives an employee the code of a punch under review (external).
MapEmployee(p) ==
  /\ p \in unmapped /\ review[p] = "pending"
  /\ unmapped' = unmapped \ {p}
  /\ UNCHANGED <<sourceVars, job, bufferVars, fingerprints, entries, review, worker, faults, lost>>

\* retryPendingPunchReviews selects a punch under review whose code has become
\* known, ...
BeginResolve(w, p) ==
  /\ worker[w] = Idle /\ review[p] = "pending" /\ p \notin unmapped
  /\ worker' = [worker EXCEPT ![w] = Work("retry", NoBatch, {p}, {}, {})]
  /\ UNCHANGED <<sourceVars, job, bufferVars, recordVars, faults, lost>>

Resolving(w, p, step) == worker[w].step = step /\ p \in worker[w].todo

\* ... marks it, whatever has become of it since, and reads its record, ...
MarkRetrying(w, p) ==
  /\ Resolving(w, p, "retry")
  /\ Reviewed(p, "retrying")
  /\ worker' = [worker EXCEPT ![w] =
       Work("resolve", NoBatch, {p}, {}, entries \cap SameRecord(p))]
  /\ UNCHANGED <<sourceVars, job, bufferVars, fingerprints, entries, unmapped, faults, lost>>

\* ... and writes it like a worker does and closes the review.  An error, before or
\* after the write, leaves the review to another retry; if the process dies, or
\* that UPDATE fails too, the review stays "retrying", and nothing selects it again.
\* What others do between the write and the review is as if it came after.
EndResolve(w, p) ==
  /\ Resolving(w, p, "resolve")
  /\ \/ entries' = Merged(w, p) /\ Reviewed(p, "processed") /\ UNCHANGED <<faults, lost>>
     \/ /\ Fault("punch") /\ Reviewed(p, "pending")
        /\ entries' \in {entries, Merged(w, p)} /\ UNCHANGED lost
     \/ /\ Fault("retry") /\ UNCHANGED review
        /\ \/ entries' = Merged(w, p) /\ UNCHANGED lost
           \/ UNCHANGED entries /\ lost' = lost \cup {p}
  /\ worker' = [worker EXCEPT ![w] = Idle]
  /\ UNCHANGED <<sourceVars, job, bufferVars, fingerprints, unmapped>>

PunchStep(w) ==
  \/ \E b \in Batches : TakeJob(w, b)
  \/ SelectFresh(w) \/ Register(w) \/ MarkProcessed(w) \/ FinishJob(w) \/ JobFails(w)
  \/ \E p \in Punches : ReviewPunch(w, p) \/ ReadRecord(w, p) \/ WriteRecord(w, p)
                        \/ PunchFails(w, p) \/ MarkRetrying(w, p) \/ EndResolve(w, p)

Administer ==
  \/ \E b \in Batches : RetryFailed(b)
  \/ \E p \in Punches : MapEmployee(p) \/ \E w \in PunchWorkers : BeginResolve(w, p)

PunchNext ==
  \/ Punch \/ DrainStep \/ Administer
  \/ \E s \in SyncJobs : EnqueueSync(s) \/ SyncStep(s)
  \/ \E w \in PunchWorkers : PunchStep(w)

PunchSpec == PunchInit /\ [][PunchNext]_punchVars

\* The cron of the sync and the interval of the drain fire again and again;
\* Bull starts what waits, and a worker or request that has begun goes on.
PunchFairness ==
  /\ \A s \in SyncJobs : WF_punchVars(SyncStep(s))
  /\ WF_punchVars("scheduled" \in SyncJobs /\ EnqueueSync("scheduled"))
  /\ WF_punchVars(DrainStep)
  /\ \A w \in PunchWorkers : WF_punchVars(PunchStep(w))

FairPunchSpec == PunchSpec /\ PunchFairness

-----------------------------------------------------------------------------
(* Properties.                                                              *)

\* "Guaranteeing at-least-once delivery into the punch queue": a punch that the
\* cursor has passed is registered, or in a batch that a job or a buffered row
\* still holds, unless that very row could not be inserted.
Held(b) ==
  \/ job[b].status \in {"waiting", "active", "failed"}
  \/ row[b].status \in {"buffered", "failed"}
HandedOver ==
  \A p \in 1..cursor :
    p \in fingerprints \cup lost \/ \E b \in Batches : p \in content[b] /\ Held(b)

\* A punch that the cursor has passed reaches its record or is put under review,
\* whatever goes wrong before it is registered and however often its window is
\* fetched; or its batch is left to an administrator, after the last attempt.
LeftToAdministrator(b) ==
  job[b].status = "failed" \/ (row[b].status = "failed" /\ row[b].attempts = MaxDrains)
FetchedIsCounted ==
  \A p \in Punches : p <= cursor ~>
    \/ p \in entries \cup lost \/ review[p] = "pending"
    \/ \E b \in Batches : p \in content[b] /\ LeftToAdministrator(b)

\* "A failed run leaves the cursor unchanged and the next run re-fetches the
\* same window": there is a next run, and in the end every punch is fetched.
EveryPunchFetched ==
  \A p \in Punches : p <= available ~> p <= cursor
=============================================================================
