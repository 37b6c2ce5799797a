------------------------------ MODULE JobQueue ------------------------------
(***************************************************************************)
(* The `jobs` table and everyone who touches it: the TypeScript worker     *)
(* (apps/web/lib/jobs/worker.ts, run by the standalone loop of             *)
(* scripts/worker.ts and by every page load's after() hook), the Python    *)
(* ingest worker (apps/ingest/ingest/jobs.py, worker.py), and the requests *)
(* that enqueue.  One action is one SQL statement (or one transaction)     *)
(* together with the local steps up to the next await.                     *)
(*                                                                         *)
(* Time is abstract.  `locked_at` is fresh or stale (older than            *)
(* STALE_RUNNING_MS); `run_after` has come (due) or not; `before` is the   *)
(* order of run_after among the due rows.  `created_at` is the row's id.   *)
(***************************************************************************)
EXTENDS Naturals, FiniteSets

CONSTANTS
  TsWorkers,      \* loops that call runDueJobs: the worker process, page loads
  PyWorkers,      \* Python ingest worker processes
  Requests,       \* web requests that call enqueueJob
  Users,
  CalendarKinds,  \* CALENDAR_JOB_KINDS
  RenewKind,      \* calendar_renew_watch, the kind whose handler enqueues
  RequestKinds,   \* the kinds some route or cadence step enqueues
  IngestKinds,    \* ingest_document, detect_textbook_toc, fill_textbook_chapter
  FirstSweepOf,   \* the user a first renewal row was inserted for, or None
  MaxAttempts,    \* MAX_ATTEMPTS, INGEST_MAX_ATTEMPTS
  SlowHandlers,   \* may a live handler run for longer than STALE_RUNNING_MS?
  MaxJobs,        \* bound: rows ever inserted
  MaxCrashes,     \* bound: worker deaths
  None

ASSUME QueueAssumption ==
  /\ MaxAttempts \in Nat \ {0}
  /\ MaxJobs \in Nat \ {0}
  /\ MaxCrashes \in Nat
  /\ SlowHandlers \in BOOLEAN
  /\ IsFiniteSet(Requests) /\ Requests # {}
  /\ TsWorkers \cap PyWorkers = {}
  /\ CalendarKinds \cap IngestKinds = {}
  /\ RequestKinds \subseteq CalendarKinds
  /\ RenewKind \in CalendarKinds
  /\ FirstSweepOf \in Users \cup {None}
  /\ None \notin TsWorkers \cup PyWorkers \cup Users \cup CalendarKinds \cup IngestKinds
  /\ None \notin 1 .. MaxJobs

VARIABLES
  jobs,      \* the table
  before,    \* <<i, j>>: rows i and j are due, and run_after of i is earlier
  worker,    \* what each worker process is doing
  request,   \* an enqueueJob call between its SELECT and its INSERT
  crashes    \* worker deaths so far

vars == <<jobs, before, worker, request, crashes>>

-----------------------------------------------------------------------------
Workers == TsWorkers \cup PyWorkers
JobId   == 1 .. MaxJobs
Kinds   == CalendarKinds \cup IngestKinds

Job ==
  [user     : Users \cup {None},
   kind     : Kinds \cup {None},
   status   : {"absent", "pending", "running", "done", "failed"},
   attempts : 0 .. MaxAttempts,
   lock     : {"none", "fresh", "stale"},
   due      : BOOLEAN]

NoJob == [user |-> None, kind |-> None, status |-> "absent", attempts |-> 0,
          lock |-> "none", due |-> FALSE]

\* A worker's stack frame: the row it claimed, the attempts it read with it.
\* "working" is before a renewal handler's own enqueueJob, "enqueueing" between
\* that call's SELECT and INSERT, "enqueued" after it.
Frame == [phase    : {"idle", "claiming", "working", "enqueueing", "enqueued"},
          job      : JobId \cup {None},
          attempts : 0 .. MaxAttempts]

Idle == [phase |-> "idle", job |-> None, attempts |-> 0]

Call == [user : Users, kind : RequestKinds]

TypeOK ==
  /\ jobs \in [JobId -> Job]
  /\ before \subseteq JobId \X JobId
  /\ worker \in [Workers -> Frame]
  /\ request \in [Requests -> Call \cup {None}]
  /\ crashes \in 0 .. MaxCrashes

-----------------------------------------------------------------------------
Due    == {j \in JobId : jobs[j].due /\ jobs[j].status \in {"pending", "running"}}

\* Mutant of Live: a running row does not count as there.
LivePending(u, k) ==
  {j \in JobId : jobs[j].user = u /\ jobs[j].kind = k /\ jobs[j].status = "pending"}

Live(u, k) ==
  {j \in JobId : jobs[j].user = u /\ jobs[j].kind = k
                   /\ jobs[j].status \in {"pending", "running"}}
Terminal(j) == jobs[j].status \in {"done", "failed"}
Held(j) == \E w \in Workers : worker[w].job = j

Behind(j)  == before \cup {<<i, j>> : i \in Due}
Without(j) == {p \in before : p[1] # j /\ p[2] # j}

FreshRow(u, k, isDue) ==
  [user |-> u, kind |-> k, status |-> "pending", attempts |-> 0,
   lock |-> "none", due |-> isDue]

\* INSERT INTO jobs; the ids grow with created_at.
Insert(u, k, isDue) ==
  \E j \in JobId :
    /\ jobs[j].status = "absent"
    /\ \A i \in JobId : i < j => jobs[i].status # "absent"
    /\ jobs' = [jobs EXCEPT ![j] = FreshRow(u, k, isDue)]
    /\ before' = IF isDue THEN Behind(j) ELSE before

Init ==
  /\ jobs = [j \in JobId |->
               IF j = 1 /\ FirstSweepOf # None
               THEN FreshRow(FirstSweepOf, RenewKind, TRUE) ELSE NoJob]
  /\ before = {}
  /\ worker = [w \in Workers |-> Idle]
  /\ request = [r \in Requests |-> None]
  /\ crashes = 0

-----------------------------------------------------------------------------
(* enqueueJob: a SELECT, an await, an INSERT. *)

EnqueueCheck(r, u, k) ==
  /\ request[r] = None
  /\ Live(u, k) = {}
  /\ request' = [request EXCEPT ![r] = [user |-> u, kind |-> k]]
  /\ UNCHANGED <<jobs, before, worker, crashes>>

EnqueueInsert(r) ==
  /\ request[r] # None
  /\ Insert(request[r].user, request[r].kind, TRUE)
  /\ request' = [request EXCEPT ![r] = None]
  /\ UNCHANGED <<worker, crashes>>

\* The upload hand-off of the web app, and the worker's own follow-up jobs,
\* insert ingest rows with no check.
IngestInsert(u, k) ==
  /\ Insert(u, k, TRUE)
  /\ UNCHANGED <<worker, request, crashes>>

-----------------------------------------------------------------------------
(* The clock. *)

\* run_after <= now() becomes true of a pending row.
ComeDue(j) ==
  /\ jobs[j].status = "pending" /\ ~jobs[j].due
  /\ jobs' = [jobs EXCEPT ![j].due = TRUE]
  /\ before' = Behind(j)
  /\ UNCHANGED <<worker, request, crashes>>

\* locked_at of a running row becomes older than STALE_RUNNING_MS.
LockAges(j) ==
  /\ jobs[j].status = "running" /\ jobs[j].lock = "fresh"
  /\ Held(j) => SlowHandlers
  /\ jobs' = [jobs EXCEPT ![j].lock = "stale"]
  /\ UNCHANGED <<before, worker, request, crashes>>

-----------------------------------------------------------------------------
(* The TypeScript worker. *)

\* Mutant of ReclaimStaleJobs: clears the lock and leaves the status.
ReclaimLockOnly(w) ==
  /\ worker[w].phase = "idle"
  /\ jobs' = [j \in JobId |->
                IF jobs[j].status = "running" /\ jobs[j].lock = "stale"
                THEN [jobs[j] EXCEPT !.lock = "none"] ELSE jobs[j]]
  /\ worker' = [worker EXCEPT ![w].phase = "claiming"]
  /\ UNCHANGED <<before, request, crashes>>

\* reclaimStaleJobs: every running row with an old lock, whatever its kind.
ReclaimStaleJobs(w) ==
  /\ worker[w].phase = "idle"
  /\ jobs' = [j \in JobId |->
                IF jobs[j].status = "running" /\ jobs[j].lock = "stale"
                THEN [jobs[j] EXCEPT !.status = "pending", !.lock = "none"]
                ELSE jobs[j]]
  /\ worker' = [worker EXCEPT ![w].phase = "claiming"]
  /\ UNCHANGED <<before, request, crashes>>

\* Mutant of Claimable: forgets the status condition for running rows.
ClaimableRunning(kinds) ==
  {j \in JobId : jobs[j].status \in {"pending", "running"} /\ jobs[j].due /\ jobs[j].kind \in kinds}

\* Mutant of Claimable: takes failed rows again.
ClaimableFailed(kinds) ==
  {j \in JobId : jobs[j].status \in {"pending", "failed"} /\ jobs[j].due /\ jobs[j].kind \in kinds}

Claimable(kinds) ==
  {j \in JobId : jobs[j].status = "pending" /\ jobs[j].due /\ jobs[j].kind \in kinds}

Claimed(j) == [jobs EXCEPT ![j].status = "running", ![j].lock = "fresh"]

\* claimOne's UPDATE ... WHERE id = (SELECT ... ORDER BY run_after LIMIT 1).
ClaimOne(w) ==
  /\ worker[w].phase = "claiming"
  /\ \/ \E j \in Claimable(CalendarKinds) :
          /\ \A i \in Claimable(CalendarKinds) : <<i, j>> \notin before
          /\ jobs' = Claimed(j)
          /\ worker' = [worker EXCEPT ![w] =
                          [phase |-> "working", job |-> j, attempts |-> jobs[j].attempts]]
     \/ /\ Claimable(CalendarKinds) = {}
        /\ worker' = [worker EXCEPT ![w] = Idle]
        /\ UNCHANGED jobs
  /\ UNCHANGED <<before, request, crashes>>

\* A renewal sweep ends with scheduleNextSweep, itself an enqueueJob.
ScheduleNextSweep(w) ==
  /\ w \in TsWorkers
  /\ worker[w].phase = "working"
  /\ LET j == worker[w].job IN
       /\ jobs[j].kind = RenewKind
       /\ worker' = [worker EXCEPT ![w].phase =
                       IF Live(jobs[j].user, RenewKind) = {} THEN "enqueueing" ELSE "enqueued"]
  /\ UNCHANGED <<jobs, before, request, crashes>>

InsertNextSweep(w) ==
  /\ worker[w].phase = "enqueueing"
  /\ Insert(jobs[worker[w].job].user, RenewKind, FALSE)
  /\ worker' = [worker EXCEPT ![w].phase = "enqueued"]
  /\ UNCHANGED <<request, crashes>>

Succeeded(j) == [jobs EXCEPT ![j].status = "done"]

\* The handler returned: status = done, by id alone.
RunOk(w) ==
  /\ w \in TsWorkers
  /\ worker[w].phase \in {"working", "enqueued"}
  /\ jobs' = Succeeded(worker[w].job)
  /\ before' = Without(worker[w].job)
  /\ worker' = [worker EXCEPT ![w] = Idle]
  /\ UNCHANGED <<request, crashes>>

\* Mutant of Failed: > for >=.
FailedLate(j, attempts, permanent, lock) ==
  [jobs EXCEPT ![j] =
     IF permanent \/ attempts > MaxAttempts
     THEN [@ EXCEPT !.status = "failed", !.attempts = attempts, !.lock = lock]
     ELSE [@ EXCEPT !.status = "pending", !.attempts = attempts, !.lock = lock, !.due = FALSE]]

\* What a failure writes: the attempts read at the claim plus one, and either
\* the end of the job or a run_after in the future.
Failed(j, attempts, permanent, lock) ==
  [jobs EXCEPT ![j] =
     IF permanent \/ attempts >= MaxAttempts
     THEN [@ EXCEPT !.status = "failed", !.attempts = attempts, !.lock = lock]
     ELSE [@ EXCEPT !.status = "pending", !.attempts = attempts, !.lock = lock, !.due = FALSE]]

\* The handler threw; PermanentJobFailure ends the job at once.  (runOneJob's
\* branch for a kind without a handler is dead: claimOne takes CALENDAR_JOB_KINDS
\* only, and HANDLERS has one for each.)
RunFail(w, permanent) ==
  /\ w \in TsWorkers
  /\ worker[w].job # None
  /\ jobs' = Failed(worker[w].job, worker[w].attempts + 1, permanent, "none")
  /\ before' = Without(worker[w].job)
  /\ worker' = [worker EXCEPT ![w] = Idle]
  /\ UNCHANGED <<request, crashes>>

-----------------------------------------------------------------------------
(* The Python worker. *)

\* claim_job takes the oldest due row of ANY kind; run_once then reads
\* payload["documentId"] outside its try, which a calendar or planning payload
\* has not: main() logs the KeyError and the row stays running.
PyClaim(w) ==
  /\ worker[w].phase = "idle"
  /\ \E j \in Claimable(Kinds) :
       /\ \A i \in Claimable(Kinds) : j <= i
       /\ jobs' = Claimed(j)
       /\ worker' = [worker EXCEPT ![w] =
                       IF jobs[j].kind \in IngestKinds
                       THEN [phase |-> "working", job |-> j, attempts |-> jobs[j].attempts]
                       ELSE Idle]
  /\ UNCHANGED <<before, request, crashes>>

\* mark_done
PyDone(w) ==
  /\ w \in PyWorkers
  /\ worker[w].phase = "working"
  /\ jobs' = Succeeded(worker[w].job)
  /\ before' = Without(worker[w].job)
  /\ worker' = [worker EXCEPT ![w] = Idle]
  /\ UNCHANGED <<request, crashes>>

\* mark_failed, which leaves locked_at alone
PyFail(w, permanent) ==
  /\ w \in PyWorkers
  /\ worker[w].phase = "working"
  /\ jobs' = Failed(worker[w].job, worker[w].attempts + 1, permanent,
                    jobs[worker[w].job].lock)
  /\ before' = Without(worker[w].job)
  /\ worker' = [worker EXCEPT ![w] = Idle]
  /\ UNCHANGED <<request, crashes>>

\* A worker process dies at any await; its row stays as it was.  A failed
\* UPDATE of the catch block, or of mark_failed, ends the same way.
Crash(w) ==
  /\ worker[w].phase # "idle"
  /\ crashes < MaxCrashes
  /\ worker' = [worker EXCEPT ![w] = Idle]
  /\ crashes' = crashes + 1
  /\ UNCHANGED <<jobs, before, request>>

-----------------------------------------------------------------------------
Enqueue ==
  \/ \E r \in Requests, u \in Users, k \in RequestKinds : EnqueueCheck(r, u, k)
  \/ \E r \in Requests : EnqueueInsert(r)
  \/ \E u \in Users, k \in IngestKinds : IngestInsert(u, k)

Clock == \E j \in JobId : ComeDue(j) \/ LockAges(j)

Ts(w) ==
  \/ ReclaimStaleJobs(w)
  \/ ClaimOne(w)
  \/ ScheduleNextSweep(w)
  \/ InsertNextSweep(w)
  \/ RunOk(w)
  \/ \E permanent \in BOOLEAN : RunFail(w, permanent)

Py(w) ==
  \/ PyClaim(w)
  \/ PyDone(w)
  \/ \E permanent \in BOOLEAN : PyFail(w, permanent)

Next ==
  \/ Enqueue
  \/ Clock
  \/ \E w \in TsWorkers : Ts(w)
  \/ \E w \in PyWorkers : Py(w)
  \/ \E w \in Workers : Crash(w)

Spec == Init /\ [][Next]_vars

\* Every worker keeps polling and every handler returns (each outbound call has
\* a timeout); time passes.  A request may die between its two statements.
FairSpec ==
  /\ Spec
  /\ \A w \in TsWorkers : WF_vars(Ts(w))
  /\ \A w \in PyWorkers : WF_vars(Py(w))
  /\ \A j \in JobId : WF_vars(ComeDue(j)) /\ WF_vars(LockAges(j))

-----------------------------------------------------------------------------
(* Properties. *)

\* The table seen through JobContract: who holds a row is not in the table, so a
\* running row nobody holds is an orphan.
StateOf(j) ==
  CASE jobs[j].status = "absent"  -> "absent"
    [] jobs[j].status = "pending" -> "queued"
    [] jobs[j].status = "running" -> IF Held(j) THEN "held" ELSE "orphaned"
    [] jobs[j].status = "done"    -> "done"
    [] jobs[j].status = "failed"  -> "failed"

OwnersOf(j) == {w \in Workers : worker[w].job = j}

Contract ==
  INSTANCE JobContract WITH
    Job      <- JobId,
    Worker   <- Workers,
    MaxTries <- MaxAttempts,
    state    <- [j \in JobId |-> StateOf(j)],
    owners   <- [j \in JobId |-> OwnersOf(j)],
    tries    <- [j \in JobId |-> jobs[j].attempts]

\* The queue keeps JobContract: one holder per job, one end per job, one try per
\* failure (worker.ts:4-7, :76-92; jobs.py:47-76).
KeepsContract == Contract!CSpec

\* No row is worked on by two workers at once (worker.ts:4-7, jobs.py:8-9: the
\* SKIP LOCKED claim "cannot double-process a row").
NoDoubleProcessing ==
  \A v, w \in Workers : worker[v].job # None /\ worker[v].job = worker[w].job => v = w

\* A row that can still run has tries left, however many workers are on it
\* (MAX_ATTEMPTS, worker.ts:14, :82; config.py:66).
RetryBudget ==
  \A j \in JobId : jobs[j].status \in {"pending", "running"} => jobs[j].attempts < MaxAttempts

\* The enqueueJob calls for (u, k) that are past their SELECT.
Calling(u, k) ==
  {r \in Requests : request[r] # None /\ request[r].user = u /\ request[r].kind = k}

\* Rows never pile up: with the calls still to insert, a user has no more live
\* rows of a kind than there are requests that can race, however often they call,
\* and whatever is retried, reclaimed or swept meanwhile ("enqueue a duplicate,
\* which on the next navigation enqueued another", worker.ts:115-122).
RowsDoNotPileUp ==
  \A u \in Users, k \in CalendarKinds :
    Cardinality(Live(u, k)) + Cardinality(Calling(u, k)) <= Cardinality(Requests)

\* enqueueJob's promise (worker.ts:111): at most one live row of a calendar or
\* planning kind per user.  Two calls at once break it.
OneLiveRowPerKind ==
  \A u \in Users, k \in CalendarKinds : Cardinality(Live(u, k)) <= 1

\* The Python worker takes a row it has no code for.
Misclaim(w) ==
  /\ PyClaim(w)
  /\ \E j \in JobId : jobs'[j] # jobs[j] /\ jobs[j].kind \notin IngestKinds

\* A row left running without a worker is seen again: whatever crashes, every
\* row reaches done or failed ("rather than losing it to a dead process
\* forever", worker.ts:28-31), unless the Python worker goes on for ever taking
\* rows that are not its own.
NoJobIsLost ==
  \/ []<><<\E w \in PyWorkers : Misclaim(w)>>_vars
  \/ \A j \in JobId : jobs[j].status \in {"pending", "running"} ~> Terminal(j)
=============================================================================
