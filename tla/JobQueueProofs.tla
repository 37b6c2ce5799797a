--------------------------- MODULE JobQueueProofs ---------------------------
(***************************************************************************)
(* Proofs about JobQueue, for any number of users, kinds, rows, requests   *)
(* and workers.  Two inductive invariants: IInv needs nothing of the       *)
(* handlers; Exclusive needs that none outlasts its lock (~SlowHandlers).  *)
(***************************************************************************)
EXTENDS JobQueue, SetLemmas

\* A frame holds a row exactly in the phases of a running handler; the row was
\* inserted, and the attempts read with it are below the limit.
FrameInv ==
  \A w \in Workers :
    /\ worker[w].job # None <=> worker[w].phase \in {"working", "enqueueing", "enqueued"}
    /\ worker[w].job # None => jobs[worker[w].job].status # "absent"
    /\ worker[w].attempts < MaxAttempts

IInv == TypeOK /\ RetryBudget /\ FrameInv

-----------------------------------------------------------------------------
LEMMA KindsNotNone == None \notin Kinds
BY QueueAssumption DEF Kinds

LEMMA FreshRowType ==
  ASSUME NEW u \in Users \cup {None}, NEW k \in Kinds, NEW d \in BOOLEAN
  PROVE  FreshRow(u, k, d) \in Job
BY QueueAssumption DEF FreshRow, Job

\* What an INSERT changes: one absent row becomes a fresh pending one.
LEMMA InsertFacts ==
  ASSUME TypeOK, NEW u \in Users \cup {None}, NEW k \in Kinds, NEW d \in BOOLEAN,
         Insert(u, k, d)
  PROVE  /\ \E j \in JobId : /\ jobs[j].status = "absent"
                             /\ jobs' = [jobs EXCEPT ![j] = FreshRow(u, k, d)]
         /\ jobs' \in [JobId -> Job]
         /\ before' \subseteq JobId \X JobId
<1>1. PICK j \in JobId : /\ jobs[j].status = "absent"
                         /\ jobs' = [jobs EXCEPT ![j] = FreshRow(u, k, d)]
                         /\ before' = IF d THEN Behind(j) ELSE before
  BY DEF Insert
<1>2. jobs' \in [JobId -> Job]
  BY <1>1, FreshRowType DEF TypeOK
<1>3. before' \subseteq JobId \X JobId
  BY <1>1 DEF TypeOK, Behind, Due
<1>4. QED
  BY <1>1, <1>2, <1>3

\* An INSERT keeps the parts of IInv that speak of rows.
LEMMA InsertKeeps ==
  ASSUME IInv, NEW u \in Users \cup {None}, NEW k \in Kinds, NEW d \in BOOLEAN,
         Insert(u, k, d)
  PROVE  /\ RetryBudget'
         /\ \A i \in JobId : jobs[i].status # "absent" => jobs'[i] = jobs[i]
<1>1. PICK j \in JobId : /\ jobs[j].status = "absent"
                         /\ jobs' = [jobs EXCEPT ![j] = FreshRow(u, k, d)]
  BY InsertFacts DEF IInv
<1>2. \A i \in JobId : jobs'[i] = IF i = j THEN FreshRow(u, k, d) ELSE jobs[i]
  BY <1>1 DEF IInv, TypeOK
<1>3. RetryBudget'
  BY <1>2, QueueAssumption DEF IInv, RetryBudget, FreshRow
<1>4. QED
  BY <1>1, <1>2, <1>3

\* What a failed attempt writes.
LEMMA FailedFacts ==
  ASSUME TypeOK, RetryBudget, NEW j \in JobId, NEW a \in 1 .. MaxAttempts,
         NEW permanent \in BOOLEAN, NEW lock \in {"none", "fresh", "stale"},
         jobs' = Failed(j, a, permanent, lock)
  PROVE  /\ jobs' \in [JobId -> Job]
         /\ RetryBudget'
         /\ \A i \in JobId \ {j} : jobs'[i] = jobs[i]
         /\ jobs'[j].status \in {"failed", "pending"}
         /\ jobs'[j].status = "pending" => a < MaxAttempts
         /\ jobs'[j].attempts = a
<1>1. a \in 0 .. MaxAttempts
  BY QueueAssumption
<1>2. jobs[j] \in Job
  BY DEF TypeOK
<1>3. \E row \in Job : /\ jobs' = [jobs EXCEPT ![j] = row]
                       /\ row.status \in {"failed", "pending"}
                       /\ row.status = "pending" => a < MaxAttempts
                       /\ row.attempts = a
  <2> DEFINE over == [jobs[j] EXCEPT !.status = "failed", !.attempts = a, !.lock = lock]
             again == [jobs[j] EXCEPT !.status = "pending", !.attempts = a, !.lock = lock,
                                      !.due = FALSE]
  <2>1. CASE permanent \/ a >= MaxAttempts
    <3>1. jobs' = [jobs EXCEPT ![j] = over]
      BY <2>1 DEF Failed
    <3>2. over \in Job /\ over.status = "failed" /\ over.attempts = a
      BY <1>1, <1>2 DEF Job
    <3>3. QED
      BY <3>1, <3>2
  <2>2. CASE ~(permanent \/ a >= MaxAttempts)
    <3>1. jobs' = [jobs EXCEPT ![j] = again]
      BY <2>2 DEF Failed
    <3>2. again \in Job /\ again.status = "pending" /\ again.attempts = a
      BY <1>1, <1>2 DEF Job
    <3>3. a < MaxAttempts
      BY <2>2, <1>1, QueueAssumption
    <3>4. QED
      BY <3>1, <3>2, <3>3
  <2>3. QED
    BY <2>1, <2>2
<1>4. PICK row \in Job : /\ jobs' = [jobs EXCEPT ![j] = row]
                         /\ row.status \in {"failed", "pending"}
                         /\ row.status = "pending" => a < MaxAttempts
                         /\ row.attempts = a
  BY <1>3
<1>5. /\ jobs' \in [JobId -> Job]
      /\ jobs'[j] = row
      /\ \A i \in JobId \ {j} : jobs'[i] = jobs[i]
  BY <1>4 DEF TypeOK
<1>6. RetryBudget'
  BY <1>4, <1>5 DEF RetryBudget
<1>7. QED
  BY <1>4, <1>5, <1>6

-----------------------------------------------------------------------------
\* A worker with nothing to do.
LEMMA IdleFrame == Idle \in Frame /\ Idle.job = None /\ Idle.attempts < MaxAttempts
                     /\ Idle.phase = "idle"
BY QueueAssumption DEF Idle, Frame

LEMMA InitIInv == Init => IInv
<1> SUFFICES ASSUME Init PROVE IInv
  OBVIOUS
<1>1. FirstSweepOf # None => FreshRow(FirstSweepOf, RenewKind, TRUE) \in Job
  BY FreshRowType, QueueAssumption DEF Kinds
<1>2. NoJob \in Job
  BY QueueAssumption DEF NoJob, Job
<1>3. jobs \in [JobId -> Job]
  BY <1>1, <1>2 DEF Init
<1>4. TypeOK
  <2>1. Idle \in Frame
    BY QueueAssumption DEF Frame, Idle
  <2>2. crashes \in 0 .. MaxCrashes
    BY QueueAssumption DEF Init
  <2>3. QED
    BY <1>3, <2>1, <2>2 DEF Init, TypeOK
<1>5. RetryBudget
  BY QueueAssumption DEF Init, RetryBudget, NoJob, FreshRow
<1>6. FrameInv
  <2>1. \A w \in Workers : worker[w] = Idle
    BY DEF Init
  <2>2. QED
    BY <2>1, IdleFrame DEF FrameInv
<1>7. QED
  BY <1>4, <1>5, <1>6 DEF IInv

-----------------------------------------------------------------------------
\* A worker that goes idle while no row disappears keeps FrameInv.
LEMMA LetGo ==
  ASSUME IInv, NEW w \in Workers, worker' = [worker EXCEPT ![w] = Idle],
         \A j \in JobId : jobs[j].status # "absent" => jobs'[j].status # "absent"
  PROVE  FrameInv' /\ worker' \in [Workers -> Frame]
<1>1. worker' \in [Workers -> Frame]
  BY IdleFrame DEF IInv, TypeOK
<1>2. \A v \in Workers : worker'[v] = IF v = w THEN Idle ELSE worker[v]
  BY DEF IInv, TypeOK
<1>3. \A v \in Workers : worker[v] \in Frame
  BY DEF IInv, TypeOK
<1>4. FrameInv'
  BY <1>2, <1>3, IdleFrame DEF IInv, FrameInv, Frame
<1>5. QED
  BY <1>1, <1>4

\* A claim: the row turns running and the worker's frame is about it, or idle.
LEMMA ClaimKeeps ==
  ASSUME IInv, NEW w \in Workers, NEW j \in JobId, NEW f \in Frame,
         jobs[j].status = "pending", jobs' = Claimed(j),
         worker' = [worker EXCEPT ![w] = f],
         \/ f = Idle
         \/ f = [phase |-> "working", job |-> j, attempts |-> jobs[j].attempts]
  PROVE  /\ jobs' \in [JobId -> Job]
         /\ worker' \in [Workers -> Frame]
         /\ RetryBudget' /\ FrameInv'
<1>1. jobs[j] \in Job
  BY DEF IInv, TypeOK
<1>2. [jobs[j] EXCEPT !.status = "running", !.lock = "fresh"] \in Job
  BY <1>1 DEF Job
<1>3. jobs' = [jobs EXCEPT ![j] = [jobs[j] EXCEPT !.status = "running", !.lock = "fresh"]]
  BY <1>1 DEF Claimed, IInv, TypeOK
<1>4. jobs' \in [JobId -> Job]
  BY <1>2, <1>3 DEF IInv, TypeOK
<1>5. worker' \in [Workers -> Frame]
  BY DEF IInv, TypeOK
<1>6. \A i \in JobId : /\ i # j => jobs'[i] = jobs[i]
                       /\ i = j => jobs'[i].status = "running"
                                     /\ jobs'[i].attempts = jobs[i].attempts
  BY <1>1, <1>3 DEF IInv, TypeOK, Job
<1>7. RetryBudget'
  BY <1>6 DEF IInv, RetryBudget
<1>8. \A v \in Workers : worker'[v] = IF v = w THEN f ELSE worker[v]
  BY DEF IInv, TypeOK
<1>9. f.attempts < MaxAttempts
  BY IdleFrame DEF IInv, RetryBudget
<1>10. /\ f.job # None <=> f.phase \in {"working", "enqueueing", "enqueued"}
       /\ f.job # None => f.job = j
  BY IdleFrame, QueueAssumption DEF JobId
<1>11. \A v \in Workers : worker[v].job \in JobId \cup {None}
  BY DEF IInv, TypeOK, Frame
<1>12. FrameInv'
  BY <1>6, <1>8, <1>9, <1>10, <1>11 DEF IInv, FrameInv
<1>13. QED
  BY <1>4, <1>5, <1>7, <1>12

\* The end of a handler that went well.
LEMMA SucceedKeeps ==
  ASSUME IInv, NEW j \in JobId, jobs[j].status # "absent", jobs' = Succeeded(j),
         before' = Without(j)
  PROVE  /\ jobs' \in [JobId -> Job]
         /\ before' \subseteq JobId \X JobId
         /\ RetryBudget'
         /\ \A i \in JobId : jobs[i].status # "absent" => jobs'[i].status # "absent"
<1>1. jobs[j] \in Job
  BY DEF IInv, TypeOK
<1>2. [jobs[j] EXCEPT !.status = "done"] \in Job
  BY <1>1 DEF Job
<1>3. jobs' = [jobs EXCEPT ![j] = [jobs[j] EXCEPT !.status = "done"]]
  BY DEF Succeeded
<1>4. jobs' \in [JobId -> Job]
  BY <1>2, <1>3 DEF IInv, TypeOK
<1>5. \A i \in JobId : /\ i # j => jobs'[i] = jobs[i]
                       /\ i = j => jobs'[i].status = "done"
  BY <1>1, <1>3 DEF IInv, TypeOK, Job
<1>6. RetryBudget'
  BY <1>5 DEF IInv, RetryBudget
<1>7. before' \subseteq JobId \X JobId
  BY DEF IInv, TypeOK, Without
<1>8. QED
  BY <1>4, <1>5, <1>6, <1>7

-----------------------------------------------------------------------------
\* IInv under one step of each part of the system.

LEMMA EnqueueKeeps == IInv /\ Enqueue => IInv'
<1> SUFFICES ASSUME IInv, Enqueue PROVE IInv'
  OBVIOUS
<1>1. CASE \E r \in Requests, u \in Users, k \in RequestKinds : EnqueueCheck(r, u, k)
  <2>1. request' \in [Requests -> Call \cup {None}]
    BY <1>1 DEF EnqueueCheck, IInv, TypeOK, Call
  <2>2. QED
    BY <1>1, <2>1 DEF EnqueueCheck, IInv, TypeOK, RetryBudget, FrameInv
<1>2. ASSUME NEW u \in Users, NEW k \in Kinds, Insert(u, k, TRUE),
             request' \in [Requests -> Call \cup {None}], UNCHANGED <<worker, crashes>>
      PROVE  IInv'
  <2>1. /\ jobs' \in [JobId -> Job]
        /\ before' \subseteq JobId \X JobId
    BY <1>2, InsertFacts DEF IInv
  <2>2. /\ RetryBudget'
        /\ \A i \in JobId : jobs[i].status # "absent" => jobs'[i] = jobs[i]
    BY <1>2, InsertKeeps
  <2>3. \A w \in Workers : worker[w].job \in JobId \cup {None}
    BY DEF IInv, TypeOK, Frame
  <2>4. FrameInv'
    BY <1>2, <2>2, <2>3 DEF IInv, FrameInv
  <2>5. QED
    BY <1>2, <2>1, <2>2, <2>4 DEF IInv, TypeOK
<1>3. CASE \E r \in Requests : EnqueueInsert(r)
  <2>1. PICK r \in Requests : EnqueueInsert(r)
    BY <1>3
  <2>2. request[r] \in Call
    BY <2>1 DEF EnqueueInsert, IInv, TypeOK
  <2>3. request[r].user \in Users /\ request[r].kind \in Kinds
    BY <2>2, QueueAssumption DEF Call, Kinds
  <2>4. request' \in [Requests -> Call \cup {None}]
    BY <2>1 DEF EnqueueInsert, IInv, TypeOK
  <2>5. QED
    BY <1>2, <2>1, <2>3, <2>4 DEF EnqueueInsert
<1>4. CASE \E u \in Users, k \in IngestKinds : IngestInsert(u, k)
  BY <1>2, <1>4 DEF IngestInsert, Kinds, IInv, TypeOK
<1>5. QED
  BY <1>1, <1>3, <1>4 DEF Enqueue

LEMMA ClockKeeps == IInv /\ Clock => IInv'
<1> SUFFICES ASSUME IInv, NEW j \in JobId, ComeDue(j) \/ LockAges(j) PROVE IInv'
  BY DEF Clock
<1>1. jobs[j] \in Job
  BY DEF IInv, TypeOK
<1>2. PICK row \in Job : /\ jobs' = [jobs EXCEPT ![j] = row]
                         /\ row.status = jobs[j].status
                         /\ row.attempts = jobs[j].attempts
  <2>1. CASE ComeDue(j)
    <3>1. [jobs[j] EXCEPT !.due = TRUE] \in Job
      BY <1>1 DEF Job
    <3>2. jobs' = [jobs EXCEPT ![j] = [jobs[j] EXCEPT !.due = TRUE]]
      BY <2>1 DEF ComeDue
    <3>3. QED
      BY <3>1, <3>2, <1>1 DEF Job
  <2>2. CASE LockAges(j)
    <3>1. [jobs[j] EXCEPT !.lock = "stale"] \in Job
      BY <1>1 DEF Job
    <3>2. jobs' = [jobs EXCEPT ![j] = [jobs[j] EXCEPT !.lock = "stale"]]
      BY <2>2 DEF LockAges
    <3>3. QED
      BY <3>1, <3>2, <1>1 DEF Job
  <2>3. QED
    BY <2>1, <2>2
<1>3. before' \subseteq JobId \X JobId
  BY DEF ComeDue, LockAges, Behind, Due, IInv, TypeOK
<1>4. UNCHANGED <<worker, request, crashes>>
  BY DEF ComeDue, LockAges
<1>5. \A i \in JobId : jobs'[i].status = jobs[i].status /\ jobs'[i].attempts = jobs[i].attempts
  BY <1>2 DEF IInv, TypeOK
<1>6. \A w \in Workers : worker[w].job \in JobId \cup {None}
  BY DEF IInv, TypeOK, Frame
<1>7. TypeOK'
  BY <1>2, <1>3, <1>4 DEF IInv, TypeOK
<1>8. RetryBudget' /\ FrameInv'
  BY <1>4, <1>5, <1>6 DEF IInv, RetryBudget, FrameInv
<1>9. QED
  BY <1>7, <1>8 DEF IInv

LEMMA ReclaimKeeps == ASSUME IInv, NEW w \in Workers, ReclaimStaleJobs(w) PROVE IInv'
<1>1. \A j \in JobId : jobs[j] \in Job
  BY DEF IInv, TypeOK
<1>2. \A j \in JobId :
        [jobs[j] EXCEPT !.status = "pending", !.lock = "none"] \in Job
  BY <1>1 DEF Job
<1>3. jobs' \in [JobId -> Job]
  BY <1>1, <1>2, Zenon DEF ReclaimStaleJobs
<1>4. \A j \in JobId :
        /\ jobs'[j].attempts = jobs[j].attempts
        /\ jobs'[j].status # jobs[j].status
             => jobs[j].status = "running" /\ jobs'[j].status = "pending"
  BY <1>1, Zenon DEF ReclaimStaleJobs, Job
<1>5. [worker[w] EXCEPT !.phase = "claiming"] \in Frame /\ worker[w].job = None
  BY Zenon DEF IInv, TypeOK, FrameInv, Frame, ReclaimStaleJobs
<1>6. worker' = [worker EXCEPT ![w] = [worker[w] EXCEPT !.phase = "claiming"]]
  BY Zenon DEF ReclaimStaleJobs
<1>7. TypeOK'
  BY <1>3, <1>5, <1>6, Zenon DEF IInv, TypeOK, ReclaimStaleJobs
<1>8. RetryBudget'
  BY <1>4 DEF IInv, RetryBudget
<1>9. \A v \in Workers : /\ worker'[v].job = worker[v].job
                         /\ worker'[v].attempts = worker[v].attempts
                         /\ v # w => worker'[v].phase = worker[v].phase
                         /\ v = w => worker'[v].phase = "claiming"
  BY <1>6 DEF IInv, TypeOK, Frame
<1>10. \A v \in Workers : worker[v].job \in JobId \cup {None}
  BY DEF IInv, TypeOK, Frame
<1>11. FrameInv'
  BY <1>4, <1>5, <1>9, <1>10 DEF IInv, FrameInv
<1>12. QED
  BY <1>7, <1>8, <1>11 DEF IInv

LEMMA ClaimOneKeeps == ASSUME IInv, NEW w \in Workers, ClaimOne(w) PROVE IInv'
<1>1. CASE \E j \in Claimable(CalendarKinds) :
             /\ jobs' = Claimed(j)
             /\ worker' = [worker EXCEPT ![w] =
                  [phase |-> "working", job |-> j, attempts |-> jobs[j].attempts]]
  <2>1. PICK j \in Claimable(CalendarKinds) :
               /\ jobs' = Claimed(j)
               /\ worker' = [worker EXCEPT ![w] =
                    [phase |-> "working", job |-> j, attempts |-> jobs[j].attempts]]
    BY <1>1
  <2>2. j \in JobId /\ jobs[j].status = "pending" /\ jobs[j] \in Job
    BY DEF Claimable, IInv, TypeOK
  <2>3. [phase |-> "working", job |-> j, attempts |-> jobs[j].attempts] \in Frame
    BY <2>2 DEF Frame, Job
  <2>4. /\ jobs' \in [JobId -> Job]
        /\ worker' \in [Workers -> Frame]
        /\ RetryBudget' /\ FrameInv'
    BY <2>1, <2>2, <2>3, ClaimKeeps
  <2>5. QED
    BY <2>4 DEF ClaimOne, IInv, TypeOK
<1>2. CASE worker' = [worker EXCEPT ![w] = Idle] /\ UNCHANGED jobs
  <2>1. FrameInv' /\ worker' \in [Workers -> Frame]
    BY <1>2, LetGo
  <2>2. QED
    BY <1>2, <2>1 DEF ClaimOne, IInv, TypeOK, RetryBudget
<1>3. QED
  BY <1>1, <1>2 DEF ClaimOne

LEMMA PyClaimKeeps == ASSUME IInv, NEW w \in Workers, PyClaim(w) PROVE IInv'
<1>1. PICK j \in Claimable(Kinds) :
             /\ jobs' = Claimed(j)
             /\ worker' = [worker EXCEPT ![w] =
                  IF jobs[j].kind \in IngestKinds
                  THEN [phase |-> "working", job |-> j, attempts |-> jobs[j].attempts]
                  ELSE Idle]
  BY DEF PyClaim
<1>2. j \in JobId /\ jobs[j].status = "pending" /\ jobs[j] \in Job
  BY DEF Claimable, IInv, TypeOK
<1>3. [phase |-> "working", job |-> j, attempts |-> jobs[j].attempts] \in Frame
  BY <1>2 DEF Frame, Job
<1>4. /\ jobs' \in [JobId -> Job]
      /\ worker' \in [Workers -> Frame]
      /\ RetryBudget' /\ FrameInv'
  <2>1. CASE jobs[j].kind \in IngestKinds
    BY <1>1, <1>2, <1>3, <2>1, ClaimKeeps
  <2>2. CASE jobs[j].kind \notin IngestKinds
    BY <1>1, <1>2, <2>2, IdleFrame, ClaimKeeps
  <2>3. QED
    BY <2>1, <2>2
<1>5. QED
  BY <1>4 DEF PyClaim, IInv, TypeOK

LEMMA SweepKeeps ==
  ASSUME IInv, NEW w \in Workers, ScheduleNextSweep(w) \/ InsertNextSweep(w)
  PROVE  IInv'
<1>1. worker[w] \in Frame /\ worker[w].job \in JobId
  BY DEF IInv, TypeOK, FrameInv, Frame, ScheduleNextSweep, InsertNextSweep
<1>2. PICK phase \in {"enqueueing", "enqueued"} :
             worker' = [worker EXCEPT ![w] = [worker[w] EXCEPT !.phase = phase]]
  BY DEF ScheduleNextSweep, InsertNextSweep
<1>3. worker' \in [Workers -> Frame]
  BY <1>1, <1>2 DEF IInv, TypeOK, Frame
<1>4. \A v \in Workers : /\ worker'[v].job = worker[v].job
                         /\ worker'[v].attempts = worker[v].attempts
                         /\ v # w => worker'[v].phase = worker[v].phase
                         /\ v = w => worker'[v].phase = phase
  BY <1>1, <1>2 DEF IInv, TypeOK, Frame
<1>5. /\ jobs' \in [JobId -> Job]
      /\ before' \subseteq JobId \X JobId
      /\ RetryBudget'
      /\ \A i \in JobId : jobs[i].status # "absent" => jobs'[i].status # "absent"
  <2>1. CASE ScheduleNextSweep(w)
    BY <2>1 DEF ScheduleNextSweep, IInv, TypeOK, RetryBudget
  <2>2. CASE InsertNextSweep(w)
    <3>1. jobs[worker[w].job].user \in Users \cup {None}
      BY <1>1 DEF IInv, TypeOK, Job
    <3>2. RenewKind \in Kinds
      BY QueueAssumption DEF Kinds
    <3>3. Insert(jobs[worker[w].job].user, RenewKind, FALSE)
      BY <2>2 DEF InsertNextSweep
    <3>4. /\ jobs' \in [JobId -> Job]
          /\ before' \subseteq JobId \X JobId
      BY <3>1, <3>2, <3>3, InsertFacts DEF IInv
    <3>5. /\ RetryBudget'
          /\ \A i \in JobId : jobs[i].status # "absent" => jobs'[i] = jobs[i]
      BY <3>1, <3>2, <3>3, InsertKeeps
    <3>6. QED
      BY <3>4, <3>5
  <2>3. QED
    BY <2>1, <2>2
<1>6. \A v \in Workers : worker[v].job \in JobId \cup {None}
  BY DEF IInv, TypeOK, Frame
<1>7. worker[w].job # None
  BY <1>1, QueueAssumption DEF JobId
<1>8. FrameInv'
  BY <1>4, <1>5, <1>6, <1>7 DEF IInv, FrameInv
<1>9. QED
  BY <1>3, <1>5, <1>8 DEF ScheduleNextSweep, InsertNextSweep, IInv, TypeOK

LEMMA SuccessKeeps == ASSUME IInv, NEW w \in Workers, RunOk(w) \/ PyDone(w) PROVE IInv'
<1>1. worker[w].job \in JobId /\ jobs[worker[w].job].status # "absent"
  BY DEF IInv, TypeOK, FrameInv, Frame, RunOk, PyDone
<1>2. /\ jobs' = Succeeded(worker[w].job)
      /\ before' = Without(worker[w].job)
      /\ worker' = [worker EXCEPT ![w] = Idle]
      /\ UNCHANGED <<request, crashes>>
  BY DEF RunOk, PyDone
<1>3. /\ jobs' \in [JobId -> Job]
      /\ before' \subseteq JobId \X JobId
      /\ RetryBudget'
      /\ \A i \in JobId : jobs[i].status # "absent" => jobs'[i].status # "absent"
  BY <1>1, <1>2, SucceedKeeps
<1>4. FrameInv' /\ worker' \in [Workers -> Frame]
  BY <1>2, <1>3, LetGo
<1>5. QED
  BY <1>2, <1>3, <1>4 DEF IInv, TypeOK

LEMMA FailureKeeps ==
  ASSUME IInv, NEW w \in Workers, NEW permanent \in BOOLEAN,
         RunFail(w, permanent) \/ PyFail(w, permanent)
  PROVE  IInv'
<1>1. worker[w].job \in JobId /\ jobs[worker[w].job] \in Job
  BY DEF IInv, TypeOK, FrameInv, Frame, RunFail, PyFail
<1>2. worker[w].attempts + 1 \in 1 .. MaxAttempts
  BY QueueAssumption DEF IInv, TypeOK, FrameInv, Frame
<1>3. PICK lock \in {"none", "fresh", "stale"} :
             jobs' = Failed(worker[w].job, worker[w].attempts + 1, permanent, lock)
  BY <1>1 DEF RunFail, PyFail, Job
<1>4. /\ jobs' \in [JobId -> Job]
      /\ RetryBudget'
      /\ \A i \in JobId \ {worker[w].job} : jobs'[i] = jobs[i]
      /\ jobs'[worker[w].job].status \in {"failed", "pending"}
  BY <1>1, <1>2, <1>3, FailedFacts DEF IInv
<1>5. /\ before' = Without(worker[w].job)
      /\ worker' = [worker EXCEPT ![w] = Idle]
      /\ UNCHANGED <<request, crashes>>
  BY DEF RunFail, PyFail
<1>6. \A i \in JobId : jobs[i].status # "absent" => jobs'[i].status # "absent"
  BY <1>4
<1>7. FrameInv' /\ worker' \in [Workers -> Frame]
  BY <1>5, <1>6, LetGo
<1>8. QED
  BY <1>4, <1>5, <1>7 DEF IInv, TypeOK, Without

LEMMA CrashKeeps == ASSUME IInv, NEW w \in Workers, Crash(w) PROVE IInv'
<1>1. FrameInv' /\ worker' \in [Workers -> Frame]
  BY LetGo DEF Crash
<1>2. crashes' \in 0 .. MaxCrashes
  BY QueueAssumption DEF Crash, IInv, TypeOK
<1>3. QED
  BY <1>1, <1>2 DEF Crash, IInv, TypeOK, RetryBudget

LEMMA StepKeepsIInv == IInv /\ [Next]_vars => IInv'
<1> SUFFICES ASSUME IInv, [Next]_vars PROVE IInv'
  OBVIOUS
<1>1. CASE Enqueue
  BY <1>1, EnqueueKeeps
<1>2. CASE Clock
  BY <1>2, ClockKeeps
<1>3. ASSUME NEW w \in TsWorkers, Ts(w) PROVE IInv'
  BY <1>3, ReclaimKeeps, ClaimOneKeeps, SweepKeeps, SuccessKeeps, FailureKeeps DEF Ts, Workers
<1>4. ASSUME NEW w \in PyWorkers, Py(w) PROVE IInv'
  BY <1>4, PyClaimKeeps, SuccessKeeps, FailureKeeps DEF Py, Workers
<1>5. ASSUME NEW w \in Workers, Crash(w) PROVE IInv'
  BY <1>5, CrashKeeps
<1>6. CASE UNCHANGED vars
  BY <1>6 DEF vars, IInv, TypeOK, RetryBudget, FrameInv
<1>7. QED
  BY <1>1, <1>2, <1>3, <1>4, <1>5, <1>6 DEF Next

\* Every variable keeps its type (the jobs table of schema.ts:666-677, the
\* frames of both workers), whatever the handlers do.
THEOREM TypeCorrect == Spec => []TypeOK
<1>1. IInv => TypeOK
  BY DEF IInv
<1>2. QED
  BY <1>1, InitIInv, StepKeepsIInv, PTL DEF Spec

\* A row that can still run has tries left, however many workers run it at once
\* and whichever of them writes last (worker.ts:80-91, jobs.py:53-76).
THEOREM BudgetHolds == Spec => []RetryBudget
<1>1. IInv => RetryBudget
  BY DEF IInv
<1>2. QED
  BY <1>1, InitIInv, StepKeepsIInv, PTL DEF Spec

-----------------------------------------------------------------------------
(* From here on a live handler never outlasts its lock. *)

\* The row of a working frame is running under a fresh lock, with the attempts
\* the frame read, and belongs to no other frame.
HeldRow ==
  \A w \in Workers : worker[w].job # None =>
    /\ jobs[worker[w].job].status = "running"
    /\ jobs[worker[w].job].lock = "fresh"
    /\ jobs[worker[w].job].attempts = worker[w].attempts

Exclusive == IInv /\ HeldRow /\ NoDoubleProcessing

LEMMA InitExclusive == Init => Exclusive
<1> SUFFICES ASSUME Init PROVE Exclusive
  OBVIOUS
<1>1. \A w \in Workers : worker[w].job = None
  BY IdleFrame DEF Init
<1>2. QED
  BY <1>1, InitIInv DEF Exclusive, HeldRow, NoDoubleProcessing

\* A step that leaves the frames alone and every held row as it is.
LEMMA BystanderStep ==
  ASSUME Exclusive, \A v \in Workers : worker'[v].job = worker[v].job
                                         /\ worker'[v].attempts = worker[v].attempts,
         \A j \in JobId : Held(j) => jobs'[j] = jobs[j]
  PROVE  (HeldRow /\ NoDoubleProcessing)'
<1>1. \A w \in Workers : worker[w].job \in JobId \cup {None}
  BY DEF Exclusive, IInv, TypeOK, Frame
<1>2. QED
  BY <1>1 DEF Exclusive, HeldRow, NoDoubleProcessing, Held

\* A step in which one worker lets go of its row and only that row may change.
LEMMA LetGoStep ==
  ASSUME Exclusive, NEW w \in Workers, worker' = [worker EXCEPT ![w] = Idle],
         \A j \in JobId : j # worker[w].job => jobs'[j] = jobs[j]
  PROVE  (HeldRow /\ NoDoubleProcessing)'
<1>1. \A v \in Workers : worker'[v] = IF v = w THEN Idle ELSE worker[v]
  BY DEF Exclusive, IInv, TypeOK
<1>2. \A v \in Workers : worker[v].job \in JobId \cup {None}
  BY DEF Exclusive, IInv, TypeOK, Frame
<1>3. QED
  BY <1>1, <1>2, IdleFrame DEF Exclusive, HeldRow, NoDoubleProcessing

\* A claim takes a pending row, so nobody else holds it.
LEMMA ClaimStep ==
  ASSUME Exclusive, NEW w \in Workers, NEW j \in JobId, NEW f,
         worker[w].job = None, jobs[j].status = "pending", jobs' = Claimed(j),
         worker' = [worker EXCEPT ![w] = f],
         \/ f = Idle
         \/ f = [phase |-> "working", job |-> j, attempts |-> jobs[j].attempts]
  PROVE  (HeldRow /\ NoDoubleProcessing)'
<1>1. \A v \in Workers : worker'[v] = IF v = w THEN f ELSE worker[v]
  BY DEF Exclusive, IInv, TypeOK
<1>2. \A v \in Workers : worker[v].job \in JobId \cup {None} /\ worker[v].job # j
  BY QueueAssumption DEF Exclusive, IInv, TypeOK, Frame, HeldRow, JobId
<1>3. jobs[j] \in Job
  BY DEF Exclusive, IInv, TypeOK
<1>4. \A i \in JobId : i # j => jobs'[i] = jobs[i]
  BY DEF Claimed, Exclusive, IInv, TypeOK
<1>5. /\ jobs'[j].status = "running"
      /\ jobs'[j].lock = "fresh"
      /\ jobs'[j].attempts = jobs[j].attempts
  BY <1>3 DEF Claimed, Exclusive, IInv, TypeOK, Job
<1>6. f.job \in {None, j} /\ (f.job = j => f.attempts = jobs[j].attempts)
  BY IdleFrame, QueueAssumption DEF JobId
<1>7. HeldRow'
  BY <1>1, <1>2, <1>4, <1>5, <1>6 DEF Exclusive, HeldRow
<1>8. NoDoubleProcessing'
  BY <1>1, <1>2, <1>6 DEF Exclusive, NoDoubleProcessing
<1>9. QED
  BY <1>7, <1>8

LEMMA StepKeepsExclusive == ~SlowHandlers /\ Exclusive /\ [Next]_vars => Exclusive'
<1> SUFFICES ASSUME ~SlowHandlers, Exclusive, [Next]_vars
             PROVE  (HeldRow /\ NoDoubleProcessing)'
  BY StepKeepsIInv DEF Exclusive
<1>0. /\ \A w \in Workers : worker[w] \in Frame
      /\ \A j \in JobId : jobs[j] \in Job
      /\ \A j \in JobId : Held(j) => jobs[j].status = "running" /\ jobs[j].lock = "fresh"
  BY QueueAssumption DEF Exclusive, IInv, TypeOK, HeldRow, Held, JobId
<1>1. ASSUME NEW u \in Users \cup {None}, NEW k \in Kinds, NEW d \in BOOLEAN, Insert(u, k, d),
             \A v \in Workers : worker'[v].job = worker[v].job
                                  /\ worker'[v].attempts = worker[v].attempts
      PROVE  (HeldRow /\ NoDoubleProcessing)'
  <2>1. \A i \in JobId : jobs[i].status # "absent" => jobs'[i] = jobs[i]
    BY <1>1, InsertKeeps DEF Exclusive
  <2>2. QED
    BY <1>0, <1>1, <2>1, BystanderStep
<1>2. CASE Enqueue
  <2>1. CASE \E r \in Requests, u \in Users, k \in RequestKinds : EnqueueCheck(r, u, k)
    BY <2>1, BystanderStep DEF EnqueueCheck
  <2>2. CASE \E r \in Requests : EnqueueInsert(r)
    <3>1. PICK r \in Requests : EnqueueInsert(r)
      BY <2>2
    <3>2. request[r].user \in Users /\ request[r].kind \in Kinds
      BY <3>1, QueueAssumption DEF EnqueueInsert, Exclusive, IInv, TypeOK, Call, Kinds
    <3>3. QED
      BY <1>1, <3>1, <3>2 DEF EnqueueInsert
  <2>3. CASE \E u \in Users, k \in IngestKinds : IngestInsert(u, k)
    BY <1>1, <2>3 DEF IngestInsert, Kinds
  <2>4. QED
    BY <1>2, <2>1, <2>2, <2>3 DEF Enqueue
<1>3. ASSUME NEW j \in JobId, ComeDue(j) \/ LockAges(j) PROVE (HeldRow /\ NoDoubleProcessing)'
  <2>1. ~Held(j)
    BY <1>0, <1>3 DEF ComeDue, LockAges
  <2>2. \A i \in JobId : i # j => jobs'[i] = jobs[i]
    BY <1>3 DEF ComeDue, LockAges, Exclusive, IInv, TypeOK
  <2>3. QED
    BY <1>3, <2>1, <2>2, BystanderStep DEF ComeDue, LockAges
<1>4. ASSUME NEW w \in TsWorkers, Ts(w) PROVE (HeldRow /\ NoDoubleProcessing)'
  <2>1. w \in Workers
    BY DEF Workers
  <2>2. CASE ReclaimStaleJobs(w)
    <3>1. \A v \in Workers : worker'[v].job = worker[v].job
                               /\ worker'[v].attempts = worker[v].attempts
      BY <1>0, <2>2, Zenon DEF ReclaimStaleJobs, Exclusive, IInv, TypeOK, Frame
    <3>2. \A j \in JobId : Held(j) => jobs'[j] = jobs[j]
      BY <1>0, <2>2, Zenon DEF ReclaimStaleJobs
    <3>3. QED
      BY <3>1, <3>2, BystanderStep
  <2>3. CASE ClaimOne(w)
    <3>1. worker[w].job = None
      BY <2>1, <2>3 DEF ClaimOne, Exclusive, IInv, FrameInv
    <3>2. CASE worker' = [worker EXCEPT ![w] = Idle] /\ UNCHANGED jobs
      BY <2>1, <3>2, LetGoStep
    <3>3. ASSUME NEW j \in Claimable(CalendarKinds), jobs' = Claimed(j),
                 worker' = [worker EXCEPT ![w] =
                   [phase |-> "working", job |-> j, attempts |-> jobs[j].attempts]]
          PROVE  (HeldRow /\ NoDoubleProcessing)'
      BY <2>1, <3>1, <3>3, ClaimStep DEF Claimable
    <3>4. QED
      BY <2>3, <3>2, <3>3 DEF ClaimOne
  <2>4. CASE ScheduleNextSweep(w)
    <3>1. \A v \in Workers : worker'[v].job = worker[v].job
                               /\ worker'[v].attempts = worker[v].attempts
      BY <1>0, <2>1, <2>4 DEF ScheduleNextSweep, Exclusive, IInv, TypeOK, Frame
    <3>2. QED
      BY <2>4, <3>1, BystanderStep DEF ScheduleNextSweep
  <2>5. CASE InsertNextSweep(w)
    <3>1. \A v \in Workers : worker'[v].job = worker[v].job
                               /\ worker'[v].attempts = worker[v].attempts
      BY <1>0, <2>1, <2>5 DEF InsertNextSweep, Exclusive, IInv, TypeOK, Frame
    <3>2. worker[w].job \in JobId
      BY <1>0, <2>1, <2>5 DEF InsertNextSweep, Exclusive, IInv, FrameInv, Frame
    <3>3. jobs[worker[w].job].user \in Users \cup {None} /\ RenewKind \in Kinds
      BY <1>0, <3>2, QueueAssumption DEF Job, Kinds
    <3>4. QED
      BY <1>1, <2>5, <3>1, <3>3 DEF InsertNextSweep
  <2>6. CASE RunOk(w)
    <3>1. \A j \in JobId : j # worker[w].job => jobs'[j] = jobs[j]
      BY <2>6 DEF RunOk, Succeeded, Exclusive, IInv, TypeOK
    <3>2. QED
      BY <2>1, <2>6, <3>1, LetGoStep DEF RunOk
  <2>7. ASSUME NEW permanent \in BOOLEAN, RunFail(w, permanent)
        PROVE  (HeldRow /\ NoDoubleProcessing)'
    <3>1. \A j \in JobId : j # worker[w].job => jobs'[j] = jobs[j]
      BY <2>7 DEF RunFail, Failed, Exclusive, IInv, TypeOK
    <3>2. QED
      BY <2>1, <2>7, <3>1, LetGoStep DEF RunFail
  <2>8. QED
    BY <1>4, <2>2, <2>3, <2>4, <2>5, <2>6, <2>7 DEF Ts
<1>5. ASSUME NEW w \in PyWorkers, Py(w) PROVE (HeldRow /\ NoDoubleProcessing)'
  <2>1. w \in Workers
    BY DEF Workers
  <2>2. CASE PyClaim(w)
    <3>1. worker[w].job = None
      BY <2>1, <2>2 DEF PyClaim, Exclusive, IInv, FrameInv
    <3>2. PICK j \in Claimable(Kinds) :
                 /\ jobs' = Claimed(j)
                 /\ worker' = [worker EXCEPT ![w] =
                      IF jobs[j].kind \in IngestKinds
                      THEN [phase |-> "working", job |-> j, attempts |-> jobs[j].attempts]
                      ELSE Idle]
      BY <2>2 DEF PyClaim
    <3>3. j \in JobId /\ jobs[j].status = "pending"
      BY DEF Claimable
    <3>4. CASE jobs[j].kind \in IngestKinds
      BY <2>1, <3>1, <3>2, <3>3, <3>4, ClaimStep
    <3>5. CASE jobs[j].kind \notin IngestKinds
      BY <2>1, <3>1, <3>2, <3>3, <3>5, ClaimStep
    <3>6. QED
      BY <3>4, <3>5
  <2>3. CASE PyDone(w)
    <3>1. \A j \in JobId : j # worker[w].job => jobs'[j] = jobs[j]
      BY <2>3 DEF PyDone, Succeeded, Exclusive, IInv, TypeOK
    <3>2. QED
      BY <2>1, <2>3, <3>1, LetGoStep DEF PyDone
  <2>4. ASSUME NEW permanent \in BOOLEAN, PyFail(w, permanent)
        PROVE  (HeldRow /\ NoDoubleProcessing)'
    <3>1. \A j \in JobId : j # worker[w].job => jobs'[j] = jobs[j]
      BY <2>4 DEF PyFail, Failed, Exclusive, IInv, TypeOK
    <3>2. QED
      BY <2>1, <2>4, <3>1, LetGoStep DEF PyFail
  <2>5. QED
    BY <1>5, <2>2, <2>3, <2>4 DEF Py
<1>6. ASSUME NEW w \in Workers, Crash(w) PROVE (HeldRow /\ NoDoubleProcessing)'
  BY <1>6, LetGoStep DEF Crash
<1>7. CASE UNCHANGED vars
  BY <1>7, BystanderStep DEF vars
<1>8. QED
  BY <1>2, <1>3, <1>4, <1>5, <1>6, <1>7 DEF Next, Clock

\* The SKIP LOCKED claim and the reclaim never put two workers on one row, as
\* long as no handler runs for STALE_RUNNING_MS (worker.ts:4-7, :17-25).  The
\* assumption is needed: a slow handler is run twice.
THEOREM OneWorkerPerJob == ~SlowHandlers => (Spec => []NoDoubleProcessing)
<1>1. SUFFICES ASSUME ~SlowHandlers PROVE Spec => []NoDoubleProcessing
  OBVIOUS
<1>2. Exclusive /\ [Next]_vars => Exclusive'
  BY <1>1, StepKeepsExclusive
<1>3. Exclusive => NoDoubleProcessing
  BY DEF Exclusive
<1>4. QED
  BY <1>2, <1>3, InitExclusive, PTL DEF Spec

-----------------------------------------------------------------------------
(* The refinement: every step is a step of JobContract, or changes nothing of it. *)

LEMMA InitContract == Exclusive /\ Init => Contract!CInit
<1> SUFFICES ASSUME Exclusive, Init PROVE Contract!CInit
  OBVIOUS
<1>1. \A w \in Workers : worker[w].job = None
  BY IdleFrame DEF Init
<1>2. \A j \in JobId : OwnersOf(j) = {}
  BY <1>1, QueueAssumption DEF OwnersOf, JobId
<1>3. \A j \in JobId : StateOf(j) \in {"absent", "queued"} /\ jobs[j].attempts = 0
  BY DEF Init, StateOf, FreshRow, NoJob
<1>4. QED
  BY <1>2, <1>3 DEF Contract!CInit

\* A step that leaves each row's status, attempts and holders alone.
LEMMA Stutters ==
  ASSUME Exclusive,
         \A j \in JobId : /\ jobs'[j].status = jobs[j].status
                          /\ jobs'[j].attempts = jobs[j].attempts,
         \A v \in Workers : worker'[v].job = worker[v].job
  PROVE  UNCHANGED Contract!cvars
<1>1. \A j \in JobId : OwnersOf(j)' = OwnersOf(j) /\ StateOf(j)' = StateOf(j)
  BY DEF OwnersOf, StateOf, Held
<1>2. QED
  BY <1>1 DEF Contract!cvars

LEMMA InsertSubmits ==
  ASSUME Exclusive, NEW u \in Users \cup {None}, NEW k \in Kinds, NEW d \in BOOLEAN,
         Insert(u, k, d), \A v \in Workers : worker'[v].job = worker[v].job
  PROVE  Contract!CNext
<1>1. PICK j \in JobId : /\ jobs[j].status = "absent"
                         /\ jobs' = [jobs EXCEPT ![j] = FreshRow(u, k, d)]
  BY InsertFacts DEF Exclusive, IInv
<1>2. \A i \in JobId : jobs'[i] = IF i = j THEN FreshRow(u, k, d) ELSE jobs[i]
  BY <1>1 DEF Exclusive, IInv, TypeOK
<1>3. \A i \in JobId : /\ OwnersOf(i)' = OwnersOf(i)
                       /\ Held(i)' <=> Held(i)
  BY DEF OwnersOf, Held
<1>4. \A i \in JobId : /\ StateOf(i)' = IF i = j THEN "queued" ELSE StateOf(i)
                       /\ jobs'[i].attempts = IF i = j THEN 0 ELSE jobs[i].attempts
  <2>1. /\ jobs'[j].status = "pending" /\ jobs'[j].attempts = 0
        /\ \A i \in JobId : i # j => jobs'[i] = jobs[i]
    BY <1>2 DEF FreshRow
  <2>2. StateOf(j)' = "queued"
    BY <2>1 DEF StateOf
  <2>3. \A i \in JobId : i # j => StateOf(i)' = StateOf(i)
    BY <2>1, <1>3 DEF StateOf
  <2>4. QED
    BY <2>1, <2>2, <2>3
<1>5. StateOf(j) = "absent"
  BY <1>1 DEF StateOf
<1>6. Contract!Submit(j)
  BY <1>3, <1>4, <1>5 DEF Contract!Submit
<1>7. QED
  BY <1>6 DEF Contract!CNext

\* Worker w had row j to itself, and after the step nobody has it.
Released(w, j) ==
  /\ StateOf(j) = "held"
  /\ \A v \in Workers : worker'[v].job # j
  /\ jobs[j].attempts = worker[w].attempts
  /\ \A i \in JobId : OwnersOf(i)' = IF i = j THEN {} ELSE OwnersOf(i)
  /\ \A i \in JobId : i # j => /\ StateOf(i)' = StateOf(i)
                               /\ jobs'[i].attempts = jobs[i].attempts

\* A worker lets go of the row it holds, which takes a new status.
LEMMA HolderLetsGo ==
  ASSUME Exclusive, NEW w \in Workers, NEW j \in JobId, worker[w].job = j,
         worker' = [worker EXCEPT ![w] = Idle],
         \A i \in JobId : i # j => jobs'[i] = jobs[i]
  PROVE  Released(w, j)
<1>1. j # None
  BY QueueAssumption DEF JobId
<1>2. \A v \in Workers : worker'[v] = IF v = w THEN Idle ELSE worker[v]
  BY DEF Exclusive, IInv, TypeOK
<1>3. \A v \in Workers : v # w => worker[v].job # j
  BY <1>1 DEF Exclusive, NoDoubleProcessing
<1>4. \A v \in Workers : worker'[v].job # j
  BY <1>1, <1>2, <1>3, IdleFrame
<1>5. \A i \in JobId : i # j =>
        \A v \in Workers : worker'[v].job = i <=> worker[v].job = i
  BY <1>2, IdleFrame, QueueAssumption DEF JobId
<1>6. StateOf(j) = "held"
  BY <1>1 DEF Exclusive, HeldRow, StateOf, Held
<1>8. \A i \in JobId : i # j => OwnersOf(i)' = OwnersOf(i) /\ (Held(i)' <=> Held(i))
  BY <1>5 DEF OwnersOf, Held
<1>9. OwnersOf(j)' = {}
  BY <1>4 DEF OwnersOf
<1>10. \A i \in JobId : i # j => /\ StateOf(i)' = StateOf(i)
                                 /\ jobs'[i].attempts = jobs[i].attempts
  BY <1>8 DEF StateOf
<1>11. jobs[j].attempts = worker[w].attempts
  BY <1>1 DEF Exclusive, HeldRow
<1>12. QED
  BY <1>4, <1>6, <1>8, <1>9, <1>10, <1>11 DEF Released

\* A claim is a Take when the frame keeps the row, an Orphan when the Python
\* worker drops a row it has no handler for.
LEMMA ClaimTakes ==
  ASSUME Exclusive, NEW w \in Workers, NEW j \in JobId, NEW f,
         worker[w].job = None, jobs[j].status = "pending", jobs' = Claimed(j),
         worker' = [worker EXCEPT ![w] = f],
         \/ f = Idle
         \/ f = [phase |-> "working", job |-> j, attempts |-> jobs[j].attempts]
  PROVE  Contract!CNext
<1>1. \A v \in Workers : worker'[v] = IF v = w THEN f ELSE worker[v]
  BY DEF Exclusive, IInv, TypeOK
<1>2. \A v \in Workers : worker[v].job # j
  BY QueueAssumption DEF Exclusive, HeldRow, JobId
<1>3. jobs[j] \in Job
  BY DEF Exclusive, IInv, TypeOK
<1>4. \A i \in JobId : i # j => jobs'[i] = jobs[i]
  BY DEF Claimed, Exclusive, IInv, TypeOK
<1>5. jobs'[j].status = "running" /\ jobs'[j].attempts = jobs[j].attempts
  BY <1>3 DEF Claimed, Exclusive, IInv, TypeOK, Job
<1>6. StateOf(j) = "queued" /\ OwnersOf(j) = {}
  BY <1>2 DEF StateOf, OwnersOf
<1>7. f.job \in {None, j}
  BY IdleFrame
<1>8. \A i \in JobId : i # j => \A v \in Workers : worker'[v].job = i <=> worker[v].job = i
  BY <1>1, <1>7, QueueAssumption DEF JobId
<1>9. \A i \in JobId : i # j => OwnersOf(i)' = OwnersOf(i) /\ StateOf(i)' = StateOf(i)
  <2>1. \A i \in JobId : i # j => OwnersOf(i)' = OwnersOf(i) /\ (Held(i)' <=> Held(i))
    BY <1>8 DEF OwnersOf, Held
  <2>2. QED
    BY <1>4, <2>1 DEF StateOf
<1>10. CASE f = Idle
  <2>1. \A v \in Workers : worker'[v].job # j
    BY <1>1, <1>2, <1>10, IdleFrame, QueueAssumption DEF JobId
  <2>2. OwnersOf(j)' = {} /\ StateOf(j)' = "orphaned"
    BY <1>5, <2>1 DEF OwnersOf, StateOf, Held
  <2>3. Contract!Orphan(j)
    BY <1>4, <1>5, <1>6, <1>9, <2>2 DEF Contract!Orphan
  <2>4. QED
    BY <2>3 DEF Contract!CNext
<1>11. CASE f = [phase |-> "working", job |-> j, attempts |-> jobs[j].attempts]
  <2>1. \A v \in Workers : worker'[v].job = j <=> v = w
    BY <1>1, <1>2, <1>11
  <2>2. OwnersOf(j)' = {w} /\ StateOf(j)' = "held"
    BY <1>5, <2>1 DEF OwnersOf, StateOf, Held
  <2>3. Contract!Take(j, w)
    BY <1>4, <1>5, <1>6, <1>9, <2>2 DEF Contract!Take
  <2>4. QED
    BY <2>3 DEF Contract!CNext
<1>12. QED
  BY <1>10, <1>11

LEMMA SuccessFinishes ==
  ASSUME Exclusive, NEW w \in Workers, RunOk(w) \/ PyDone(w) PROVE Contract!CNext
<1>1. PICK j : j = worker[w].job
  OBVIOUS
<1>2. j # None /\ j \in JobId
  BY <1>1 DEF Exclusive, IInv, TypeOK, FrameInv, Frame, RunOk, PyDone
<1>3. \A i \in JobId : i # j => jobs'[i] = jobs[i]
  BY <1>1 DEF RunOk, PyDone, Succeeded, Exclusive, IInv, TypeOK
<1>4. jobs'[j].status = "done" /\ jobs'[j].attempts = jobs[j].attempts
  BY <1>1, <1>2 DEF RunOk, PyDone, Succeeded, Exclusive, IInv, TypeOK, Job
<1>5. worker' = [worker EXCEPT ![w] = Idle] /\ worker[w].job = j
  BY <1>1 DEF RunOk, PyDone
<1>6. /\ StateOf(j) = "held"
      /\ \A i \in JobId : OwnersOf(i)' = IF i = j THEN {} ELSE OwnersOf(i)
      /\ \A i \in JobId : i # j => /\ StateOf(i)' = StateOf(i)
                                   /\ jobs'[i].attempts = jobs[i].attempts
  <2>1. Released(w, j)
    BY <1>2, <1>3, <1>5, HolderLetsGo
  <2>2. QED
    BY <2>1 DEF Released
<1>7. StateOf(j)' = "done"
  BY <1>4 DEF StateOf
<1>8. Contract!Finish(j)
  BY <1>2, <1>4, <1>6, <1>7 DEF Contract!Finish
<1>9. QED
  BY <1>2, <1>8 DEF Contract!CNext

LEMMA FailureEndsTry ==
  ASSUME Exclusive, NEW w \in Workers, NEW permanent \in BOOLEAN,
         RunFail(w, permanent) \/ PyFail(w, permanent)
  PROVE  Contract!CNext
<1>1. PICK j : j = worker[w].job
  OBVIOUS
<1>2. j # None /\ j \in JobId /\ jobs[j] \in Job
  BY <1>1 DEF Exclusive, IInv, TypeOK, FrameInv, Frame, RunFail, PyFail
<1>3. worker[w].attempts + 1 \in 1 .. MaxAttempts
  BY QueueAssumption DEF Exclusive, IInv, TypeOK, FrameInv, Frame
<1>4. PICK lock \in {"none", "fresh", "stale"} :
             jobs' = Failed(j, worker[w].attempts + 1, permanent, lock)
  BY <1>1, <1>2 DEF RunFail, PyFail, Job
<1>5. /\ \A i \in JobId \ {j} : jobs'[i] = jobs[i]
      /\ jobs'[j].status \in {"failed", "pending"}
      /\ jobs'[j].status = "pending" => worker[w].attempts + 1 < MaxAttempts
      /\ jobs'[j].attempts = worker[w].attempts + 1
  BY <1>2, <1>3, <1>4, FailedFacts DEF Exclusive, IInv
<1>6. /\ worker' = [worker EXCEPT ![w] = Idle]
      /\ worker[w].job = j
      /\ \A i \in JobId : i # j => jobs'[i] = jobs[i]
  BY <1>1, <1>5 DEF RunFail, PyFail
<1>7. /\ StateOf(j) = "held"
      /\ jobs[j].attempts = worker[w].attempts
      /\ \A i \in JobId : OwnersOf(i)' = IF i = j THEN {} ELSE OwnersOf(i)
      /\ \A i \in JobId : i # j => /\ StateOf(i)' = StateOf(i)
                                   /\ jobs'[i].attempts = jobs[i].attempts
  <2>1. Released(w, j)
    BY <1>2, <1>6, HolderLetsGo
  <2>2. QED
    BY <2>1 DEF Released
<1>8. CASE jobs'[j].status = "pending"
  <2>1. StateOf(j)' = "queued"
    BY <1>8 DEF StateOf
  <2>2. Contract!Retry(j)
    BY <1>2, <1>5, <1>7, <1>8, <2>1 DEF Contract!Retry
  <2>3. QED
    BY <1>2, <2>2 DEF Contract!CNext
<1>9. CASE jobs'[j].status = "failed"
  <2>1. StateOf(j)' = "failed"
    BY <1>9 DEF StateOf
  <2>2. Contract!GiveUp(j)
    BY <1>2, <1>5, <1>7, <2>1 DEF Contract!GiveUp
  <2>3. QED
    BY <1>2, <2>2 DEF Contract!CNext
<1>10. QED
  BY <1>5, <1>8, <1>9

\* Only orphans have a stale lock, so a reclaim returns orphans.
LEMMA ReclaimReturns ==
  ASSUME Exclusive, NEW w \in Workers, ReclaimStaleJobs(w) PROVE Contract!CNext
<1> DEFINE S == {j \in JobId : jobs[j].status = "running" /\ jobs[j].lock = "stale"}
<1>1. \A v \in Workers : worker'[v].job = worker[v].job
  BY Zenon DEF ReclaimStaleJobs, Exclusive, IInv, TypeOK, Frame
<1>2. \A i \in JobId : OwnersOf(i)' = OwnersOf(i) /\ (Held(i)' <=> Held(i))
  BY <1>1 DEF OwnersOf, Held
<1>3. \A i \in S : ~Held(i)
  BY QueueAssumption DEF Exclusive, HeldRow, Held, JobId
<1>4. \A i \in S : StateOf(i) = "orphaned"
  BY <1>3 DEF StateOf
<1>5. \A i \in JobId : jobs[i] \in Job
  BY DEF Exclusive, IInv, TypeOK
<1>6. \A i \in JobId : /\ i \in S => jobs'[i].status = "pending"
                       /\ i \notin S => jobs'[i] = jobs[i]
                       /\ jobs'[i].attempts = jobs[i].attempts
  BY <1>5, Zenon DEF ReclaimStaleJobs, Job
<1>7. \A i \in JobId : StateOf(i)' = IF i \in S THEN "queued" ELSE StateOf(i)
  <2>1. \A i \in S : StateOf(i)' = "queued"
    BY <1>6 DEF StateOf
  <2>2. \A i \in JobId : i \notin S => StateOf(i)' = StateOf(i)
    BY <1>2, <1>6 DEF StateOf
  <2>3. QED
    BY <2>1, <2>2
<1>8. Contract!Return(S)
  BY <1>2, <1>4, <1>6, <1>7 DEF Contract!Return
<1>9. S \in SUBSET JobId
  OBVIOUS
<1>10. QED
  BY <1>8, <1>9 DEF Contract!CNext

LEMMA CrashOrphans ==
  ASSUME Exclusive, NEW w \in Workers, Crash(w) PROVE Contract!CNext \/ UNCHANGED Contract!cvars
<1>1. worker' = [worker EXCEPT ![w] = Idle] /\ UNCHANGED jobs
  BY DEF Crash
<1>2. PICK j : j = worker[w].job
  OBVIOUS
<1>3. CASE j = None
  <2>1. \A v \in Workers : worker'[v].job = worker[v].job
    BY <1>1, <1>2, <1>3, IdleFrame DEF Exclusive, IInv, TypeOK
  <2>2. QED
    BY <1>1, <2>1, Stutters
<1>4. CASE j # None
  <2>0. j \in JobId
    BY <1>2, <1>4 DEF Exclusive, IInv, TypeOK, Frame
  <2>1. /\ StateOf(j) = "held"
        /\ \A v \in Workers : worker'[v].job # j
        /\ jobs[j].attempts = worker[w].attempts
        /\ \A i \in JobId : OwnersOf(i)' = IF i = j THEN {} ELSE OwnersOf(i)
        /\ \A i \in JobId : i # j => /\ StateOf(i)' = StateOf(i)
                                     /\ jobs'[i].attempts = jobs[i].attempts
    <3>1. worker[w].job = j /\ \A i \in JobId : i # j => jobs'[i] = jobs[i]
      BY <1>1, <1>2
    <3>2. worker' = [worker EXCEPT ![w] = Idle]
      BY <1>1
    <3>3. Released(w, j)
      BY <2>0, <3>1, <3>2, HolderLetsGo
    <3>4. QED
      BY <3>3 DEF Released
  <2>2. jobs[j].status = "running"
    BY <1>2, <1>4 DEF Exclusive, HeldRow
  <2>3. StateOf(j)' = "orphaned"
    BY <1>1, <2>1, <2>2 DEF StateOf, Held
  <2>4. Contract!Orphan(j)
    BY <1>1, <2>0, <2>1, <2>3 DEF Contract!Orphan
  <2>5. QED
    BY <2>0, <2>4 DEF Contract!CNext
<1>5. QED
  BY <1>3, <1>4

LEMMA StepKeepsContract ==
  ~SlowHandlers /\ Exclusive /\ [Next]_vars => [Contract!CNext]_(Contract!cvars)
<1> SUFFICES ASSUME ~SlowHandlers, Exclusive, [Next]_vars
             PROVE  Contract!CNext \/ UNCHANGED Contract!cvars
  OBVIOUS
<1>0. /\ \A w \in Workers : worker[w] \in Frame
      /\ \A j \in JobId : jobs[j] \in Job
  BY DEF Exclusive, IInv, TypeOK
<1>1. CASE Enqueue
  <2>1. CASE \E r \in Requests, u \in Users, k \in RequestKinds : EnqueueCheck(r, u, k)
    BY <2>1, Stutters DEF EnqueueCheck
  <2>2. CASE \E r \in Requests : EnqueueInsert(r)
    <3>1. PICK r \in Requests : EnqueueInsert(r)
      BY <2>2
    <3>2. request[r].user \in Users /\ request[r].kind \in Kinds
      BY <3>1, QueueAssumption DEF EnqueueInsert, Exclusive, IInv, TypeOK, Call, Kinds
    <3>3. QED
      BY <3>1, <3>2, InsertSubmits DEF EnqueueInsert
  <2>3. CASE \E u \in Users, k \in IngestKinds : IngestInsert(u, k)
    BY <2>3, InsertSubmits DEF IngestInsert, Kinds
  <2>4. QED
    BY <1>1, <2>1, <2>2, <2>3 DEF Enqueue
<1>2. ASSUME NEW j \in JobId, ComeDue(j) \/ LockAges(j)
      PROVE  Contract!CNext \/ UNCHANGED Contract!cvars
  <2>1. \A i \in JobId : /\ jobs'[i].status = jobs[i].status
                         /\ jobs'[i].attempts = jobs[i].attempts
    BY <1>0, <1>2 DEF ComeDue, LockAges, Exclusive, IInv, TypeOK, Job
  <2>2. QED
    BY <1>2, <2>1, Stutters DEF ComeDue, LockAges
<1>3. ASSUME NEW w \in TsWorkers, Ts(w) PROVE Contract!CNext \/ UNCHANGED Contract!cvars
  <2>1. w \in Workers
    BY DEF Workers
  <2>2. CASE ReclaimStaleJobs(w)
    BY <2>1, <2>2, ReclaimReturns
  <2>3. CASE ClaimOne(w)
    <3>1. worker[w].job = None
      BY <2>1, <2>3 DEF ClaimOne, Exclusive, IInv, FrameInv
    <3>2. CASE worker' = [worker EXCEPT ![w] = Idle] /\ UNCHANGED jobs
      <4>1. \A v \in Workers : worker'[v].job = worker[v].job
        BY <2>1, <3>1, <3>2, IdleFrame DEF Exclusive, IInv, TypeOK
      <4>2. QED
        BY <3>2, <4>1, Stutters
    <3>3. ASSUME NEW j \in Claimable(CalendarKinds), jobs' = Claimed(j),
                 worker' = [worker EXCEPT ![w] =
                   [phase |-> "working", job |-> j, attempts |-> jobs[j].attempts]]
          PROVE  Contract!CNext
      BY <2>1, <3>1, <3>3, ClaimTakes DEF Claimable
    <3>4. QED
      BY <2>3, <3>2, <3>3 DEF ClaimOne
  <2>4. CASE ScheduleNextSweep(w)
    <3>1. \A v \in Workers : worker'[v].job = worker[v].job
      BY <1>0, <2>1, <2>4 DEF ScheduleNextSweep, Exclusive, IInv, TypeOK, Frame
    <3>2. QED
      BY <2>4, <3>1, Stutters DEF ScheduleNextSweep
  <2>5. CASE InsertNextSweep(w)
    <3>1. \A v \in Workers : worker'[v].job = worker[v].job
      BY <1>0, <2>1, <2>5 DEF InsertNextSweep, Exclusive, IInv, TypeOK, Frame
    <3>2. worker[w].job \in JobId
      BY <1>0, <2>1, <2>5 DEF InsertNextSweep, Exclusive, IInv, FrameInv, Frame
    <3>3. jobs[worker[w].job].user \in Users \cup {None} /\ RenewKind \in Kinds
      BY <1>0, <3>2, QueueAssumption DEF Job, Kinds
    <3>4. QED
      BY <2>5, <3>1, <3>3, InsertSubmits DEF InsertNextSweep
  <2>6. CASE RunOk(w)
    BY <2>1, <2>6, SuccessFinishes
  <2>7. ASSUME NEW permanent \in BOOLEAN, RunFail(w, permanent) PROVE Contract!CNext
    BY <2>1, <2>7, FailureEndsTry
  <2>8. QED
    BY <1>3, <2>2, <2>3, <2>4, <2>5, <2>6, <2>7 DEF Ts
<1>4. ASSUME NEW w \in PyWorkers, Py(w) PROVE Contract!CNext
  <2>1. w \in Workers
    BY DEF Workers
  <2>2. CASE PyClaim(w)
    <3>1. worker[w].job = None
      BY <2>1, <2>2 DEF PyClaim, Exclusive, IInv, FrameInv
    <3>2. PICK j \in Claimable(Kinds) :
                 /\ jobs' = Claimed(j)
                 /\ worker' = [worker EXCEPT ![w] =
                      IF jobs[j].kind \in IngestKinds
                      THEN [phase |-> "working", job |-> j, attempts |-> jobs[j].attempts]
                      ELSE Idle]
      BY <2>2 DEF PyClaim
    <3>3. j \in JobId /\ jobs[j].status = "pending"
      BY DEF Claimable
    <3>4. CASE jobs[j].kind \in IngestKinds
      BY <2>1, <3>1, <3>2, <3>3, <3>4, ClaimTakes
    <3>5. CASE jobs[j].kind \notin IngestKinds
      BY <2>1, <3>1, <3>2, <3>3, <3>5, ClaimTakes
    <3>6. QED
      BY <3>4, <3>5
  <2>3. CASE PyDone(w)
    BY <2>1, <2>3, SuccessFinishes
  <2>4. ASSUME NEW permanent \in BOOLEAN, PyFail(w, permanent) PROVE Contract!CNext
    BY <2>1, <2>4, FailureEndsTry
  <2>5. QED
    BY <1>4, <2>2, <2>3, <2>4 DEF Py
<1>5. ASSUME NEW w \in Workers, Crash(w) PROVE Contract!CNext \/ UNCHANGED Contract!cvars
  BY <1>5, CrashOrphans
<1>6. CASE UNCHANGED vars
  BY <1>6, Stutters DEF vars
<1>7. QED
  BY <1>1, <1>2, <1>3, <1>4, <1>5, <1>6 DEF Next, Clock

\* With no handler slower than STALE_RUNNING_MS the two workers, the reclaim and
\* the requests together implement JobContract: one holder per job, one end per
\* job, one try per failure (worker.ts:28-91, jobs.py:24-76).
THEOREM QueueImplementsContract == ~SlowHandlers => (Spec => KeepsContract)
<1>1. SUFFICES ASSUME ~SlowHandlers PROVE Spec => KeepsContract
  OBVIOUS
<1>2. Exclusive /\ [Next]_vars => Exclusive' /\ [Contract!CNext]_(Contract!cvars)
  BY <1>1, StepKeepsExclusive, StepKeepsContract
<1>3. Init => Exclusive /\ Contract!CInit
  BY InitExclusive, InitContract
<1>4. QED
  BY <1>2, <1>3, PTL DEF Spec, KeepsContract, Contract!CSpec

-----------------------------------------------------------------------------
(* Live rows of a kind per user.  Only enqueueJob's two statements add any: whatever
   workers and clocks do leaves no live row that was not live before. *)

\* No renewal handler is past the SELECT of its own enqueueJob: it sees the row it runs.
NoSweeper == \A w \in Workers : worker[w].phase # "enqueueing"

\* A step that revives no row.
Calm ==
  /\ request' = request
  /\ NoSweeper'
  /\ \A u \in Users, k \in CalendarKinds : Live(u, k)' \subseteq Live(u, k)

LEMMA RevivesNone ==
  ASSUME \A j \in JobId : /\ jobs'[j].user = jobs[j].user /\ jobs'[j].kind = jobs[j].kind
                          /\ jobs'[j].status \in {"pending", "running"} =>
                               jobs[j].status \in {"pending", "running"},
         request' = request, NoSweeper'
  PROVE  Calm
BY DEF Calm, Live

\* The row a worker writes at the end of its handler was running.
LEMMA EndRevivesNone ==
  ASSUME Exclusive, NoSweeper, NEW w \in Workers, NEW row \in Job, worker[w].job # None,
         jobs' = [jobs EXCEPT ![worker[w].job] = row],
         row.user = jobs[worker[w].job].user, row.kind = jobs[worker[w].job].kind,
         worker' = [worker EXCEPT ![w] = Idle], request' = request
  PROVE  Calm
<1>1. worker[w].job \in JobId /\ jobs[worker[w].job].status = "running"
  BY DEF Exclusive, IInv, TypeOK, Frame, HeldRow
<1>2. NoSweeper'
  BY IdleFrame DEF NoSweeper, Exclusive, IInv, TypeOK
<1>3. \A j \in JobId : jobs'[j] = IF j = worker[w].job THEN row ELSE jobs[j]
  BY <1>1 DEF Exclusive, IInv, TypeOK
<1>4. QED
  BY <1>1, <1>2, <1>3, RevivesNone

\* An INSERT adds one row, to the live rows of its user and kind.
LEMMA InsertsOne ==
  ASSUME Exclusive, NEW u \in Users, NEW k \in Kinds, NEW d \in BOOLEAN, Insert(u, k, d)
  PROVE  \E j \in JobId : \A v, l :
           /\ Live(v, l)' \subseteq Live(v, l) \cup {j}
           /\ <<v, l>> # <<u, k>> => Live(v, l)' \subseteq Live(v, l)
<1>1. PICK j \in JobId : jobs' = [jobs EXCEPT ![j] = FreshRow(u, k, d)]
  BY InsertFacts DEF Exclusive, IInv
<1>2. \A i \in JobId : jobs'[i] = IF i = j THEN FreshRow(u, k, d) ELSE jobs[i]
  BY <1>1 DEF Exclusive, IInv, TypeOK
<1>3. FreshRow(u, k, d).user = u /\ FreshRow(u, k, d).kind = k
  BY DEF FreshRow
<1>4. \A v, l : Live(v, l)' \subseteq Live(v, l) \cup {j}
  BY <1>2 DEF Live
<1>5. \A v, l : <<v, l>> # <<u, k>> => Live(v, l)' \subseteq Live(v, l)
  BY <1>2, <1>3 DEF Live
<1>6. QED
  BY <1>4, <1>5

LEMMA StepIsCalm ==
  ASSUME ~SlowHandlers, Exclusive, NoSweeper, [Next]_vars
  PROVE  \/ Calm
         \/ \E r \in Requests, u \in Users, k \in RequestKinds : EnqueueCheck(r, u, k)
         \/ \E r \in Requests : EnqueueInsert(r)
<1>0. /\ \A w \in Workers : worker[w] \in Frame /\ worker[w].phase # "enqueueing"
      /\ jobs \in [JobId -> Job] /\ worker \in [Workers -> Frame]
      /\ request \in [Requests -> Call \cup {None}]
  BY DEF NoSweeper, Exclusive, IInv, TypeOK
<1>1. ASSUME jobs' = jobs, request' = request, NoSweeper' PROVE Calm
  BY <1>1, RevivesNone
<1>2. ASSUME NEW w \in Workers, worker' = [worker EXCEPT ![w] = Idle] PROVE NoSweeper'
  BY <1>0, <1>2, IdleFrame DEF NoSweeper
<1>5. ASSUME NEW u \in Users, NEW k \in IngestKinds, IngestInsert(u, k) PROVE Calm
  <2>1. Insert(u, k, TRUE) /\ worker' = worker /\ request' = request
    BY <1>5 DEF IngestInsert
  <2>2. k \in Kinds /\ k \notin CalendarKinds
    BY QueueAssumption DEF Kinds
  <2>3. \A v, l : <<v, l>> # <<u, k>> => Live(v, l)' \subseteq Live(v, l)
    BY <2>1, <2>2, InsertsOne
  <2>4. QED
    BY <2>1, <2>2, <2>3 DEF Calm, NoSweeper
<1>6. ASSUME NEW j \in JobId, ComeDue(j) \/ LockAges(j) PROVE Calm
  <2>1. request' = request /\ worker' = worker
    BY <1>6 DEF ComeDue, LockAges
  <2>2. \A i \in JobId : /\ jobs'[i].user = jobs[i].user /\ jobs'[i].kind = jobs[i].kind
                         /\ jobs'[i].status = jobs[i].status
    <3>1. CASE ComeDue(j)
      BY <1>0, <3>1 DEF ComeDue, Job
    <3>2. CASE LockAges(j)
      BY <1>0, <3>2 DEF LockAges, Job
    <3>3. QED
      BY <1>6, <3>1, <3>2
  <2>3. QED
    BY <1>0, <2>1, <2>2, RevivesNone DEF NoSweeper
<1>7. ASSUME NEW w \in Workers, NEW j \in JobId, jobs[j].status = "pending", jobs' = Claimed(j),
             request' = request, NoSweeper'
      PROVE  Calm
  <2>1. \A i \in JobId : /\ jobs'[i].user = jobs[i].user /\ jobs'[i].kind = jobs[i].kind
                         /\ i # j => jobs'[i].status = jobs[i].status
    BY <1>0, <1>7 DEF Claimed, Job
  <2>2. QED
    BY <1>7, <2>1, RevivesNone
<1>8. ASSUME NEW w \in Workers, RunOk(w) \/ PyDone(w) PROVE Calm
  <2>1. /\ jobs' = Succeeded(worker[w].job) /\ worker' = [worker EXCEPT ![w] = Idle]
        /\ request' = request /\ worker[w].job # None
    BY <1>8 DEF RunOk, PyDone, Exclusive, IInv, FrameInv
  <2>2. worker[w].job \in JobId
    BY <1>0, <2>1 DEF Frame
  <2> DEFINE row == [jobs[worker[w].job] EXCEPT !.status = "done"]
  <2>3. row \in Job /\ row.user = jobs[worker[w].job].user /\ row.kind = jobs[worker[w].job].kind
    BY <1>0, <2>2 DEF Job
  <2>4. jobs' = [jobs EXCEPT ![worker[w].job] = row]
    BY <2>1 DEF Succeeded
  <2> HIDE DEF row
  <2>5. QED
    BY <2>1, <2>3, <2>4, EndRevivesNone
<1>9. ASSUME NEW w \in Workers, NEW permanent \in BOOLEAN, RunFail(w, permanent) \/ PyFail(w, permanent)
      PROVE  Calm
  <2>1. /\ worker' = [worker EXCEPT ![w] = Idle] /\ request' = request /\ worker[w].job # None
    BY <1>9 DEF RunFail, PyFail, Exclusive, IInv, FrameInv
  <2>2. worker[w].job \in JobId /\ jobs[worker[w].job] \in Job
    BY <1>0, <2>1 DEF Frame
  <2>3. worker[w].attempts + 1 \in 0 .. MaxAttempts
    BY <1>0, QueueAssumption DEF Exclusive, IInv, FrameInv, Frame
  <2>4. PICK lock \in {"none", "fresh", "stale"} :
          jobs' = Failed(worker[w].job, worker[w].attempts + 1, permanent, lock)
    BY <1>9, <2>2 DEF RunFail, PyFail, Job
  <2> DEFINE over == [jobs[worker[w].job] EXCEPT !.status = "failed",
                        !.attempts = worker[w].attempts + 1, !.lock = lock]
             again == [jobs[worker[w].job] EXCEPT !.status = "pending",
                        !.attempts = worker[w].attempts + 1, !.lock = lock, !.due = FALSE]
  <2>5. over \in Job /\ over.user = jobs[worker[w].job].user /\ over.kind = jobs[worker[w].job].kind
    BY <2>2, <2>3 DEF Job
  <2>6. again \in Job /\ again.user = jobs[worker[w].job].user /\ again.kind = jobs[worker[w].job].kind
    BY <2>2, <2>3 DEF Job
  <2>7. \/ jobs' = [jobs EXCEPT ![worker[w].job] = over]
        \/ jobs' = [jobs EXCEPT ![worker[w].job] = again]
    BY <2>4 DEF Failed
  <2> HIDE DEF over, again
  <2>8. QED
    BY <2>1, <2>5, <2>6, <2>7, EndRevivesNone
<1>10. ASSUME NEW w \in TsWorkers, Ts(w) PROVE Calm
  <2>1. w \in Workers
    BY DEF Workers
  <2>2. CASE ReclaimStaleJobs(w)
    <3>0. \A j \in JobId : jobs[j] \in Job
      BY <1>0
    <3>1. worker' = [worker EXCEPT ![w].phase = "claiming"] /\ request' = request
      BY <2>2, Zenon DEF ReclaimStaleJobs
    <3>2. NoSweeper'
      BY <1>0, <2>1, <3>1 DEF Frame, NoSweeper
    <3>3. \A j \in JobId : /\ jobs'[j].user = jobs[j].user /\ jobs'[j].kind = jobs[j].kind
                           /\ jobs'[j].status \in {"pending", "running"} =>
                                jobs[j].status \in {"pending", "running"}
      <4>1. jobs' = [j \in JobId |->
                       IF jobs[j].status = "running" /\ jobs[j].lock = "stale"
                       THEN [jobs[j] EXCEPT !.status = "pending", !.lock = "none"] ELSE jobs[j]]
        BY <2>2, Zenon DEF ReclaimStaleJobs
      <4>2. \A j \in JobId : \/ jobs'[j] = jobs[j]
                             \/ /\ jobs[j].status = "running"
                                /\ jobs'[j] = [jobs[j] EXCEPT !.status = "pending", !.lock = "none"]
        BY <4>1, Zenon
      <4>3. ASSUME NEW j \in JobId
            PROVE  LET r == [jobs[j] EXCEPT !.status = "pending", !.lock = "none"] IN
                   r.user = jobs[j].user /\ r.kind = jobs[j].kind
        BY <3>0 DEF Job
      <4>4. QED
        BY <4>2, <4>3, Zenon
    <3>4. QED
      BY <3>1, <3>2, <3>3, RevivesNone
  <2>3. CASE ClaimOne(w)
    <3>1. CASE worker' = [worker EXCEPT ![w] = Idle] /\ UNCHANGED jobs
      BY <1>1, <1>2, <2>1, <2>3, <3>1 DEF ClaimOne
    <3>2. ASSUME NEW j \in Claimable(CalendarKinds), jobs' = Claimed(j),
                 worker' = [worker EXCEPT ![w] =
                   [phase |-> "working", job |-> j, attempts |-> jobs[j].attempts]]
          PROVE  Calm
      <4>1. NoSweeper'
        BY <1>0, <3>2 DEF NoSweeper
      <4>2. request' = request /\ j \in JobId /\ jobs[j].status = "pending"
        BY <2>3 DEF ClaimOne, Claimable
      <4>3. QED
        BY <1>7, <2>1, <3>2, <4>1, <4>2
    <3>3. QED
      BY <2>3, <3>1, <3>2 DEF ClaimOne
  <2>4. CASE ScheduleNextSweep(w)
    <3>1. PICK j : j = worker[w].job
      OBVIOUS
    <3>2. j \in JobId /\ j # None /\ worker[w].phase = "working" /\ jobs[j].kind = RenewKind
      BY <1>0, <2>1, <2>4, <3>1 DEF ScheduleNextSweep, Exclusive, IInv, FrameInv, Frame
    <3>3. j \in Live(jobs[j].user, RenewKind)
      BY <2>1, <3>1, <3>2 DEF Live, Exclusive, HeldRow
    <3>4. worker' = [worker EXCEPT ![w].phase = "enqueued"] /\ jobs' = jobs /\ request' = request
      BY <2>4, <3>1, <3>3 DEF ScheduleNextSweep
    <3>5. NoSweeper'
      BY <1>0, <2>1, <3>4 DEF Frame, NoSweeper
    <3>6. QED
      BY <1>1, <3>4, <3>5
  <2>5. ~InsertNextSweep(w)
    BY <1>0, <2>1 DEF InsertNextSweep
  <2>6. QED
    BY <1>8, <1>9, <1>10, <2>1, <2>2, <2>3, <2>4, <2>5 DEF Ts
<1>11. ASSUME NEW w \in PyWorkers, Py(w) PROVE Calm
  <2>1. w \in Workers
    BY DEF Workers
  <2>2. CASE PyClaim(w)
    <3>1. PICK j \in Claimable(Kinds) :
                 /\ jobs' = Claimed(j)
                 /\ worker' = [worker EXCEPT ![w] =
                      IF jobs[j].kind \in IngestKinds
                      THEN [phase |-> "working", job |-> j, attempts |-> jobs[j].attempts]
                      ELSE Idle]
      BY <2>2 DEF PyClaim
    <3>2. NoSweeper'
      BY <1>0, <3>1, IdleFrame DEF NoSweeper
    <3>3. request' = request /\ j \in JobId /\ jobs[j].status = "pending"
      BY <2>2 DEF PyClaim, Claimable
    <3>4. QED
      BY <1>7, <2>1, <3>1, <3>2, <3>3
  <2>3. QED
    BY <1>8, <1>9, <1>11, <2>1, <2>2 DEF Py
<1>12. ASSUME NEW w \in Workers, Crash(w) PROVE Calm
  BY <1>1, <1>2, <1>12 DEF Crash
<1>13. CASE UNCHANGED vars
  BY <1>0, <1>1, <1>13 DEF vars, NoSweeper
<1>14. QED
  BY <1>5, <1>6, <1>10, <1>11, <1>12, <1>13 DEF Next, Enqueue, Clock

-----------------------------------------------------------------------------
(* One live row of a kind per user, when no two calls for one user and kind overlap. *)

OneCaller ==
  \A r, s \in Requests : request[r] # None /\ request[r] = request[s] => r = s

\* A call past its SELECT still finds nothing.
NothingLive ==
  /\ \A r \in Requests : request[r] # None => Live(request[r].user, request[r].kind) = {}
  /\ \A u \in Users, k \in CalendarKinds : \A i, j \in Live(u, k) : i = j

Unique == Exclusive /\ NoSweeper /\ NothingLive

\* Where a call stands, and what its two statements do.
LEMMA CallFacts ==
  ASSUME Exclusive, NEW r \in Requests, request[r] # None
  PROVE  \E u \in Users, k \in RequestKinds : request[r] = [user |-> u, kind |-> k]
BY DEF Exclusive, IInv, TypeOK, Call

LEMMA CheckFacts ==
  ASSUME Exclusive, NoSweeper, NEW r \in Requests, NEW u \in Users, NEW k \in RequestKinds,
         EnqueueCheck(r, u, k)
  PROVE  /\ request[r] = None /\ Live(u, k) = {} /\ NoSweeper'
         /\ \A v, l : Live(v, l)' = Live(v, l)
         /\ \A s \in Requests : request'[s] = IF s = r THEN [user |-> u, kind |-> k] ELSE request[s]
<1>1. request \in [Requests -> Call \cup {None}]
  BY DEF Exclusive, IInv, TypeOK
<1>2. QED
  BY <1>1 DEF EnqueueCheck, Live, NoSweeper

LEMMA EnqueueFacts ==
  ASSUME Exclusive, NoSweeper, NEW r \in Requests, EnqueueInsert(r)
  PROVE  \E u \in Users, k \in RequestKinds, j \in JobId :
           /\ request[r] # None /\ request[r] = [user |-> u, kind |-> k] /\ NoSweeper'
           /\ \A s \in Requests : request'[s] = IF s = r THEN None ELSE request[s]
           /\ \A v, l : /\ Live(v, l)' \subseteq Live(v, l) \cup {j}
                        /\ <<v, l>> # <<u, k>> => Live(v, l)' \subseteq Live(v, l)
<1>1. request \in [Requests -> Call \cup {None}]
  BY DEF Exclusive, IInv, TypeOK
<1>2. PICK u \in Users, k \in RequestKinds : request[r] = [user |-> u, kind |-> k]
  BY CallFacts DEF EnqueueInsert
<1>3. request[r].user = u /\ request[r].kind = k /\ k \in Kinds
  BY <1>2, QueueAssumption DEF Kinds
<1>4. Insert(u, k, TRUE) /\ worker' = worker /\ request[r] # None
  BY <1>3 DEF EnqueueInsert
<1>5. PICK j \in JobId : \A v, l :
         /\ Live(v, l)' \subseteq Live(v, l) \cup {j}
         /\ <<v, l>> # <<u, k>> => Live(v, l)' \subseteq Live(v, l)
  BY <1>3, <1>4, InsertsOne
<1>6. \A s \in Requests : request'[s] = IF s = r THEN None ELSE request[s]
  BY <1>1 DEF EnqueueInsert
<1>7. QED
  BY <1>2, <1>4, <1>5, <1>6 DEF NoSweeper

LEMMA StepKeepsUnique == ~SlowHandlers /\ OneCaller /\ Unique /\ [Next]_vars => Unique'
<1> SUFFICES ASSUME ~SlowHandlers, OneCaller, Unique, [Next]_vars PROVE (NoSweeper /\ NothingLive)'
  BY StepKeepsExclusive DEF Unique
<1>1. CASE Calm
  <2>1. ASSUME NEW r \in Requests, request'[r] # None
        PROVE  Live(request[r].user, request[r].kind)' = {}
    <3>1. PICK u \in Users, k \in RequestKinds : request[r] = [user |-> u, kind |-> k]
      BY <1>1, <2>1, CallFacts DEF Calm, Unique
    <3>2. Live(u, k) = {}
      <4>1. request[r].user = u /\ request[r].kind = k
        BY <3>1
      <4>2. QED
        BY <1>1, <2>1, <4>1 DEF Calm, Unique, NothingLive
    <3>3. k \in CalendarKinds
      BY QueueAssumption
    <3>4. Live(u, k)' = {}
      BY <1>1, <3>2, <3>3 DEF Calm
    <3>5. request'[r].user = u /\ request'[r].kind = k
      BY <1>1, <3>1 DEF Calm
    <3>6. QED
      BY <3>4, <3>5
  <2>2. QED
    BY <1>1, <2>1 DEF Calm, Unique, NothingLive
<1>2. ASSUME NEW r \in Requests, NEW u \in Users, NEW k \in RequestKinds, EnqueueCheck(r, u, k)
      PROVE  (NoSweeper /\ NothingLive)'
  <2>1. /\ request[r] = None /\ Live(u, k) = {} /\ NoSweeper'
        /\ \A v, l : Live(v, l)' = Live(v, l)
        /\ \A s \in Requests : request'[s] = IF s = r THEN [user |-> u, kind |-> k] ELSE request[s]
    BY <1>2, CheckFacts DEF Unique
  <2>2. ASSUME NEW s \in Requests, request'[s] # None
        PROVE  Live(request[s].user, request[s].kind)' = {}
    BY <2>1, <2>2 DEF Unique, NothingLive
  <2>3. QED
    BY <2>1, <2>2 DEF Unique, NothingLive
<1>3. ASSUME NEW r \in Requests, EnqueueInsert(r) PROVE (NoSweeper /\ NothingLive)'
  <2>1. PICK u \in Users, k \in RequestKinds, j \in JobId :
           /\ request[r] # None /\ request[r] = [user |-> u, kind |-> k] /\ NoSweeper'
           /\ \A s \in Requests : request'[s] = IF s = r THEN None ELSE request[s]
           /\ \A v, l : /\ Live(v, l)' \subseteq Live(v, l) \cup {j}
                        /\ <<v, l>> # <<u, k>> => Live(v, l)' \subseteq Live(v, l)
    BY <1>3, EnqueueFacts DEF Unique
  <2>2. Live(u, k) = {}
    <3>1. request[r].user = u /\ request[r].kind = k
      BY <2>1
    <3>2. QED
      BY <2>1, <3>1 DEF Unique, NothingLive
  <2>3. ASSUME NEW s \in Requests, request'[s] # None
        PROVE  Live(request[s].user, request[s].kind)' = {}
    <3>1. s # r /\ request'[s] = request[s] /\ request[s] # [user |-> u, kind |-> k]
      BY <2>1, <2>3 DEF OneCaller
    <3>2. PICK v \in Users, l \in RequestKinds : request[s] = [user |-> v, kind |-> l]
      BY <2>3, <3>1, CallFacts DEF Unique
    <3>3. <<v, l>> # <<u, k>> /\ request[s].user = v /\ request[s].kind = l
      BY <3>1, <3>2
    <3>4. Live(v, l) = {}
      BY <2>3, <3>1, <3>3 DEF Unique, NothingLive
    <3>5. Live(v, l)' = {}
      BY <2>1, <3>3, <3>4
    <3>6. QED
      BY <3>1, <3>3, <3>5
  <2>4. ASSUME NEW v \in Users, NEW l \in CalendarKinds PROVE \A i, m \in Live(v, l)' : i = m
    <3>1. CASE v = u /\ l = k
      BY <2>1, <2>2, <3>1
    <3>2. CASE ~(v = u /\ l = k)
      BY <2>1, <3>2 DEF Unique, NothingLive
    <3>3. QED
      BY <3>1, <3>2
  <2>5. QED
    BY <2>1, <2>3, <2>4 DEF NothingLive
<1>4. QED
  BY <1>1, <1>2, <1>3, StepIsCalm DEF Unique

LEMMA InitLive ==
  Init => NoSweeper /\ (\A u, k : Live(u, k) \subseteq {1}) /\ \A r \in Requests : request[r] = None
<1> SUFFICES ASSUME Init
             PROVE  NoSweeper /\ (\A u, k : Live(u, k) \subseteq {1}) /\ \A r \in Requests : request[r] = None
  OBVIOUS
<1>1. \A j \in JobId : j # 1 => jobs[j].status = "absent"
  BY DEF Init, NoJob
<1>2. \A u, k : Live(u, k) \subseteq {1}
  BY <1>1 DEF Live
<1>3. QED
  BY <1>2, IdleFrame DEF Init, NoSweeper

LEMMA LiveIsFinite ==
  ASSUME NEW u, NEW k PROVE IsFiniteSet(Live(u, k)) /\ Cardinality(Live(u, k)) \in Nat
<1>1. Live(u, k) \subseteq 0 .. MaxJobs /\ MaxJobs \in Nat
  BY QueueAssumption DEF Live, JobId
<1>2. QED
  BY <1>1, BoundedIsFinite

\* enqueueJob keeps at most one live row of a calendar or planning kind per user, retries,
\* reclaims and renewal sweeps included (worker.ts:111), when no handler outlasts its
\* lock and no two calls for one user and kind overlap.  Both are needed.
THEOREM OneRowPerKind ==
  ~SlowHandlers => (Spec /\ []OneCaller => []OneLiveRowPerKind)
<1> SUFFICES ASSUME ~SlowHandlers PROVE Spec /\ []OneCaller => []OneLiveRowPerKind
  OBVIOUS
<1>1. OneCaller /\ Unique /\ [Next]_vars => Unique'
  BY StepKeepsUnique
<1>2. Unique => OneLiveRowPerKind
  <2> SUFFICES ASSUME Unique, NEW u \in Users, NEW k \in CalendarKinds
               PROVE  Cardinality(Live(u, k)) <= 1
    BY DEF OneLiveRowPerKind
  <2>1. \A i, j \in Live(u, k) : i = j
    BY DEF Unique, NothingLive
  <2>2. QED
    BY <2>1, LiveIsFinite, AtMostOne
<1>3. Init => Unique
  BY InitExclusive, InitLive DEF Unique, NothingLive
<1>4. QED
  BY <1>1, <1>2, <1>3, PTL DEF Spec

-----------------------------------------------------------------------------
(* Any calls: their number is what bounds the rows. *)

Bounded == Exclusive /\ NoSweeper /\ RowsDoNotPileUp

LEMMA CallingIsFinite ==
  ASSUME NEW u, NEW k
  PROVE  /\ IsFiniteSet(Calling(u, k)) /\ Cardinality(Calling(u, k)) \in Nat
         /\ Cardinality(Calling(u, k)) <= Cardinality(Requests) /\ Cardinality(Requests) \in Nat
<1>1. Calling(u, k) \subseteq Requests /\ IsFiniteSet(Requests)
  BY QueueAssumption DEF Calling
<1>2. QED
  BY <1>1, FS_Subset, FS_CardinalityType

\* Fewer live rows and fewer calls of a user and kind.
LEMMA FewerStay ==
  ASSUME Bounded, NEW u \in Users, NEW k \in CalendarKinds,
         Live(u, k)' \subseteq Live(u, k), Calling(u, k)' \subseteq Calling(u, k)
  PROVE  Cardinality(Live(u, k)') + Cardinality(Calling(u, k)') <= Cardinality(Requests)
<1>1. /\ Cardinality(Live(u, k)') <= Cardinality(Live(u, k)) /\ Cardinality(Live(u, k)') \in Nat
      /\ Cardinality(Live(u, k)) \in Nat
  BY LiveIsFinite, FS_Subset, FS_CardinalityType
<1>2. /\ Cardinality(Calling(u, k)') <= Cardinality(Calling(u, k))
      /\ Cardinality(Calling(u, k)') \in Nat /\ Cardinality(Calling(u, k)) \in Nat
      /\ Cardinality(Requests) \in Nat
  BY CallingIsFinite, FS_Subset, FS_CardinalityType
<1>3. Cardinality(Live(u, k)) + Cardinality(Calling(u, k)) <= Cardinality(Requests)
  BY DEF Bounded, RowsDoNotPileUp
<1>4. QED
  BY <1>1, <1>2, <1>3

LEMMA StepKeepsBounded == ~SlowHandlers /\ Bounded /\ [Next]_vars => Bounded'
<1> SUFFICES ASSUME ~SlowHandlers, Bounded, [Next]_vars PROVE (NoSweeper /\ RowsDoNotPileUp)'
  BY StepKeepsExclusive DEF Bounded
<1> DEFINE Fits(u, k) ==
      Cardinality(Live(u, k)') + Cardinality(Calling(u, k)') <= Cardinality(Requests)
<1>1. CASE Calm
  <2>1. ASSUME NEW u \in Users, NEW k \in CalendarKinds PROVE Fits(u, k)
    <3>1. Calling(u, k)' = Calling(u, k)
      BY <1>1 DEF Calm, Calling
    <3>2. QED
      BY <1>1, <3>1, FewerStay DEF Calm
  <2>2. QED
    BY <1>1, <2>1 DEF Calm, RowsDoNotPileUp
<1>2. ASSUME NEW r \in Requests, NEW u \in Users, NEW k \in RequestKinds, EnqueueCheck(r, u, k)
      PROVE  (NoSweeper /\ RowsDoNotPileUp)'
  <2>1. /\ request[r] = None /\ Live(u, k) = {} /\ NoSweeper'
        /\ \A v, l : Live(v, l)' = Live(v, l)
        /\ \A s \in Requests : request'[s] = IF s = r THEN [user |-> u, kind |-> k] ELSE request[s]
    BY <1>2, CheckFacts DEF Bounded
  <2>2. ASSUME NEW v \in Users, NEW l \in CalendarKinds PROVE Fits(v, l)
    <3>1. CASE v = u /\ l = k
      <4>1. Live(v, l)' = {} /\ Cardinality({}) = 0
        BY <2>1, <3>1, FS_EmptySet
      <4>2. Cardinality(Live(v, l)') = 0
        BY <4>1
      <4>3. Calling(v, l)' \subseteq Requests
        BY DEF Calling
      <4>4. /\ Cardinality(Calling(v, l)') <= Cardinality(Requests)
            /\ Cardinality(Calling(v, l)') \in Nat /\ Cardinality(Requests) \in Nat
        BY <4>3, QueueAssumption, FS_Subset, FS_CardinalityType
      <4>5. QED
        BY <4>2, <4>4
    <3>2. CASE ~(v = u /\ l = k)
      <4>1. Calling(v, l)' \subseteq Calling(v, l)
        BY <2>1, <3>2 DEF Calling
      <4>2. QED
        BY <2>1, <4>1, FewerStay
    <3>3. QED
      BY <3>1, <3>2
  <2>3. QED
    BY <2>1, <2>2 DEF RowsDoNotPileUp
<1>3. ASSUME NEW r \in Requests, EnqueueInsert(r) PROVE (NoSweeper /\ RowsDoNotPileUp)'
  <2>1. PICK u \in Users, k \in RequestKinds, j \in JobId :
           /\ request[r] # None /\ request[r] = [user |-> u, kind |-> k] /\ NoSweeper'
           /\ \A s \in Requests : request'[s] = IF s = r THEN None ELSE request[s]
           /\ \A v, l : /\ Live(v, l)' \subseteq Live(v, l) \cup {j}
                        /\ <<v, l>> # <<u, k>> => Live(v, l)' \subseteq Live(v, l)
    BY <1>3, EnqueueFacts DEF Bounded
  <2>2. ASSUME NEW v \in Users, NEW l \in CalendarKinds PROVE Fits(v, l)
    <3>1. Calling(v, l)' \subseteq Calling(v, l)
      BY <2>1 DEF Calling
    <3>2. CASE v = u /\ l = k
      <4>1. r \in Calling(v, l) /\ Calling(v, l)' \subseteq Calling(v, l) \ {r}
        BY <2>1, <3>2 DEF Calling
      <4>2. /\ Cardinality(Calling(v, l) \ {r}) = Cardinality(Calling(v, l)) - 1
            /\ IsFiniteSet(Calling(v, l) \ {r})
        BY <4>1, CallingIsFinite, FS_RemoveElement
      <4>3. /\ Cardinality(Calling(v, l)') <= Cardinality(Calling(v, l)) - 1
            /\ Cardinality(Calling(v, l)') \in Nat
        BY <4>1, <4>2, FS_Subset, FS_CardinalityType
      <4>4. /\ IsFiniteSet(Live(v, l) \cup {j})
            /\ Cardinality(Live(v, l) \cup {j}) \in Nat
            /\ Cardinality(Live(v, l) \cup {j}) <= Cardinality(Live(v, l)) + 1
        <5>1. IsFiniteSet(Live(v, l)) /\ Cardinality(Live(v, l)) \in Nat
          BY LiveIsFinite
        <5>2. /\ IsFiniteSet(Live(v, l) \cup {j})
              /\ \/ Cardinality(Live(v, l) \cup {j}) = Cardinality(Live(v, l))
                 \/ Cardinality(Live(v, l) \cup {j}) = Cardinality(Live(v, l)) + 1
          BY <5>1, FS_AddElement
        <5>3. QED
          BY <5>1, <5>2
      <4>5. /\ Cardinality(Live(v, l)') <= Cardinality(Live(v, l)) + 1
            /\ Cardinality(Live(v, l)') \in Nat
        <5>1. Cardinality(Live(v, l)') <= Cardinality(Live(v, l) \cup {j}) /\ Cardinality(Live(v, l)') \in Nat
          BY <2>1, <4>4, FS_Subset, FS_CardinalityType
        <5>2. QED
          BY <4>4, <5>1, LiveIsFinite
      <4>6. Cardinality(Live(v, l)) + Cardinality(Calling(v, l)) <= Cardinality(Requests)
        BY DEF Bounded, RowsDoNotPileUp
      <4>7. Cardinality(Live(v, l)) \in Nat /\ Cardinality(Calling(v, l)) \in Nat /\ Cardinality(Requests) \in Nat
        BY LiveIsFinite, CallingIsFinite
      <4>8. QED
        BY <4>3, <4>5, <4>6, <4>7
    <3>3. CASE ~(v = u /\ l = k)
      BY <2>1, <3>1, <3>3, FewerStay
    <3>4. QED
      BY <3>2, <3>3
  <2>3. QED
    BY <2>1, <2>2 DEF RowsDoNotPileUp
<1>4. QED
  BY <1>1, <1>2, <1>3, StepIsCalm DEF Bounded

LEMMA InitBounded == Init => Bounded
<1> SUFFICES ASSUME Init PROVE Bounded
  OBVIOUS
<1>1. \A u, k : Live(u, k) \subseteq {1} /\ Calling(u, k) = {}
  BY InitLive DEF Calling
<1>2. Cardinality(Requests) \in Nat \ {0}
  BY QueueAssumption, FS_CardinalityType, FS_EmptySet
<1>3. ASSUME NEW u, NEW k PROVE Cardinality(Live(u, k)) + Cardinality(Calling(u, k)) <= Cardinality(Requests)
  <2>1. \A i, j \in Live(u, k) : i = j
    BY <1>1
  <2>2. Cardinality(Live(u, k)) <= 1 /\ Cardinality(Live(u, k)) \in Nat
    BY <2>1, LiveIsFinite, AtMostOne
  <2>3. Cardinality(Calling(u, k)) = 0
    BY <1>1, FS_EmptySet
  <2>4. QED
    BY <1>2, <2>2, <2>3
<1>4. QED
  BY <1>3, InitExclusive, InitLive DEF Bounded, RowsDoNotPileUp

\* However many enqueueJob calls race, and whatever is retried, reclaimed and swept, a user
\* never has more live rows of a calendar or planning kind than there are callers: the
\* duplicates of worker.ts:115-122 do not accumulate.
THEOREM RowsAreBounded == ~SlowHandlers => (Spec => []RowsDoNotPileUp)
<1> SUFFICES ASSUME ~SlowHandlers PROVE Spec => []RowsDoNotPileUp
  OBVIOUS
<1>1. Bounded /\ [Next]_vars => Bounded'
  BY StepKeepsBounded
<1>2. Bounded => RowsDoNotPileUp
  BY DEF Bounded
<1>3. QED
  BY <1>1, <1>2, InitBounded, PTL DEF Spec
=============================================================================
