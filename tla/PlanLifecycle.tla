---------------------------- MODULE PlanLifecycle ----------------------------
(***************************************************************************)
(* The propose -> amend -> accept state machine of                         *)
(* apps/web/lib/planning/lifecycle.ts, for one student and one (horizon,   *)
(* period): the rows of `plans`, the tasks materialised from them, and the *)
(* amendment log.  Requests of the student's devices and the background    *)
(* jobs interleave at every await; only amendPlan's two writes share a     *)
(* transaction.  A payload is abstracted to the set of its item ids.       *)
(***************************************************************************)
EXTENDS Naturals, FiniteSets

CONSTANTS
  Devices,     \* places the student sends plan and task requests from
  JobWorkers,  \* workers running plan_week_propose or plan_week_review
  Items,       \* planned items; ids are a hash of the content (generate.ts)
  MaxPlans,    \* bound: the largest id of a plan row
  Scenarios    \* bounds, one record of them for each initial state

ASSUME PlanAssumption ==
  /\ MaxPlans \in Nat
  /\ Scenarios \subseteq [horizon : {"week", "semester"}, devices : SUBSET Devices,
                          jobs : SUBSET JobWorkers, serial : BOOLEAN, items : SUBSET Items,
                          rows : Nat, edits : Nat, deaths : Nat]
  /\ Devices \cap JobWorkers = {}

VARIABLES
  plans,      \* the rows; a larger id was created later
  accepted,   \* plans whose approved_at is set
  tasks,      \* status of the task of each (plan, item), or "none"
  log,        \* plan_amendments
  frame,      \* what each request or job is in the middle of
  bound       \* the horizon, the devices, jobs and items in use, whether payloads are written
              \* one at a time (OneWriter), the rows that may be inserted, the distinct
              \* entries of amendPlan the log may hold, the deaths that are left

vars == <<plans, accepted, tasks, log, frame, bound>>

-----------------------------------------------------------------------------
Procs  == Devices \cup JobWorkers
PlanId == 1 .. MaxPlans

Plan == [status : {"absent", "proposed", "approved", "amended", "superseded"},
         payload : SUBSET Items]

\* The next statement of a process, with what it carries to it.
Statement == {"none", "read-existing", "replace", "insert", "materialise", "retire",
              "rewrite", "rematerialise", "prune", "log-check-off"}

\* planAmendmentActionEnum.  "skipped" stands for "removed" too, which applyAmendment handles
\* alike, and "reshaped" for rescheduled, resized and reordered.
Action == {"added", "skipped", "completed", "reshaped"}

\* A row of plan_amendments.  The two functions that insert one leave different columns:
\* updateTask keeps the task's status in `before` and `after`.
Entry == [plan : PlanId, item : Items, action : Action, by : {"amendPlan", "updateTask"}]

Frame == [next : Statement, plan : PlanId \cup {0}, payload : SUBSET Items,
          entry : Entry \cup {<<>>}]

Free == [next |-> "none", plan |-> 0, payload |-> {}, entry |-> <<>>]

TypeOK ==
  /\ plans \in [PlanId -> Plan]
  /\ accepted \subseteq PlanId
  /\ tasks \in [PlanId -> [Items -> {"none", "todo", "done", "skipped"}]]
  /\ log \subseteq Entry
  /\ frame \in [Procs -> Frame]
  /\ bound.deaths \in Nat

Init ==
  /\ plans = [q \in PlanId |-> [status |-> "absent", payload |-> {}]]
  /\ accepted = {}
  /\ tasks = [q \in PlanId |-> [i \in Items |-> "none"]]
  /\ log = {}
  /\ frame = [p \in Procs |-> Free]
  /\ bound \in Scenarios

-----------------------------------------------------------------------------
Existing    == {q \in PlanId : plans[q].status # "absent"}
Newest(S)   == CHOOSE q \in S : \A r \in S : r <= q

\* getCurrentPlanRow
Current  == {q \in Existing : plans[q].status # "superseded"}

\* The plans in force: getApprovedPlanRow returns one of them.
InForce  == {q \in Existing : plans[q].status \in {"approved", "amended"}}

Resume(p, f)  == frame' = [frame EXCEPT ![p] = f]
At(p, s)      == frame[p].next = s
Becomes(p, s) == Resume(p, [frame[p] EXCEPT !.next = s])

-----------------------------------------------------------------------------
(* proposePlan.  The model call is the long await before "read-existing". *)

\* The bound on rows: every proposal under way may still insert one.
Room == Cardinality(Existing)
          + Cardinality({p \in Procs : frame[p].next \in {"read-existing", "insert"}}) < bound.rows

\* POST /api/plan/propose
Propose(p) ==
  /\ p \in bound.devices /\ At(p, "none") /\ Room
  /\ Becomes(p, "read-existing")
  /\ UNCHANGED <<plans, accepted, tasks, log, bound>>

\* plan_week_propose returns early when the student has a plan in hand;
\* plan_week_review re-proposes the semester without asking.
RunJob(p) ==
  /\ p \in bound.jobs /\ At(p, "none") /\ Room
  /\ bound.horizon = "week" => Current = {}
  /\ Becomes(p, "read-existing")
  /\ UNCHANGED <<plans, accepted, tasks, log, bound>>

\* Mutant of ReadExisting: an unanswered proposal is not edited in place.
ReadNothing(p, payload) ==
  /\ At(p, "read-existing")
  /\ Resume(p, [Free EXCEPT !.next = "insert", !.payload = payload])
  /\ UNCHANGED <<plans, accepted, tasks, log, bound>>

ReadExisting(p, payload) ==
  /\ At(p, "read-existing")
  /\ IF Current # {} /\ plans[Newest(Current)].status = "proposed"
     THEN Resume(p, [Free EXCEPT !.next = "replace", !.plan = Newest(Current), !.payload = payload])
     ELSE Resume(p, [Free EXCEPT !.next = "insert", !.payload = payload])
  /\ UNCHANGED <<plans, accepted, tasks, log, bound>>

\* UPDATE plans SET payload ... WHERE id: whatever its status is by now.
ReplaceProposal(p) ==
  /\ At(p, "replace")
  /\ plans' = [plans EXCEPT ![frame[p].plan].payload = frame[p].payload]
  /\ Resume(p, Free)
  /\ UNCHANGED <<accepted, tasks, log, bound>>

\* Mutant of InsertProposal: the new row supersedes what is there.
InsertAndSupersede(p) ==
  /\ At(p, "insert")
  /\ \E q \in PlanId :
       /\ q = Cardinality(Existing) + 1
       /\ plans' = [r \in PlanId |->
            IF r = q THEN [status |-> "proposed", payload |-> frame[p].payload]
            ELSE IF r \in Current THEN [plans[r] EXCEPT !.status = "superseded"] ELSE plans[r]]
  /\ Resume(p, Free)
  /\ UNCHANGED <<accepted, tasks, log, bound>>

InsertProposal(p) ==
  /\ At(p, "insert")
  /\ \E q \in PlanId :
       /\ q = Cardinality(Existing) + 1
       /\ plans' = [plans EXCEPT ![q] = [status |-> "proposed", payload |-> frame[p].payload]]
  /\ Resume(p, Free)
  /\ UNCHANGED <<accepted, tasks, log, bound>>

-----------------------------------------------------------------------------
(* acceptPlan: approve, materialise, retire the others. *)

Approve(p, q) ==
  /\ p \in bound.devices /\ At(p, "none")
  /\ q \in Existing
  /\ plans' = [plans EXCEPT ![q].status = "approved"]
  /\ accepted' = accepted \cup {q}
  /\ Resume(p, [Free EXCEPT !.next = "materialise", !.plan = q, !.payload = plans[q].payload])
  /\ UNCHANGED <<tasks, log, bound>>

\* Upsert on (planId, planItemId) that leaves status alone.
Materialised(q, payload) ==
  [tasks EXCEPT ![q] = [i \in Items |->
     IF i \in payload /\ tasks[q][i] = "none" THEN "todo" ELSE tasks[q][i]]]

MaterialiseTasks(p) ==
  /\ At(p, "materialise")
  /\ tasks' = Materialised(frame[p].plan, frame[p].payload)
  /\ Becomes(p, "retire")
  /\ UNCHANGED <<plans, accepted, log, bound>>

\* Mutant of RetireOthers: retires the accepted plan with the rest.
RetireAll(p) ==
  /\ At(p, "retire")
  /\ plans' = [q \in PlanId |->
                 IF q \in Current THEN [plans[q] EXCEPT !.status = "superseded"] ELSE plans[q]]
  /\ Resume(p, Free)
  /\ UNCHANGED <<accepted, tasks, log, bound>>

\* Mutant of RetireOthers: writes a status the plan_status enum does not have.
RetireAsHistory(p) ==
  /\ At(p, "retire")
  /\ plans' = [q \in PlanId |->
                 IF q # frame[p].plan /\ q \in Current
                 THEN [plans[q] EXCEPT !.status = "history"] ELSE plans[q]]
  /\ Resume(p, Free)
  /\ UNCHANGED <<accepted, tasks, log, bound>>

RetireOthers(p) ==
  /\ At(p, "retire")
  /\ plans' = [q \in PlanId |->
                 IF q # frame[p].plan /\ q \in Current
                 THEN [plans[q] EXCEPT !.status = "superseded"] ELSE plans[q]]
  /\ Resume(p, Free)
  /\ UNCHANGED <<accepted, tasks, log, bound>>

-----------------------------------------------------------------------------
(* amendPlan: read and edit, write log and payload, resync an accepted plan. *)

\* The student's own addition of an item, as amendPlan logs it.
ByHand(q, i) == [plan |-> q, item |-> i, action |-> "added", by |-> "amendPlan"]

\* applyAmendment: what the payload may become.  An addition does not look whether
\* the item is there, and "skipped" takes one copy out of each bucket, so an item
\* that was ever added by hand may have a second copy that stays.
Amended(q, i, action) ==
  CASE action = "added"   -> {plans[q].payload \cup {i}}
    [] action = "skipped" -> {plans[q].payload \ {i}}
                               \cup {P \in {plans[q].payload} : ByHand(q, i) \in log}
    [] OTHER              -> {plans[q].payload}

\* One amendment to a call, of the list amendPlan takes.  The three actions called
\* "reshaped" throw when the item is not there (locate).
Amend(p, q, i, action) ==
  /\ p \in bound.devices /\ At(p, "none")
  /\ q \in Existing
  /\ Cardinality({e \in log : e.by = "amendPlan"}) < bound.edits
  /\ action = "reshaped" => i \in plans[q].payload
  /\ \E payload \in Amended(q, i, action) :
       Resume(p, [next |-> "rewrite", plan |-> q, payload |-> payload,
                  entry |-> [plan |-> q, item |-> i, action |-> action, by |-> "amendPlan"]])
  /\ UNCHANGED <<plans, accepted, tasks, log, bound>>

\* Mutant of RewritePayload: the edit is logged and not written.
RewriteLogOnly(p) ==
  /\ At(p, "rewrite")
  /\ plans' = [plans EXCEPT ![frame[p].plan].status = "amended"]
  /\ log' = log \cup {frame[p].entry}
  /\ Resume(p, Free)
  /\ UNCHANGED <<accepted, tasks, bound>>

\* The transaction writes the payload edited from the one that was read.
RewritePayload(p) ==
  /\ At(p, "rewrite")
  /\ LET q == frame[p].plan IN
       /\ plans' = [plans EXCEPT ![q] = [status |-> "amended", payload |-> frame[p].payload]]
       /\ IF q \in accepted
          THEN Resume(p, [Free EXCEPT !.next = "rematerialise", !.plan = q,
                                      !.payload = frame[p].payload])
          ELSE Resume(p, Free)
  /\ log' = log \cup {frame[p].entry}
  /\ UNCHANGED <<accepted, tasks, bound>>

RematerialiseTasks(p) ==
  /\ At(p, "rematerialise")
  /\ tasks' = Materialised(frame[p].plan, frame[p].payload)
  /\ Becomes(p, "prune")
  /\ UNCHANGED <<plans, accepted, log, bound>>

\* The rows the DELETE of resyncTasks selects.  drizzle-orm's and() joins its
\* arguments with " and " and puts no parentheses around the raw fragment
\* `plan_item_id is null or plan_item_id <> all(live)`, and in SQL `and` binds
\* tighter than `or`: with any live item the rows are those of every plan whose
\* item is not live; with none they are the todo rows of this plan.
PruneSelects(q, live, r, i) ==
  IF live # {} THEN i \notin live ELSE r = q /\ tasks[r][i] = "todo"

\* Mutant of PruneTasks: the resync only upserts.
PruneNothing(p) ==
  /\ At(p, "prune")
  /\ Resume(p, Free)
  /\ UNCHANGED <<plans, accepted, tasks, log, bound>>

PruneTasks(p) ==
  /\ At(p, "prune")
  /\ tasks' = [r \in PlanId |-> [i \in Items |->
                 IF PruneSelects(frame[p].plan, frame[p].payload, r, i)
                 THEN "none" ELSE tasks[r][i]]]
  /\ Resume(p, Free)
  /\ UNCHANGED <<plans, accepted, log, bound>>

-----------------------------------------------------------------------------
(* updateTask: check-off, then its own log entry in a second statement. *)

\* Both a check-off and a skip are logged; the payload keeps the item.
UpdateTask(p, q, i, s) ==
  /\ p \in bound.devices /\ At(p, "none")
  /\ tasks[q][i] # "none"
  /\ tasks' = [tasks EXCEPT ![q][i] = s]
  /\ IF s # tasks[q][i] /\ s \in {"done", "skipped"}
     THEN Resume(p, [Free EXCEPT !.next = "log-check-off",
                                 !.entry = [plan |-> q, item |-> i, by |-> "updateTask",
                                            action |-> IF s = "done" THEN "completed" ELSE "skipped"]])
     ELSE UNCHANGED frame
  /\ UNCHANGED <<plans, accepted, log, bound>>

LogCheckOff(p) ==
  /\ At(p, "log-check-off")
  /\ log' = log \cup {frame[p].entry}
  /\ Resume(p, Free)
  /\ UNCHANGED <<plans, accepted, tasks, bound>>

\* The process, or its connection, dies between two statements.
Die(p) ==
  /\ ~At(p, "none") /\ bound.deaths > 0
  /\ Resume(p, Free)
  /\ bound' = [bound EXCEPT !.deaths = @ - 1]
  /\ UNCHANGED <<plans, accepted, tasks, log>>

\* No two processes are about to write the payload of one plan.  Nothing in the code
\* sees to it; it holds when the student sends an edit or a proposal after the answer
\* to the last, and no job proposes meanwhile.
OneWriter ==
  \A p, r \in {w \in Procs : frame[w].next \in {"replace", "rewrite"}} :
    frame[p].plan = frame[r].plan => p = r

Next ==
  /\ \E p \in Procs :
       \/ Propose(p) \/ RunJob(p)
       \/ \E payload \in SUBSET bound.items : ReadExisting(p, payload)
       \/ ReplaceProposal(p) \/ InsertProposal(p)
       \/ \E q \in PlanId : Approve(p, q)
       \/ MaterialiseTasks(p) \/ RetireOthers(p)
       \/ \E q \in PlanId, i \in bound.items, action \in Action : Amend(p, q, i, action)
       \/ RewritePayload(p) \/ RematerialiseTasks(p) \/ PruneTasks(p)
       \/ \E q \in PlanId, i \in Items, s \in {"todo", "done", "skipped"} : UpdateTask(p, q, i, s)
       \/ LogCheckOff(p)
       \/ Die(p)
  /\ bound.serial => OneWriter'

Spec == Init /\ [][Next]_vars

-----------------------------------------------------------------------------
(* Properties. *)

\* The student sends one request after the other; and no job runs beside.
OneDevice == \A d, e \in bound.devices : d = e
Alone     == OneDevice /\ bound.jobs = {}

Ran(p, statements) == frame[p].next \in statements /\ frame'[p] # frame[p] /\ bound' = bound

\* The set of plans in force changes only in a step of the student's own request:
\* no job adopts, drops or supersedes one (lifecycle.ts:5, :197-201), not even
\* when the student answers while the job is generating.
OnlyTheStudentAdopts ==
  [][InForce' # InForce => \E p \in Devices : frame'[p] # frame[p]]_vars

\* Once the student agreed to a plan an agreed plan is in force (lifecycle.ts:
\* 197-201), also when acceptPlan dies between its three statements.  With a second
\* device it fails: two accepts at the same time retire each other's plan.
AgreementSurvives == OneDevice => (accepted # {} => InForce \cap accepted # {})

\* With one request at a time, and no job, at most one proposal is unanswered and unedited,
\* and it is the current plan, so no other row waits unseen (lifecycle.ts:188-190).
OneOpenProposal ==
  Alone =>
    \A q \in PlanId : plans[q].status = "proposed" => q = Newest(Current)

\* With one request at a time, and no job, the list agrees with the plan once an accept or a
\* resync ends: every item has a task, and after a resync every open task of the
\* plan has its item (lifecycle.ts:369-371).
TasksFollowPlan ==
  [][\A p \in Procs : Alone /\ Ran(p, {"retire", "prune"}) =>
       LET q == frame[p].plan IN
       \A i \in Items :
         /\ i \in plans[q].payload => tasks'[q][i] # "none"
         /\ At(p, "prune") /\ tasks'[q][i] = "todo" => i \in plans[q].payload]_vars

\* While payloads are written one at a time, what amendPlan logged as dropped is not in the
\* payload, unless the student added it by hand: no log entry without its edit
\* (lifecycle.ts:328-332), with other devices, jobs and deaths about.
AmendmentsApplied ==
  bound.serial =>
    \A e \in log :
      e.by = "amendPlan" /\ e.action = "skipped" /\ ByHand(e.plan, e.item) \notin log
        => e.item \notin plans[e.plan].payload

\* A resync removes only todo rows: a task completed or skipped is a record of
\* what happened (lifecycle.ts:382-383).
ResyncSparesHistory ==
  [][\A p \in Procs : Ran(p, {"prune"}) =>
       \A q \in PlanId, i \in Items :
         tasks[q][i] \in {"done", "skipped"} => tasks'[q][i] = tasks[q][i]]_vars
=============================================================================
