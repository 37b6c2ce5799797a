------------------------ MODULE PlanLifecycleProofs ------------------------
(***************************************************************************)
(* Proofs about PlanLifecycle, for any number of plans, items, jobs and    *)
(* edits.  IInv needs nothing of the processes, SerialInv that payloads    *)
(* are written one at a time.  AgreedInv needs that the student sends from *)
(* one device; AloneInv also that no job runs beside.                      *)
(***************************************************************************)
EXTENDS PlanLifecycle, SetLemmas

-----------------------------------------------------------------------------
(* The inductive invariants. *)

Scenario == [horizon : {"week", "semester"}, devices : SUBSET Devices, jobs : SUBSET JobWorkers,
             serial : BOOLEAN, items : SUBSET Items, rows : Nat, edits : Nat, deaths : Nat]

\* Statements only a request of the student gets to.
StudentStatement == {"materialise", "retire", "rewrite", "rematerialise", "prune", "log-check-off"}

\* Those that work on the plan in the frame.
PlanStatement == {"replace", "materialise", "retire", "rewrite", "rematerialise", "prune"}

\* A frame holds the plan and the log entry its statement will use.
FrameInv ==
  \A p \in Procs :
    /\ frame[p].next \in StudentStatement => p \in bound.devices
    /\ frame[p].next \in PlanStatement => frame[p].plan \in Existing
    /\ frame[p].next \in {"rewrite", "log-check-off"} => frame[p].entry \in Entry

\* The rows are numbered as they were inserted.
RowsInv == \E k \in 0 .. MaxPlans : Existing = 1 .. k

IInv == TypeOK /\ bound \in Scenario /\ FrameInv /\ RowsInv

\* Until the others are retired, the plan that was accepted is in force.
AgreedInv ==
  /\ accepted # {} => InForce \cap accepted # {}
  /\ \A p \in Procs : frame[p].next \in {"materialise", "retire"} =>
       frame[p].plan \in InForce \cap accepted

\* No process but the device has a statement to run; what it read is still so.
AloneFrame ==
  \A p \in Procs :
    /\ ~At(p, "none") => p \in bound.devices
    /\ At(p, "insert") => \A q \in PlanId : plans[q].status # "proposed"
    /\ At(p, "replace") => plans[frame[p].plan].status = "proposed"
    /\ frame[p].next \in {"materialise", "rematerialise", "retire", "prune"} =>
         frame[p].payload = plans[frame[p].plan].payload
    /\ frame[p].next \in {"retire", "prune"} =>
         \A i \in frame[p].payload : tasks[frame[p].plan][i] # "none"

\* An unanswered proposal is the last row.
AloneRows == \A q \in PlanId : plans[q].status = "proposed" => Existing = 1 .. q

AloneInv == Alone => AloneFrame /\ AloneRows

\* AmendmentsApplied, without its condition.
Applied ==
  \A e \in log :
    e.by = "amendPlan" /\ e.action = "skipped" /\ ByHand(e.plan, e.item) \notin log
      => e.item \notin plans[e.plan].payload

\* Nobody regenerates over a plan that was edited; an edit under way was made from the
\* payload that is still there.
SerialInv ==
  /\ OneWriter /\ Applied
  /\ \A e \in log : e.by = "amendPlan" => plans[e.plan].status \notin {"absent", "proposed"}
  /\ \A p \in Procs :
       LET e == frame[p].entry IN
       /\ At(p, "replace") => \A a \in log : ~(a.by = "amendPlan" /\ a.plan = frame[p].plan)
       /\ At(p, "rewrite") => /\ e.plan = frame[p].plan /\ e.by = "amendPlan"
                              /\ frame[p].payload \in Amended(e.plan, e.item, e.action)
       /\ At(p, "log-check-off") => e.by = "updateTask"

-----------------------------------------------------------------------------
(* Frames, and the step of one process. *)

\* A step of one process.
Step(p) ==
  \/ Propose(p) \/ RunJob(p)
  \/ \E payload \in SUBSET bound.items : ReadExisting(p, payload)
  \/ ReplaceProposal(p) \/ InsertProposal(p)
  \/ \E q \in PlanId : Approve(p, q)
  \/ MaterialiseTasks(p) \/ RetireOthers(p)
  \/ \E q \in PlanId, i \in bound.items, action \in Action : Amend(p, q, i, action)
  \/ RewritePayload(p) \/ RematerialiseTasks(p) \/ PruneTasks(p)
  \/ \E q \in PlanId, i \in Items, s \in {"todo", "done", "skipped"} : UpdateTask(p, q, i, s)
  \/ LogCheckOff(p)
  \/ Die(p)

LEMMA NextIsStep == Next => /\ \E p \in Procs : Step(p)
                            /\ bound.serial => OneWriter'
BY DEF Next, Step

\* Who there is does not change.
LEMMA BoundKept ==
  ASSUME bound \in Scenario, NEW p \in Procs, Step(p)
  PROVE  /\ bound'.devices = bound.devices /\ bound'.jobs = bound.jobs
         /\ bound'.serial = bound.serial
<1>1. CASE Die(p)
  BY <1>1 DEF Die, Scenario
<1>2. CASE ~Die(p)
  BY <1>2, Zenon DEF Step, Propose, RunJob, ReadExisting, ReplaceProposal, InsertProposal, Approve,
     MaterialiseTasks, RetireOthers, Amend, RewritePayload, RematerialiseTasks, PruneTasks,
     UpdateTask, LogCheckOff
<1>3. QED
  BY <1>1, <1>2

LEMMA FreeType ==
  /\ Free \in Frame
  /\ Free.next = "none" /\ Free.plan = 0 /\ Free.payload = {} /\ Free.entry = <<>>
BY DEF Free, Frame, Statement

\* What a process is left with when it carries a plan and a payload on, or only
\* goes on to its next statement.
Carry(s, q, payload) == [Free EXCEPT !.next = s, !.plan = q, !.payload = payload]

LEMMA CarryType ==
  ASSUME NEW s \in Statement, NEW q \in PlanId, NEW payload \in SUBSET Items
  PROVE  /\ Carry(s, q, payload) \in Frame
         /\ Carry(s, q, payload).next = s /\ Carry(s, q, payload).plan = q
         /\ Carry(s, q, payload).payload = payload
BY FreeType DEF Frame, Carry

LEMMA InsertFrameType ==
  ASSUME NEW payload \in SUBSET Items
  PROVE  LET f == [Free EXCEPT !.next = "insert", !.payload = payload] IN
         f \in Frame /\ f.next = "insert" /\ f.payload = payload
BY FreeType DEF Frame, Statement

LEMMA GoesOnType ==
  ASSUME NEW f \in Frame, NEW s \in Statement
  PROVE  LET g == [f EXCEPT !.next = s] IN
         g \in Frame /\ g.next = s /\ g.plan = f.plan /\ g.payload = f.payload /\ g.entry = f.entry
BY DEF Frame

LEMMA NewestIs ==
  ASSUME NEW S, S \subseteq PlanId, S # {}
  PROVE  Newest(S) \in S /\ \A r \in S : r <= Newest(S)
<1>1. S \subseteq 0 .. MaxPlans /\ MaxPlans \in Nat
  BY PlanAssumption DEF PlanId
<1>2. \E q \in S : \A r \in S : r <= q
  BY <1>1, GreatestExists
<1>3. QED
  BY <1>2 DEF Newest

LEMMA MaterialisedIs ==
  ASSUME TypeOK, NEW q \in PlanId, NEW payload
  PROVE  /\ Materialised(q, payload) \in [PlanId -> [Items -> {"none", "todo", "done", "skipped"}]]
         /\ \A i \in Items : i \in payload => Materialised(q, payload)[q][i] # "none"
BY DEF TypeOK, Materialised

-----------------------------------------------------------------------------
(* IInv. *)

LEMMA InitIInv == Init => IInv
<1> SUFFICES ASSUME Init PROVE IInv
  OBVIOUS
<1>1. bound \in Scenario
  BY PlanAssumption DEF Init, Scenario
<1>2. plans \in [PlanId -> Plan] /\ Existing = {}
  BY DEF Init, Plan, Existing
<1>3. frame \in [Procs -> Frame] /\ \A p \in Procs : frame[p].next = "none"
  BY FreeType DEF Init
<1>4. TypeOK
  BY <1>1, <1>2, <1>3 DEF Init, TypeOK, Scenario
<1>5. FrameInv
  BY <1>3 DEF FrameInv, StudentStatement, PlanStatement
<1>6. 0 \in 0 .. MaxPlans /\ 1 .. 0 = {}
  BY PlanAssumption
<1>7. QED
  BY <1>1, <1>2, <1>4, <1>5, <1>6 DEF IInv, RowsInv

\* The row an insert fills is absent, and it is the next one.
LEMMA FreshRow ==
  ASSUME IInv, NEW q \in PlanId, q = Cardinality(Existing) + 1
  PROVE  Existing = 1 .. q - 1 /\ plans[q].status = "absent" /\ q \in 1 .. MaxPlans
<1>1. PICK k \in 0 .. MaxPlans : Existing = 1 .. k
  BY DEF IInv, RowsInv
<1>2. Cardinality(Existing) = k
  BY <1>1, FS_Interval
<1>3. k = q - 1 /\ q \notin 1 .. k
  BY <1>1, <1>2
<1>4. QED
  BY <1>1, <1>3 DEF Existing, PlanId

\* A step that moves one frame only and keeps the rows that exist.
LEMMA IInvKept ==
  ASSUME IInv, NEW p \in Procs, NEW f \in Frame, Resume(p, f),
         plans' \in [PlanId -> Plan], Existing' = Existing,
         accepted' \subseteq PlanId,
         tasks' \in [PlanId -> [Items -> {"none", "todo", "done", "skipped"}]],
         log' \subseteq Entry, bound' \in Scenario, bound'.devices = bound.devices,
         f.next \in StudentStatement => p \in bound.devices,
         f.next \in PlanStatement => f.plan \in Existing,
         f.next \in {"rewrite", "log-check-off"} => f.entry \in Entry
  PROVE  IInv'
<1>1. frame' \in [Procs -> Frame] /\ \A r \in Procs : frame'[r] = IF r = p THEN f ELSE frame[r]
  BY DEF IInv, TypeOK, Resume
<1>2. TypeOK'
  BY <1>1 DEF TypeOK, Scenario
<1>3. FrameInv'
  BY <1>1 DEF FrameInv, IInv
<1>4. RowsInv'
  BY DEF RowsInv, IInv
<1>5. QED
  BY <1>2, <1>3, <1>4 DEF IInv

\* What a check-off carries to its log entry.
CheckedOff(e) == [Free EXCEPT !.next = "log-check-off", !.entry = e]

LEMMA CheckedOffType ==
  ASSUME NEW e \in Entry
  PROVE  /\ CheckedOff(e) \in Frame
         /\ CheckedOff(e).next = "log-check-off" /\ CheckedOff(e).entry = e
<1>1. "log-check-off" \in Statement
  BY DEF Statement
<1>2. QED
  BY <1>1, FreeType DEF CheckedOff, Frame

LEMMA CheckOffEntry ==
  ASSUME NEW p, NEW q \in PlanId, NEW i \in Items, NEW s, UpdateTask(p, q, i, s)
  PROVE  frame' = frame \/ \E e \in Entry : e.by = "updateTask" /\ Resume(p, CheckedOff(e))
<1> DEFINE e == [plan |-> q, item |-> i, by |-> "updateTask",
                 action |-> IF s = "done" THEN "completed" ELSE "skipped"]
<1>1. e \in Entry /\ e.by = "updateTask"
  BY DEF Entry, Action
<1>2. frame' = frame \/ Resume(p, CheckedOff(e))
  BY DEF UpdateTask, CheckedOff
<1> HIDE DEF e
<1>3. QED
  BY <1>1, <1>2

LEMMA StepIInv == IInv /\ [Next]_vars => IInv'
<1> SUFFICES ASSUME IInv, [Next]_vars PROVE IInv'
  OBVIOUS
<1>0. /\ plans \in [PlanId -> Plan] /\ accepted \subseteq PlanId /\ log \subseteq Entry
      /\ tasks \in [PlanId -> [Items -> {"none", "todo", "done", "skipped"}]]
      /\ frame \in [Procs -> Frame] /\ bound \in Scenario /\ TypeOK /\ FrameInv
  BY DEF IInv, TypeOK
<1>1. ASSUME UNCHANGED vars PROVE IInv'
  BY <1>1 DEF vars, IInv, TypeOK, FrameInv, RowsInv, Existing, Scenario
<1>2. ASSUME NEW p \in Procs, Step(p) PROVE IInv'
  <2>0. frame[p] \in Frame /\ bound'.devices = bound.devices
    BY <1>0, <1>2, BoundKept
  <2>1. CASE Propose(p) \/ RunJob(p)
    <3>1. "read-existing" \in Statement
      BY DEF Statement
    <3> DEFINE f == [frame[p] EXCEPT !.next = "read-existing"]
    <3>2. f \in Frame /\ f.next = "read-existing"
      BY <2>0, <3>1, GoesOnType
    <3>3. Resume(p, f) /\ UNCHANGED <<plans, accepted, tasks, log, bound>>
      BY <2>1 DEF Propose, RunJob, Becomes
    <3> HIDE DEF f
    <3>4. Existing' = Existing
      BY <3>3 DEF Existing
    <3>5. QED
      BY <1>0, <2>0, <3>2, <3>3, <3>4, IInvKept DEF StudentStatement, PlanStatement
  <2>2. ASSUME NEW payload \in SUBSET bound.items, ReadExisting(p, payload) PROVE IInv'
    <3>1. payload \in SUBSET Items
      BY <1>0 DEF Scenario
    <3>2. UNCHANGED <<plans, accepted, tasks, log, bound>> /\ Existing' = Existing
      BY <2>2 DEF ReadExisting, Existing
    <3>3. CASE Current # {} /\ plans[Newest(Current)].status = "proposed"
      <4> DEFINE f == Carry("replace", Newest(Current), payload)
      <4>1. Newest(Current) \in PlanId /\ Newest(Current) \in Existing
        BY <3>3, NewestIs DEF Current, Existing
      <4>2. f \in Frame /\ f.next = "replace" /\ f.plan = Newest(Current)
        <5>1. "replace" \in Statement
          BY DEF Statement
        <5>2. QED
          BY <3>1, <4>1, <5>1, CarryType
      <4>3. Resume(p, f)
        BY <2>2, <3>3 DEF ReadExisting, Carry
      <4> HIDE DEF f
      <4>4. QED
        BY <1>0, <2>0, <3>2, <4>1, <4>2, <4>3, IInvKept DEF StudentStatement, PlanStatement
    <3>4. CASE ~(Current # {} /\ plans[Newest(Current)].status = "proposed")
      <4> DEFINE f == [Free EXCEPT !.next = "insert", !.payload = payload]
      <4>1. f \in Frame /\ f.next = "insert"
        BY <3>1, InsertFrameType, Zenon
      <4>2. Resume(p, f)
        BY <2>2, <3>4 DEF ReadExisting
      <4> HIDE DEF f
      <4>3. QED
        BY <1>0, <2>0, <3>2, <4>1, <4>2, IInvKept DEF StudentStatement, PlanStatement
    <3>5. QED
      BY <3>3, <3>4
  <2>3. ASSUME Resume(p, Free), plans' \in [PlanId -> Plan], Existing' = Existing,
               accepted' \subseteq PlanId, log' \subseteq Entry, bound' \in Scenario,
               tasks' \in [PlanId -> [Items -> {"none", "todo", "done", "skipped"}]]
        PROVE  IInv'
    BY <2>0, <2>3, FreeType, IInvKept DEF StudentStatement, PlanStatement
  <2>4. CASE ReplaceProposal(p)
    <3>1. frame[p].payload \in SUBSET Items
      BY <2>0 DEF Frame
    <3>2. plans' \in [PlanId -> Plan] /\ \A q \in PlanId : plans'[q].status = plans[q].status
      BY <1>0, <2>4, <3>1 DEF ReplaceProposal, Plan
    <3>3. Existing' = Existing
      BY <3>2 DEF Existing
    <3>4. QED
      BY <1>0, <2>3, <2>4, <3>2, <3>3 DEF ReplaceProposal
  <2>5. CASE InsertProposal(p)
    <3>1. PICK q \in PlanId :
            /\ q = Cardinality(Existing) + 1
            /\ plans' = [plans EXCEPT ![q] = [status |-> "proposed", payload |-> frame[p].payload]]
      BY <2>5 DEF InsertProposal
    <3>2. Existing = 1 .. q - 1 /\ plans[q].status = "absent" /\ q \in 1 .. MaxPlans
      BY <3>1, FreshRow
    <3>3. [status |-> "proposed", payload |-> frame[p].payload] \in Plan
      BY <2>0 DEF Frame, Plan
    <3>4. plans' \in [PlanId -> Plan]
      BY <1>0, <3>1, <3>3
    <3>5. Existing' = Existing \cup {q}
      BY <1>0, <3>1 DEF Existing
    <3>6. Existing' = 1 .. q
      BY <3>2, <3>5
    <3>7. UNCHANGED <<accepted, tasks, log, bound>> /\ frame' = [frame EXCEPT ![p] = Free]
      BY <2>5 DEF InsertProposal, Resume
    <3>8. frame' \in [Procs -> Frame] /\ \A r \in Procs : frame'[r] = IF r = p THEN Free ELSE frame[r]
      BY <1>0, <3>7, FreeType
    <3>9. FrameInv'
      BY <1>0, <2>0, <3>5, <3>8, FreeType DEF FrameInv, StudentStatement, PlanStatement
    <3>10. TypeOK'
      BY <1>0, <3>4, <3>7, <3>8 DEF TypeOK
    <3>11. RowsInv'
      BY <3>2, <3>6 DEF RowsInv
    <3>12. QED
      BY <1>0, <3>7, <3>9, <3>10, <3>11 DEF IInv, Scenario
  <2>6. ASSUME NEW q \in PlanId, Approve(p, q) PROVE IInv'
    <3> DEFINE f == Carry("materialise", q, plans[q].payload)
    <3>1. plans[q].payload \in SUBSET Items
      BY <1>0 DEF Plan
    <3>2. f \in Frame /\ f.next = "materialise" /\ f.plan = q
      <4>1. "materialise" \in Statement
        BY DEF Statement
      <4>2. QED
        BY <3>1, <4>1, CarryType
    <3>3. Resume(p, f) /\ p \in bound.devices /\ q \in Existing /\ accepted' = accepted \cup {q}
          /\ plans' = [plans EXCEPT ![q].status = "approved"] /\ UNCHANGED <<tasks, log, bound>>
      BY <2>6 DEF Approve, Carry
    <3> HIDE DEF f
    <3>4. plans' \in [PlanId -> Plan]
      BY <1>0, <3>3 DEF Plan
    <3>5. Existing' = Existing
      BY <1>0, <3>3 DEF Existing
    <3>6. QED
      BY <1>0, <2>0, <3>2, <3>3, <3>4, <3>5, IInvKept
  <2>7. ASSUME frame[p].next \in {"materialise", "rematerialise"}, NEW s \in {"retire", "prune"},
               Becomes(p, s), UNCHANGED <<plans, accepted, log, bound>>,
               tasks' = Materialised(frame[p].plan, frame[p].payload)
        PROVE  IInv'
    <3> DEFINE f == [frame[p] EXCEPT !.next = s]
    <3>1. p \in bound.devices /\ frame[p].plan \in Existing
      BY <1>0, <2>7 DEF FrameInv, StudentStatement, PlanStatement
    <3>2. s \in Statement
      BY <2>7 DEF Statement, StudentStatement
    <3>3. f \in Frame /\ f.next = s /\ f.plan = frame[p].plan
      BY <2>0, <3>2, GoesOnType
    <3>4. Resume(p, f) /\ Existing' = Existing
      BY <2>7 DEF Becomes, Existing
    <3>5. tasks' \in [PlanId -> [Items -> {"none", "todo", "done", "skipped"}]]
      BY <1>0, <2>7, <3>1, MaterialisedIs DEF Existing
    <3> HIDE DEF f
    <3>6. QED
      BY <1>0, <2>0, <2>7, <3>1, <3>3, <3>4, <3>5, IInvKept
  <2>8. CASE MaterialiseTasks(p) \/ RematerialiseTasks(p)
    BY <2>7, <2>8 DEF MaterialiseTasks, RematerialiseTasks, At
  <2>9. CASE RetireOthers(p)
    <3>1. plans' \in [PlanId -> Plan]
      BY <1>0, <2>9 DEF RetireOthers, Plan
    <3>2. Existing' = Existing
      BY <1>0, <2>9 DEF RetireOthers, Existing, Plan, Current
    <3>3. QED
      BY <1>0, <2>3, <2>9, <3>1, <3>2 DEF RetireOthers
  <2>10. ASSUME NEW q \in PlanId, NEW i \in bound.items, NEW action \in Action, Amend(p, q, i, action)
         PROVE  IInv'
    <3> DEFINE e == [plan |-> q, item |-> i, action |-> action, by |-> "amendPlan"]
    <3>1. i \in Items
      BY <1>0 DEF Scenario
    <3>2. Amended(q, i, action) \subseteq SUBSET Items
      BY <1>0, <3>1 DEF Amended, Plan, Action
    <3>3. e \in Entry
      BY <3>1 DEF Entry
    <3> HIDE DEF e
    <3>4. PICK payload \in Amended(q, i, action) :
            Resume(p, [next |-> "rewrite", plan |-> q, payload |-> payload, entry |-> e])
      BY <2>10 DEF Amend, e
    <3> DEFINE f == [next |-> "rewrite", plan |-> q, payload |-> payload, entry |-> e]
    <3>5. f \in Frame /\ f.next = "rewrite" /\ f.plan = q /\ f.entry = e
      BY <3>2, <3>3 DEF Frame, Statement
    <3>6. Resume(p, f) /\ p \in bound.devices /\ q \in Existing /\ UNCHANGED <<plans, accepted, tasks, log, bound>>
      BY <2>10, <3>4 DEF Amend
    <3> HIDE DEF f
    <3>7. Existing' = Existing
      BY <3>6 DEF Existing
    <3>8. QED
      BY <1>0, <2>0, <3>3, <3>5, <3>6, <3>7, IInvKept
  <2>11. CASE RewritePayload(p)
    <3> DEFINE q == frame[p].plan
    <3>1. q \in Existing /\ q \in PlanId /\ p \in bound.devices /\ frame[p].entry \in Entry
      BY <1>0, <2>11 DEF RewritePayload, At, FrameInv, StudentStatement, PlanStatement, Existing
    <3>2. frame[p].payload \in SUBSET Items
      BY <2>0 DEF Frame
    <3>3. plans' = [plans EXCEPT ![q] = [status |-> "amended", payload |-> frame[p].payload]]
          /\ log' = log \cup {frame[p].entry} /\ UNCHANGED <<accepted, tasks, bound>>
      BY <2>11 DEF RewritePayload
    <3> HIDE DEF q
    <3>5. plans' \in [PlanId -> Plan] /\ log' \subseteq Entry
      BY <1>0, <3>1, <3>2, <3>3 DEF Plan
    <3>6. Existing' = Existing
      BY <1>0, <3>1, <3>3 DEF Existing
    <3>7. CASE Resume(p, Free)
      BY <1>0, <2>3, <3>3, <3>5, <3>6, <3>7
    <3>8. CASE Resume(p, Carry("rematerialise", q, frame[p].payload))
      <4> DEFINE f == Carry("rematerialise", q, frame[p].payload)
      <4>1. f \in Frame /\ f.next = "rematerialise" /\ f.plan = q
        <5>1. "rematerialise" \in Statement
          BY DEF Statement
        <5>2. QED
          BY <3>1, <3>2, <5>1, CarryType
      <4> HIDE DEF f
      <4>2. QED
        BY <1>0, <2>0, <3>1, <3>3, <3>5, <3>6, <3>8, <4>1, IInvKept DEF f
    <3>9. QED
      BY <2>11, <3>7, <3>8 DEF RewritePayload, Carry, q
  <2>12. CASE PruneTasks(p)
    <3>1. tasks' \in [PlanId -> [Items -> {"none", "todo", "done", "skipped"}]]
      BY <1>0, <2>12 DEF PruneTasks
    <3>2. Existing' = Existing
      BY <2>12 DEF PruneTasks, Existing
    <3>3. QED
      BY <1>0, <2>3, <2>12, <3>1, <3>2 DEF PruneTasks
  <2>13. ASSUME NEW q \in PlanId, NEW i \in Items, NEW s \in {"todo", "done", "skipped"},
                UpdateTask(p, q, i, s)
         PROVE  IInv'
    <3>1. tasks' \in [PlanId -> [Items -> {"none", "todo", "done", "skipped"}]]
      BY <1>0, <2>13 DEF UpdateTask
    <3>2. UNCHANGED <<plans, accepted, log, bound>> /\ Existing' = Existing /\ p \in bound.devices
      BY <2>13 DEF UpdateTask, Existing
    <3>3. CASE UNCHANGED frame
      BY <1>0, <3>1, <3>2, <3>3 DEF IInv, TypeOK, FrameInv, RowsInv, Scenario
    <3>4. ASSUME frame' # frame PROVE IInv'
      <4>1. PICK e \in Entry : Resume(p, CheckedOff(e))
        BY <1>0, <2>13, <3>4, CheckOffEntry
      <4>2. CheckedOff(e) \in Frame /\ CheckedOff(e).next = "log-check-off" /\ CheckedOff(e).entry = e
        BY CheckedOffType
      <4>3. QED
        BY <1>0, <2>0, <3>1, <3>2, <4>1, <4>2, IInvKept DEF PlanStatement
    <3>5. QED
      BY <3>3, <3>4
  <2>14. CASE LogCheckOff(p)
    <3>1. frame[p].entry \in Entry
      BY <1>0, <2>14 DEF LogCheckOff, At, FrameInv
    <3>2. log' \subseteq Entry
      BY <1>0, <2>14, <3>1 DEF LogCheckOff
    <3>3. Existing' = Existing
      BY <2>14 DEF LogCheckOff, Existing
    <3>4. QED
      BY <1>0, <2>3, <2>14, <3>2, <3>3 DEF LogCheckOff
  <2>15. CASE Die(p)
    <3>1. bound' \in Scenario
      BY <1>0, <2>15 DEF Die, Scenario
    <3>2. Existing' = Existing
      BY <2>15 DEF Die, Existing
    <3>3. QED
      BY <1>0, <2>3, <2>15, <3>1, <3>2 DEF Die
  <2>16. QED
    BY <1>2, <2>1, <2>2, <2>4, <2>5, <2>6, <2>8, <2>9, <2>10, <2>11, <2>12, <2>13, <2>14, <2>15
    DEF Step
<1>3. QED
  BY <1>1, <1>2, NextIsStep

-----------------------------------------------------------------------------
(* What each step does to the plans in force. *)

\* Only six actions write a plan.
LEMMA PlansKept ==
  ASSUME NEW p \in Procs, Step(p), ~ReplaceProposal(p), ~InsertProposal(p),
         \A q \in PlanId : ~Approve(p, q), ~RetireOthers(p), ~RewritePayload(p)
  PROVE  plans' = plans /\ accepted' = accepted
BY Zenon DEF Step, Propose, RunJob, ReadExisting, MaterialiseTasks, Amend, RematerialiseTasks, PruneTasks,
       UpdateTask, LogCheckOff, Die

\* Replacing a proposal leaves every status; inserting one leaves those of the rows
\* there are.
LEMMA StatusKept ==
  ASSUME IInv, NEW p \in Procs, ReplaceProposal(p) \/ InsertProposal(p)
  PROVE  /\ accepted' = accepted
         /\ \A q \in PlanId :
              \/ plans'[q].status = plans[q].status
              \/ plans[q].status = "absent" /\ plans'[q].status = "proposed"
<1>0. plans \in [PlanId -> Plan]
  BY DEF IInv, TypeOK
<1>1. CASE ReplaceProposal(p)
  BY <1>0, <1>1 DEF ReplaceProposal, Plan
<1>2. CASE InsertProposal(p)
  <2>1. PICK q \in PlanId :
            /\ q = Cardinality(Existing) + 1
            /\ plans' = [plans EXCEPT ![q] = [status |-> "proposed", payload |-> frame[p].payload]]
    BY <1>2 DEF InsertProposal
  <2>2. plans[q].status = "absent"
    BY <2>1, FreshRow
  <2>3. QED
    BY <1>0, <1>2, <2>1, <2>2 DEF InsertProposal
<1>3. QED
  BY <1>1, <1>2

LEMMA StepAdopts ==
  ASSUME IInv, NEW p \in Procs, Step(p), InForce' # InForce
  PROVE  p \in Devices /\ frame'[p] # frame[p]
<1>0. /\ plans \in [PlanId -> Plan] /\ frame \in [Procs -> Frame]
      /\ \A q \in PlanId : plans[q].payload \in SUBSET Items
      /\ frame[p].payload \in SUBSET Items
      /\ bound.devices \subseteq Devices /\ FrameInv
  BY DEF IInv, TypeOK, Plan, Frame, Scenario
<1>1. CASE ReplaceProposal(p) \/ InsertProposal(p)
  BY <1>1, StatusKept DEF InForce, Existing
<1>2. ASSUME NEW q \in PlanId, Approve(p, q) PROVE p \in Devices /\ frame'[p] # frame[p]
  <2>1. p \in Devices /\ frame[p].next = "none"
        /\ frame' = [frame EXCEPT ![p] = Carry("materialise", q, plans[q].payload)]
    BY <1>0, <1>2 DEF Approve, At, Resume, Carry
  <2>2. Carry("materialise", q, plans[q].payload).next = "materialise"
    <3>1. "materialise" \in Statement
      BY DEF Statement
    <3>2. QED
      BY <1>0, <3>1, CarryType
  <2>3. QED
    BY <1>0, <2>1, <2>2
<1>3. CASE RetireOthers(p)
  <2>1. frame[p].next = "retire" /\ frame' = [frame EXCEPT ![p] = Free]
    BY <1>3 DEF RetireOthers, At, Resume
  <2>2. QED
    BY <1>0, <2>1, FreeType DEF FrameInv, StudentStatement
<1>4. CASE RewritePayload(p)
  <2>1. frame[p].next = "rewrite"
    BY <1>4 DEF RewritePayload, At
  <2>2. p \in Devices /\ frame[p].plan \in PlanId
    BY <1>0, <2>1 DEF FrameInv, StudentStatement, PlanStatement, Existing
  <2>3. CASE Resume(p, Free)
    BY <1>0, <2>1, <2>2, <2>3, FreeType DEF Resume
  <2>4. CASE Resume(p, Carry("rematerialise", frame[p].plan, frame[p].payload))
    <3>1. "rematerialise" \in Statement
      BY DEF Statement
    <3>2. Carry("rematerialise", frame[p].plan, frame[p].payload).next = "rematerialise"
      BY <1>0, <2>2, <3>1, CarryType
    <3>3. QED
      BY <1>0, <2>1, <2>2, <2>4, <3>2 DEF Resume
  <2>5. QED
    BY <1>4, <2>3, <2>4 DEF RewritePayload, Carry
<1>5. QED
  BY <1>1, <1>2, <1>3, <1>4, PlansKept DEF InForce, Existing

-----------------------------------------------------------------------------
(* AgreedInv. *)

LEMMA InitAgreed == Init => AgreedInv
<1>1. Init => \A p \in Procs : frame[p].next = "none"
  BY FreeType DEF Init
<1>2. QED
  BY <1>1 DEF Init, AgreedInv, AgreementSurvives

\* A step that accepts nothing, drops no plan from force and leads to none of the
\* statements after an acceptance but from one to the other.
LEMMA AgreedKept ==
  ASSUME AgreedInv, NEW p \in Procs, accepted' = accepted, InForce \subseteq InForce',
         \A r \in Procs : r # p => frame'[r] = frame[r],
         \/ frame'[p].next \notin {"materialise", "retire"}
         \/ frame[p].next \in {"materialise", "retire"} /\ frame'[p].plan = frame[p].plan
  PROVE  AgreedInv'
<1>1. AgreementSurvives'
  BY DEF AgreedInv, AgreementSurvives
<1>2. ASSUME NEW r \in Procs, frame'[r].next \in {"materialise", "retire"}
      PROVE  frame'[r].plan \in InForce' \cap accepted'
  <2>1. frame[r].next \in {"materialise", "retire"} /\ frame'[r].plan = frame[r].plan
    BY <1>2, Zenon
  <2>2. QED
    BY <2>1 DEF AgreedInv
<1>3. QED
  BY <1>1, <1>2 DEF AgreedInv

LEMMA OnlyItsFrame ==
  ASSUME frame \in [Procs -> Frame], NEW p \in Procs, Step(p), NEW r \in Procs, r # p
  PROVE  frame'[r] = frame[r]
BY Zenon DEF Step, Propose, RunJob, ReadExisting, ReplaceProposal, InsertProposal, Approve,
       MaterialiseTasks, RetireOthers, Amend, RewritePayload, RematerialiseTasks, PruneTasks,
       UpdateTask, LogCheckOff, Die, Resume, Becomes

\* Where reading leads.
LEMMA ReadLeads ==
  ASSUME IInv, NEW p \in Procs, NEW payload \in SUBSET bound.items, ReadExisting(p, payload)
  PROVE  \/ /\ frame'[p].next = "replace" /\ frame'[p].plan = Newest(Current)
            /\ Newest(Current) \in Current /\ plans[Newest(Current)].status = "proposed"
         \/ /\ frame'[p].next = "insert"
            /\ ~(Current # {} /\ plans[Newest(Current)].status = "proposed")
<1>0. frame \in [Procs -> Frame] /\ payload \in SUBSET Items
  BY DEF IInv, TypeOK, Scenario
<1>1. CASE Current # {} /\ plans[Newest(Current)].status = "proposed"
  <2>1. Newest(Current) \in Current /\ Newest(Current) \in PlanId /\ "replace" \in Statement
    BY <1>1, NewestIs DEF Current, Existing, Statement
  <2>2. Carry("replace", Newest(Current), payload).next = "replace"
        /\ Carry("replace", Newest(Current), payload).plan = Newest(Current)
    BY <1>0, <2>1, CarryType
  <2>3. Resume(p, Carry("replace", Newest(Current), payload))
    BY <1>1 DEF ReadExisting, Carry
  <2>4. QED
    BY <1>0, <1>1, <2>1, <2>2, <2>3 DEF Resume
<1>2. CASE ~(Current # {} /\ plans[Newest(Current)].status = "proposed")
  <2>1. Resume(p, [Free EXCEPT !.next = "insert", !.payload = payload])
    BY <1>2 DEF ReadExisting
  <2>2. frame'[p].next = "insert"
    BY <1>0, <2>1, InsertFrameType, Zenon DEF Resume
  <2>3. QED
    BY <1>2, <2>2
<1>3. QED
  BY <1>1, <1>2

\* A check-off leads to its log entry, or nowhere.
LEMMA CheckOffLeads ==
  ASSUME IInv, NEW p \in Procs, NEW q \in PlanId, NEW i \in Items, NEW s, UpdateTask(p, q, i, s)
  PROVE  \/ frame' = frame
         \/ /\ frame'[p].next = "log-check-off"
            /\ frame'[p].entry \in Entry /\ frame'[p].entry.by = "updateTask"
<1>1. CASE frame' # frame
  <2>1. PICK e \in Entry : e.by = "updateTask" /\ Resume(p, CheckedOff(e))
    BY <1>1, CheckOffEntry
  <2>2. frame'[p] = CheckedOff(e)
    BY <2>1 DEF Resume, IInv, TypeOK
  <2>3. QED
    BY <2>1, <2>2, CheckedOffType
<1>2. QED
  BY <1>1

LEMMA StepAgreed ==
  ASSUME OneDevice, IInv, AgreedInv, NEW p \in Procs, Step(p)
  PROVE  AgreedInv'
<1>0. /\ plans \in [PlanId -> Plan] /\ frame \in [Procs -> Frame] /\ FrameInv
      /\ \A q \in PlanId : plans[q].payload \in SUBSET Items
      /\ frame[p].payload \in SUBSET Items /\ accepted \subseteq PlanId
  BY DEF IInv, TypeOK, Plan, Frame
<1>1. ASSUME p \in bound.devices, NEW r \in Procs, r # p
      PROVE  frame[r].next \notin {"materialise", "retire"}
  BY <1>0, <1>1 DEF OneDevice, FrameInv, StudentStatement
<1>2. \A r \in Procs : r # p => frame'[r] = frame[r]
  BY <1>0, OnlyItsFrame
<1>3. CASE ReplaceProposal(p) \/ InsertProposal(p)
  <2>1. accepted' = accepted /\ InForce \subseteq InForce'
    BY <1>3, StatusKept DEF InForce, Existing
  <2>2. frame'[p].next = "none"
    BY <1>0, <1>3, FreeType DEF ReplaceProposal, InsertProposal, Resume
  <2>3. QED
    BY <1>2, <2>1, <2>2, AgreedKept
<1>4. ASSUME NEW q \in PlanId, Approve(p, q) PROVE AgreedInv'
  <2> DEFINE f == Carry("materialise", q, plans[q].payload)
  <2>1. /\ p \in bound.devices /\ q \in Existing /\ Resume(p, f) /\ accepted' = accepted \cup {q}
        /\ plans' = [plans EXCEPT ![q].status = "approved"]
    BY <1>4 DEF Approve, Carry
  <2>2. f.plan = q
    <3>1. "materialise" \in Statement
      BY DEF Statement
    <3>2. QED
      BY <1>0, <3>1, CarryType
  <2> HIDE DEF f
  <2>3. plans'[q].status = "approved" /\ \A r \in PlanId : r # q => plans'[r] = plans[r]
    BY <1>0, <2>1
  <2>4. q \in InForce' \cap accepted'
    BY <2>1, <2>3 DEF InForce, Existing
  <2>5. frame'[p].plan = q /\ \A r \in Procs : r # p => frame'[r].next \notin {"materialise", "retire"}
    BY <1>0, <1>1, <1>2, <2>1, <2>2 DEF Resume
  <2>6. QED
    BY <2>4, <2>5 DEF AgreedInv
<1>5. CASE RetireOthers(p)
  <2>1. frame[p].next = "retire" /\ p \in bound.devices
    BY <1>0, <1>5 DEF RetireOthers, At, FrameInv, StudentStatement
  <2>2. frame[p].plan \in InForce \cap accepted
    BY <2>1 DEF AgreedInv
  <2>3. frame[p].plan \in InForce' /\ accepted' = accepted
    BY <1>5, <2>2 DEF RetireOthers, InForce, Existing
  <2>4. frame'[p].next = "none" /\ \A r \in Procs : r # p => frame'[r].next \notin {"materialise", "retire"}
    BY <1>0, <1>1, <1>2, <1>5, <2>1, FreeType DEF RetireOthers, Resume
  <2>5. QED
    BY <2>2, <2>3, <2>4 DEF AgreedInv
<1>6. CASE RewritePayload(p)
  <2>1. frame[p].next = "rewrite"
    BY <1>6 DEF RewritePayload, At
  <2>2. p \in bound.devices /\ frame[p].plan \in PlanId
    BY <1>0, <2>1 DEF FrameInv, StudentStatement, PlanStatement, Existing
  <2>3. accepted' = accepted
        /\ plans' = [plans EXCEPT ![frame[p].plan] =
                       [status |-> "amended", payload |-> frame[p].payload]]
    BY <1>6 DEF RewritePayload
  <2>4. InForce \subseteq InForce'
    BY <1>0, <2>2, <2>3 DEF InForce, Existing
  <2>5. frame'[p].next \in {"none", "rematerialise"}
    <3>1. CASE Resume(p, Free)
      BY <1>0, <3>1, FreeType DEF Resume
    <3>2. CASE Resume(p, Carry("rematerialise", frame[p].plan, frame[p].payload))
      <4>1. "rematerialise" \in Statement
        BY DEF Statement
      <4>2. Carry("rematerialise", frame[p].plan, frame[p].payload).next = "rematerialise"
        BY <1>0, <2>2, <4>1, CarryType
      <4>3. QED
        BY <1>0, <3>2, <4>2 DEF Resume
    <3>3. QED
      BY <1>6, <3>1, <3>2 DEF RewritePayload, Carry
  <2>6. QED
    BY <1>2, <2>3, <2>4, <2>5, AgreedKept
<1>7. ASSUME plans' = plans, accepted' = accepted,
             \/ frame'[p].next \notin {"materialise", "retire"}
             \/ frame[p].next \in {"materialise", "retire"} /\ frame'[p].plan = frame[p].plan
      PROVE  AgreedInv'
  <2>1. InForce' = InForce
    BY <1>7 DEF InForce, Existing
  <2>2. QED
    BY <1>2, <1>7, <2>1, AgreedKept
<1>8. CASE MaterialiseTasks(p)
  <2>1. frame[p].next = "materialise" /\ frame'[p].plan = frame[p].plan
    BY <1>0, <1>8 DEF MaterialiseTasks, At, Becomes, Resume, Frame
  <2>2. QED
    BY <1>7, <1>8, <2>1 DEF MaterialiseTasks
<1>9. ASSUME plans' = plans, accepted' = accepted, ~MaterialiseTasks(p) PROVE AgreedInv'
  <2>1. ASSUME NEW s \in Statement \ {"materialise", "retire"}, Becomes(p, s) PROVE AgreedInv'
    <3>1. frame'[p].next = s
      BY <1>0, <2>1 DEF Becomes, Resume, Frame
    <3>2. QED
      BY <1>7, <1>9, <3>1
  <2>2. CASE Resume(p, Free)
    <3>1. frame'[p].next = "none"
      BY <1>0, <2>2, FreeType DEF Resume
    <3>2. QED
      BY <1>7, <1>9, <3>1
  <2>3. CASE Propose(p) \/ RunJob(p) \/ RematerialiseTasks(p)
    BY <2>1, <2>3 DEF Propose, RunJob, RematerialiseTasks, Statement
  <2>4. CASE PruneTasks(p) \/ LogCheckOff(p) \/ Die(p)
    BY <2>2, <2>4 DEF PruneTasks, LogCheckOff, Die
  <2>5. ASSUME NEW payload \in SUBSET bound.items, ReadExisting(p, payload) PROVE AgreedInv'
    <3>1. frame'[p].next \in {"replace", "insert"}
      BY <2>5, ReadLeads
    <3>2. QED
      BY <1>7, <1>9, <3>1
  <2>6. ASSUME NEW q \in PlanId, NEW i \in bound.items, NEW action \in Action,
               Amend(p, q, i, action)
        PROVE  AgreedInv'
    <3>1. frame'[p].next = "rewrite"
      BY <1>0, <2>6 DEF Amend, Resume
    <3>2. QED
      BY <1>7, <1>9, <3>1
  <2>7. ASSUME NEW q \in PlanId, NEW i \in Items, NEW s \in {"todo", "done", "skipped"},
               UpdateTask(p, q, i, s)
        PROVE  AgreedInv'
    <3>1. frame'[p] = frame[p] \/ frame'[p].next = "log-check-off"
      BY <2>7, CheckOffLeads
    <3>2. frame[p].next = "none"
      BY <2>7 DEF UpdateTask, At
    <3>3. QED
      BY <1>7, <1>9, <3>1, <3>2
  <2>8. QED
    BY <1>9, <2>3, <2>4, <2>5, <2>6, <2>7, <1>3, <1>4, <1>5, <1>6 DEF Step
<1>10. QED
  BY <1>3, <1>4, <1>5, <1>6, <1>8, <1>9, PlansKept

-----------------------------------------------------------------------------
(* AloneInv. *)

LEMMA InitAlone == Init => AloneInv
<1>1. Init => \A p \in Procs : frame[p].next = "none"
  BY FreeType DEF Init
<1>2. Init => \A q \in PlanId : plans[q].status = "absent"
  BY DEF Init
<1>3. QED
  BY <1>1, <1>2 DEF Init, AloneInv, AloneFrame, AloneRows, At

\* With nobody else at work the process that steps is the device, and it alone has
\* a statement to run.
LEMMA OnlyDevice ==
  ASSUME Alone, IInv, AloneFrame, NEW p \in Procs, Step(p)
  PROVE  p \in bound.devices /\ \A r \in Procs : r # p => frame'[r].next = "none"
<1>0. frame \in [Procs -> Frame]
  BY DEF IInv, TypeOK
<1>1. p \in bound.devices
  <2>1. CASE ~At(p, "none")
    BY <2>1 DEF AloneFrame
  <2>2. CASE At(p, "none")
    BY <2>2, Zenon DEF Alone, Step, At, Propose, RunJob, ReadExisting, ReplaceProposal, InsertProposal, Approve,
       MaterialiseTasks, RetireOthers, Amend, RewritePayload, RematerialiseTasks, PruneTasks,
       UpdateTask, LogCheckOff, Die
  <2>3. QED
    BY <2>1, <2>2
<1>2. \A r \in Procs : r # p => frame[r].next = "none"
  BY <1>1 DEF AloneFrame, Alone, OneDevice, At
<1>3. \A r \in Procs : r # p => frame'[r].next = "none"
  BY <1>0, <1>2, OnlyItsFrame
<1>4. QED
  BY <1>1, <1>3

\* Then AloneFrame speaks of the device's frame only.
LEMMA AloneFrameOf ==
  ASSUME NEW p \in bound'.devices, \A r \in Procs : r # p => frame'[r].next = "none",
         frame'[p].next = "insert" => \A q \in PlanId : plans'[q].status # "proposed",
         frame'[p].next = "replace" => plans'[frame'[p].plan].status = "proposed",
         frame'[p].next \in {"materialise", "rematerialise", "retire", "prune"} =>
           frame'[p].payload = plans'[frame'[p].plan].payload,
         frame'[p].next \in {"retire", "prune"} =>
           \A i \in frame'[p].payload : tasks'[frame'[p].plan][i] # "none"
  PROVE  AloneFrame'
<1>1. \A r \in Procs : r = p \/ frame'[r].next = "none"
  OBVIOUS
<1>2. QED
  BY <1>1 DEF AloneFrame, At

\* Rows nobody writes.
LEMMA AloneRowsKept ==
  ASSUME AloneRows, plans' = plans
  PROVE  AloneRows'
BY DEF AloneRows, Existing

\* The last row, when it is unanswered, is the current plan.
LEMMA ProposedIsNewest ==
  ASSUME AloneRows, NEW q \in PlanId, plans[q].status = "proposed"
  PROVE  q \in Current /\ q = Newest(Current)
<1>1. Existing = 1 .. q
  BY DEF AloneRows
<1>2. q \in Current
  BY DEF Current, Existing
<1>3. Current \subseteq PlanId /\ Current \subseteq 1 .. q
  BY <1>1 DEF Current, Existing
<1>4. Newest(Current) \in Current /\ q <= Newest(Current)
  BY <1>2, <1>3, NewestIs
<1>5. Newest(Current) \in 1 .. q /\ q \in Nat
  <2>1. MaxPlans \in Nat
    BY PlanAssumption
  <2>2. Newest(Current) \in 1 .. q
    BY <1>3, <1>4
  <2>3. q \in 1 .. MaxPlans
    BY DEF PlanId
  <2>4. QED
    BY <2>1, <2>2, <2>3
<1>6. Newest(Current) \in Nat /\ Newest(Current) <= q
  BY <1>5
<1>7. ASSUME NEW a \in Nat, NEW b \in Nat, a <= b, b <= a PROVE a = b
  BY <1>7
<1>8. QED
  BY <1>2, <1>4, <1>5, <1>6, <1>7

LEMMA AloneRowsRewritten ==
  ASSUME IInv, AloneRows, NEW p \in Procs, RewritePayload(p)
  PROVE  /\ AloneRows'
         /\ frame[p].plan \in PlanId
         /\ plans'[frame[p].plan].payload = frame[p].payload
<1> DEFINE q == frame[p].plan
<1>0. plans \in [PlanId -> Plan]
  BY DEF IInv, TypeOK
<1>1. /\ frame[p].next = "rewrite"
      /\ plans' = [plans EXCEPT ![q] = [status |-> "amended", payload |-> frame[p].payload]]
  BY DEF RewritePayload, At
<1>2. q \in PlanId /\ q \in Existing
  BY <1>1 DEF IInv, FrameInv, PlanStatement, Existing
<1>3. /\ plans'[q].status = "amended" /\ plans'[q].payload = frame[p].payload
      /\ \A r \in PlanId : r # q => plans'[r] = plans[r]
  BY <1>0, <1>1, <1>2
<1> HIDE DEF q
<1>4. Existing' = Existing
  BY <1>2, <1>3 DEF Existing
<1>5. AloneRows'
  BY <1>3, <1>4 DEF AloneRows
<1>6. QED
  BY <1>2, <1>3, <1>5 DEF q

LEMMA StepAlone ==
  ASSUME Alone, IInv, AloneFrame, AloneRows, NEW p \in Procs, Step(p)
  PROVE  AloneFrame' /\ AloneRows'
<1>0. /\ plans \in [PlanId -> Plan] /\ frame \in [Procs -> Frame] /\ TypeOK /\ FrameInv
      /\ frame[p] \in Frame
      /\ \A q \in PlanId : plans[q].payload \in SUBSET Items
      /\ frame[p].payload \in SUBSET Items
  BY DEF IInv, TypeOK, Plan, Frame
<1>1. p \in bound'.devices /\ \A r \in Procs : r # p => frame'[r].next = "none"
  BY OnlyDevice, BoundKept DEF IInv
<1>2. ASSUME NEW f, Resume(p, f) PROVE frame'[p] = f
  BY <1>0, <1>2 DEF Resume
<1>3. ASSUME frame'[p].next \in {"none", "read-existing", "log-check-off"} PROVE AloneFrame'
  BY <1>1, <1>3, AloneFrameOf
<1>4. ASSUME Resume(p, Free) PROVE AloneFrame'
  BY <1>2, <1>3, <1>4, FreeType
<1>5. ASSUME plans' = plans PROVE AloneRows'
  BY <1>5, AloneRowsKept
<1>6. CASE Propose(p) \/ RunJob(p)
  <2>1. "read-existing" \in Statement
    BY DEF Statement
  <2>2. frame'[p].next = "read-existing" /\ plans' = plans
    <3>1. Resume(p, [frame[p] EXCEPT !.next = "read-existing"]) /\ plans' = plans
      BY <1>6 DEF Propose, RunJob, Becomes
    <3>2. [frame[p] EXCEPT !.next = "read-existing"].next = "read-existing"
      BY <1>0, <2>1, GoesOnType
    <3>3. QED
      BY <1>2, <3>1, <3>2
  <2>3. QED
    BY <1>3, <1>5, <2>2
<1>7. ASSUME NEW payload \in SUBSET bound.items, ReadExisting(p, payload) PROVE AloneFrame' /\ AloneRows'
  <2>1. plans' = plans
    BY <1>7 DEF ReadExisting
  <2>2. CASE frame'[p].next = "replace" /\ plans[frame'[p].plan].status = "proposed"
    BY <1>1, <1>5, <2>1, <2>2, AloneFrameOf
  <2>3. CASE frame'[p].next = "insert" /\ ~(Current # {} /\ plans[Newest(Current)].status = "proposed")
    <3>1. \A q \in PlanId : plans'[q].status # "proposed"
      BY <2>1, <2>3, ProposedIsNewest
    <3>2. QED
      BY <1>1, <1>5, <2>1, <2>3, <3>1, AloneFrameOf
  <2>4. QED
    BY <1>7, <2>2, <2>3, ReadLeads
<1>8. CASE ReplaceProposal(p)
  <2> DEFINE q == frame[p].plan
  <2>1. /\ frame[p].next = "replace" /\ Resume(p, Free)
        /\ plans' = [plans EXCEPT ![q].payload = frame[p].payload]
    BY <1>8 DEF ReplaceProposal, At
  <2>2. q \in PlanId /\ plans[q].status = "proposed"
    BY <1>0, <2>1 DEF FrameInv, PlanStatement, Existing, AloneFrame, At
  <2>3. /\ \A r \in PlanId : plans'[r].status = plans[r].status
        /\ \A r \in PlanId : r # q => plans'[r] = plans[r]
    BY <1>0, <2>1, <2>2 DEF Plan
  <2> HIDE DEF q
  <2>4. Existing' = Existing
    BY <2>3 DEF Existing
  <2>5. AloneRows'
    BY <1>0, <2>1, <2>2, <2>3, <2>4 DEF AloneRows
  <2>6. QED
    BY <1>4, <2>1, <2>5
<1>9. CASE InsertProposal(p)
  <2>1. PICK q \in PlanId :
            /\ q = Cardinality(Existing) + 1
            /\ plans' = [plans EXCEPT ![q] = [status |-> "proposed", payload |-> frame[p].payload]]
    BY <1>9 DEF InsertProposal
  <2>2. frame[p].next = "insert" /\ Resume(p, Free)
    BY <1>9 DEF InsertProposal, At
  <2>3. Existing = 1 .. q - 1 /\ plans[q].status = "absent" /\ q \in 1 .. MaxPlans
    BY <2>1, FreshRow
  <2>4. plans'[q].status = "proposed" /\ \A r \in PlanId : r # q => plans'[r] = plans[r]
    BY <1>0, <2>1
  <2>5. Existing' = Existing \cup {q}
    BY <2>4 DEF Existing
  <2>6. Existing' = 1 .. q
    BY <2>3, <2>5
  <2>7. \A r \in PlanId : plans[r].status # "proposed"
    BY <2>2 DEF AloneFrame, At
  <2>8. AloneRows'
    BY <1>0, <2>4, <2>6, <2>7 DEF AloneRows
  <2>9. QED
    BY <1>4, <2>2, <2>8
<1>10. ASSUME NEW q \in PlanId, Approve(p, q) PROVE AloneFrame' /\ AloneRows'
  <2> DEFINE f == Carry("materialise", q, plans[q].payload)
  <2>1. /\ q \in Existing /\ Resume(p, f)
        /\ plans' = [plans EXCEPT ![q].status = "approved"]
    BY <1>10 DEF Approve, Carry
  <2>2. f.next = "materialise" /\ f.plan = q /\ f.payload = plans[q].payload
    <3>1. "materialise" \in Statement
      BY DEF Statement
    <3>2. QED
      BY <1>0, <3>1, CarryType
  <2> HIDE DEF f
  <2>3. /\ plans'[q].status = "approved" /\ \A r \in PlanId : r # q => plans'[r] = plans[r]
        /\ \A r \in PlanId : plans'[r].payload = plans[r].payload
    BY <1>0, <2>1 DEF Plan
  <2>4. Existing' = Existing
    BY <2>1, <2>3 DEF Existing
  <2>5. AloneRows'
    BY <1>0, <2>1, <2>3, <2>4 DEF AloneRows
  <2>6. frame'[p].next = "materialise" /\ frame'[p].payload = plans'[frame'[p].plan].payload
    BY <1>2, <2>1, <2>2, <2>3
  <2>7. AloneFrame'
    BY <1>1, <2>6, AloneFrameOf
  <2>8. QED
    BY <2>5, <2>7
<1>11. ASSUME frame[p].next \in {"materialise", "rematerialise"}, NEW s \in {"retire", "prune"},
              Becomes(p, s), plans' = plans,
              tasks' = Materialised(frame[p].plan, frame[p].payload)
       PROVE  AloneFrame' /\ AloneRows'
  <2> DEFINE f == [frame[p] EXCEPT !.next = s]
  <2>1. s \in Statement
    BY <1>11 DEF Statement
  <2>2. f.next = s /\ f.plan = frame[p].plan /\ f.payload = frame[p].payload /\ Resume(p, f)
    BY <1>0, <1>11, <2>1, GoesOnType DEF Becomes
  <2> HIDE DEF f
  <2>3. frame'[p].next = s /\ frame'[p].plan = frame[p].plan /\ frame'[p].payload = frame[p].payload
    BY <1>2, <2>2
  <2>4. frame[p].plan \in PlanId /\ frame[p].payload = plans[frame[p].plan].payload
    BY <1>0, <1>11 DEF FrameInv, PlanStatement, Existing, AloneFrame
  <2>5. \A i \in frame[p].payload : tasks'[frame[p].plan][i] # "none"
    BY <1>0, <1>11, <2>4, MaterialisedIs, Zenon
  <2>6. AloneFrame'
    BY <1>1, <1>11, <2>3, <2>4, <2>5, AloneFrameOf
  <2>7. QED
    BY <1>5, <1>11, <2>6
<1>12. CASE MaterialiseTasks(p) \/ RematerialiseTasks(p)
  BY <1>11, <1>12 DEF MaterialiseTasks, RematerialiseTasks, At
<1>13. CASE RetireOthers(p)
  <2>1. /\ Resume(p, Free)
        /\ \A q \in PlanId : plans'[q].payload = plans[q].payload
        /\ \A q \in PlanId : plans'[q].status = plans[q].status
                             \/ (plans[q].status # "absent" /\ plans'[q].status = "superseded")
    <3>1. \A q \in PlanId : plans'[q] = plans[q] \/
            /\ plans[q].status # "absent" /\ plans'[q] = [plans[q] EXCEPT !.status = "superseded"]
      BY <1>0, <1>13 DEF RetireOthers, Current, Existing
    <3>2. \A q \in PlanId : plans[q] \in Plan
      BY <1>0
    <3>3. \A r \in Plan : [r EXCEPT !.status = "superseded"].status = "superseded"
                          /\ [r EXCEPT !.status = "superseded"].payload = r.payload
      BY DEF Plan
    <3>4. Resume(p, Free)
      BY <1>13 DEF RetireOthers
    <3>5. ASSUME NEW q \in PlanId
          PROVE  /\ plans'[q].payload = plans[q].payload
                 /\ \/ plans'[q].status = plans[q].status
                    \/ plans[q].status # "absent" /\ plans'[q].status = "superseded"
      <4>1. CASE plans'[q] = plans[q]
        BY <4>1
      <4>2. CASE plans[q].status # "absent" /\ plans'[q] = [plans[q] EXCEPT !.status = "superseded"]
        <5>1. plans'[q].status = "superseded" /\ plans'[q].payload = plans[q].payload
          BY <3>2, <3>3, <4>2
        <5>2. QED
          BY <4>2, <5>1
      <4>3. QED
        BY <3>1, <4>1, <4>2
    <3>6. QED
      BY <3>4, <3>5
  <2>2. Existing' = Existing
    BY <2>1 DEF Existing
  <2>3. AloneRows'
    BY <1>0, <2>1, <2>2 DEF AloneRows
  <2>4. QED
    BY <1>4, <2>1, <2>3
<1>14. ASSUME NEW q \in PlanId, NEW i \in bound.items, NEW action \in Action, Amend(p, q, i, action)
       PROVE  AloneFrame' /\ AloneRows'
  <2>1. frame'[p].next = "rewrite" /\ plans' = plans
    BY <1>0, <1>14 DEF Amend, Resume
  <2>2. AloneFrame'
    BY <1>1, <2>1, AloneFrameOf
  <2>3. QED
    BY <1>5, <2>1, <2>2
<1>15. CASE RewritePayload(p)
  <2>1. /\ AloneRows' /\ frame[p].plan \in PlanId
        /\ plans'[frame[p].plan].payload = frame[p].payload
    BY <1>15, AloneRowsRewritten
  <2>2. CASE Resume(p, Free)
    BY <1>4, <2>1, <2>2
  <2>3. CASE Resume(p, Carry("rematerialise", frame[p].plan, frame[p].payload))
    <3>1. "rematerialise" \in Statement
      BY DEF Statement
    <3>2. /\ frame'[p].next = "rematerialise" /\ frame'[p].plan = frame[p].plan
          /\ frame'[p].payload = frame[p].payload
      BY <1>0, <1>2, <2>1, <2>3, <3>1, CarryType
    <3>3. AloneFrame'
      BY <1>1, <2>1, <3>2, AloneFrameOf
    <3>4. QED
      BY <2>1, <3>3
  <2>4. QED
    BY <1>15, <2>2, <2>3 DEF RewritePayload, Carry
<1>16. CASE PruneTasks(p) \/ Die(p)
  BY <1>4, <1>5, <1>16 DEF PruneTasks, Die
<1>17. ASSUME NEW q \in PlanId, NEW i \in Items, NEW s \in {"todo", "done", "skipped"},
              UpdateTask(p, q, i, s)
       PROVE  AloneFrame' /\ AloneRows'
  <2>1. frame' = frame \/ frame'[p].next = "log-check-off"
    BY <1>17, CheckOffLeads
  <2>2. frame[p].next = "none" /\ plans' = plans
    BY <1>17 DEF UpdateTask, At
  <2>3. QED
    BY <1>3, <1>5, <2>1, <2>2
<1>18. CASE LogCheckOff(p)
  BY <1>4, <1>5, <1>18 DEF LogCheckOff
<1>19. QED
  BY <1>6, <1>7, <1>8, <1>9, <1>10, <1>12, <1>13, <1>14, <1>15, <1>16, <1>17, <1>18 DEF Step

-----------------------------------------------------------------------------
(* What an accept and a resync leave in the list of tasks. *)

\* The step that ends an accept writes no task; the one that ends a resync leaves,
\* of the plan's items, those of the payload it carries.
LEMMA EndsFollow ==
  ASSUME IInv, AloneFrame, NEW r \in Procs, Step(r), NEW p \in Procs, Ran(p, {"retire", "prune"}),
         NEW i \in Items
  PROVE  /\ i \in plans[frame[p].plan].payload => tasks'[frame[p].plan][i] # "none"
         /\ At(p, "prune") /\ tasks'[frame[p].plan][i] = "todo" => i \in plans[frame[p].plan].payload
<1> DEFINE q == frame[p].plan
<1>0. frame \in [Procs -> Frame] /\ FrameInv
  BY DEF IInv, TypeOK
<1>1. frame[p].next \in {"retire", "prune"} /\ frame'[p] # frame[p] /\ bound' = bound
  BY DEF Ran
<1>2. q \in PlanId
  BY <1>0, <1>1 DEF FrameInv, PlanStatement, Existing
<1>3. /\ frame[p].payload = plans[q].payload
      /\ \A j \in frame[p].payload : tasks[q][j] # "none"
  BY <1>1 DEF AloneFrame
<1>4. r = p
  BY <1>0, <1>1, OnlyItsFrame
<1>5. RetireOthers(p) \/ PruneTasks(p)
  <2>1. ~Die(p)
    <3>1. SUFFICES ASSUME Die(p) PROVE FALSE
      OBVIOUS
    <3>2. bound \in Scenario
      BY DEF IInv
    <3>3. bound'.deaths = bound.deaths - 1 /\ bound.deaths \in Nat
      BY <3>1, <3>2 DEF Die, Scenario
    <3>4. QED
      BY <1>1, <3>3
  <2>2. Step(p) /\ frame[p].next \in {"retire", "prune"}
    BY <1>1, <1>4
  <2>3. QED
    BY <2>1, <2>2, Zenon
    DEF Step, At, Propose, RunJob, ReadExisting, ReplaceProposal, InsertProposal, Approve,
        MaterialiseTasks, Amend, RewritePayload, RematerialiseTasks, UpdateTask, LogCheckOff
<1>6. CASE RetireOthers(p)
  BY <1>3, <1>6 DEF RetireOthers, At
<1>7. CASE PruneTasks(p)
  <2>1. tasks'[q][i] = IF PruneSelects(q, frame[p].payload, q, i) THEN "none" ELSE tasks[q][i]
    BY <1>2, <1>7 DEF PruneTasks
  <2>2. CASE frame[p].payload # {}
    BY <1>3, <2>1, <2>2 DEF PruneSelects
  <2>3. CASE frame[p].payload = {}
    <3>1. i \notin plans[q].payload
      BY <1>3, <2>3
    <3>2. tasks'[q][i] # "todo"
      BY <2>1, <2>3 DEF PruneSelects
    <3>3. QED
      BY <3>1, <3>2
  <2>4. QED
    BY <2>2, <2>3
<1>8. QED
  BY <1>5, <1>6, <1>7

-----------------------------------------------------------------------------
(* SerialInv. *)

LEMMA InitSerial == Init => SerialInv
<1>1. Init => \A p \in Procs : frame[p].next = "none"
  BY FreeType DEF Init
<1>2. QED
  BY <1>1 DEF Init, SerialInv, OneWriter, Applied, At

\* What SerialInv says of the frame of one process.
SerialFrame(p) ==
  LET e == frame[p].entry IN
  /\ At(p, "replace") => \A a \in log : ~(a.by = "amendPlan" /\ a.plan = frame[p].plan)
  /\ At(p, "rewrite") => /\ e.plan = frame[p].plan /\ e.by = "amendPlan"
                         /\ frame[p].payload \in Amended(e.plan, e.item, e.action)
  /\ At(p, "log-check-off") => e.by = "updateTask"

\* A step that leaves the payloads and the log, and answers no plan back to a proposal.
LEMMA SerialKept ==
  ASSUME IInv, SerialInv, OneWriter', NEW p \in Procs, log' = log,
         \A r \in Procs : r # p => frame'[r] = frame[r],
         \A q \in PlanId : /\ plans'[q].payload = plans[q].payload
                           /\ plans[q].status \notin {"absent", "proposed"}
                                => plans'[q].status \notin {"absent", "proposed"},
         SerialFrame(p)'
  PROVE  SerialInv'
<1>0. FrameInv /\ log \subseteq Entry /\ \A e \in Entry : e.plan \in PlanId
  BY DEF IInv, TypeOK, Entry
<1>1. Applied' /\ \A e \in log' : e.by = "amendPlan" => plans'[e.plan].status \notin {"absent", "proposed"}
  BY <1>0 DEF SerialInv, Applied, ByHand
<1>2. ASSUME NEW r \in Procs PROVE SerialFrame(r)'
  <2>1. CASE r # p
    <3>1. SerialFrame(r) /\ frame'[r] = frame[r]
      BY <2>1 DEF SerialInv, SerialFrame
    <3>2. At(r, "rewrite") => frame[r].entry.plan \in PlanId
      BY <1>0 DEF FrameInv, At
    <3>3. At(r, "rewrite") =>
            Amended(frame[r].entry.plan, frame[r].entry.item, frame[r].entry.action)'
              = Amended(frame[r].entry.plan, frame[r].entry.item, frame[r].entry.action)
      BY <3>1, <3>2 DEF Amended, ByHand
    <3>4. QED
      BY <3>1, <3>3 DEF SerialFrame, At
  <2>2. QED
    BY <2>1
<1>3. QED
  BY <1>1, <1>2 DEF SerialInv, SerialFrame

\* An edit only adds what is added; what it drops is gone, unless added by hand before.
LEMMA AmendedIs ==
  ASSUME NEW q, NEW i, NEW action \in Action, NEW payload \in Amended(q, i, action)
  PROVE  /\ action # "added" => payload \subseteq plans[q].payload
         /\ payload \subseteq plans[q].payload \cup {i}
         /\ action = "skipped" /\ ByHand(q, i) \notin log => i \notin payload
BY DEF Amended, Action

LEMMA SerialRewritten ==
  ASSUME IInv, SerialInv, OneWriter', NEW p \in Procs, RewritePayload(p),
         \A r \in Procs : r # p => frame'[r] = frame[r]
  PROVE  SerialInv'
<1> DEFINE q == frame[p].plan
           e == frame[p].entry
<1>0. /\ plans \in [PlanId -> Plan] /\ log \subseteq Entry /\ FrameInv /\ frame \in [Procs -> Frame]
      /\ OneWriter /\ Applied
  BY DEF IInv, TypeOK, SerialInv
<1>1. /\ frame[p].next = "rewrite" /\ log' = log \cup {e}
      /\ plans' = [plans EXCEPT ![q] = [status |-> "amended", payload |-> frame[p].payload]]
  BY DEF RewritePayload, At
<1>2. /\ q \in PlanId /\ e \in Entry /\ e.plan = q /\ e.by = "amendPlan"
      /\ frame[p].payload \in Amended(q, e.item, e.action)
  BY <1>0, <1>1 DEF FrameInv, PlanStatement, Existing, SerialInv, At
<1>3. /\ plans'[q].status = "amended" /\ plans'[q].payload = frame[p].payload
      /\ \A r \in PlanId : r # q => plans'[r] = plans[r]
  BY <1>0, <1>1, <1>2
<1>4. frame'[p].next \notin {"replace", "rewrite", "log-check-off"}
  <2>1. frame[p].payload \in SUBSET Items
    BY <1>0 DEF Frame
  <2>2. CASE Resume(p, Free)
    BY <1>0, <2>2, FreeType DEF Resume
  <2>3. CASE Resume(p, Carry("rematerialise", q, frame[p].payload))
    <3>1. "rematerialise" \in Statement
      BY DEF Statement
    <3>2. Carry("rematerialise", q, frame[p].payload).next = "rematerialise"
      BY <1>2, <2>1, <3>1, CarryType
    <3>3. QED
      BY <1>0, <2>3, <3>2 DEF Resume
  <2>4. QED
    BY <2>2, <2>3 DEF RewritePayload, Carry
<1>5. \A a \in Entry : a.plan \in PlanId /\ a.action \in Action /\
        a = [plan |-> a.plan, item |-> a.item, action |-> a.action, by |-> a.by]
  BY DEF Entry
<1>6. \A r \in Procs : r # p /\ frame[r].next \in {"replace", "rewrite"} => frame[r].plan # q
  BY <1>0, <1>1 DEF OneWriter
<1>7. /\ e.action # "added" => frame[p].payload \subseteq plans[q].payload
      /\ frame[p].payload \subseteq plans[q].payload \cup {e.item}
      /\ e.action = "skipped" /\ ByHand(q, e.item) \notin log => e.item \notin frame[p].payload
  BY <1>2, <1>5, AmendedIs
<1> HIDE DEF q, e
<1>8. ASSUME NEW a \in log', a.by = "amendPlan"
      PROVE  plans'[a.plan].status \notin {"absent", "proposed"}
  BY <1>0, <1>1, <1>2, <1>3, <1>5, <1>8 DEF SerialInv
<1>9. ASSUME NEW a \in log', a.by = "amendPlan", a.action = "skipped", ByHand(a.plan, a.item) \notin log'
      PROVE  a.item \notin plans'[a.plan].payload
  <2>1. CASE a = e
    BY <1>1, <1>2, <1>3, <1>7, <1>9, <2>1
  <2>2. CASE a \in log
    <3>1. a.item \notin plans[a.plan].payload
      BY <1>0, <1>1, <1>9, <2>2 DEF Applied
    <3>2. CASE a.plan # q
      BY <1>0, <1>3, <1>5, <2>2, <3>1, <3>2
    <3>3. CASE a.plan = q
      <4>1. e.action = "added" => a.item # e.item
        <5>1. SUFFICES ASSUME e.action = "added", a.item = e.item PROVE FALSE
          OBVIOUS
        <5>2. e = ByHand(a.plan, a.item)
          BY <1>2, <1>5, <3>3, <5>1 DEF ByHand
        <5>3. QED
          BY <1>1, <1>9, <5>2
      <4>2. QED
        BY <1>3, <1>7, <3>1, <3>3, <4>1
    <3>4. QED
      BY <3>2, <3>3
  <2>3. QED
    BY <1>1, <2>1, <2>2
<1>10. ASSUME NEW r \in Procs PROVE SerialFrame(r)'
  <2>1. CASE r = p
    BY <1>4, <2>1 DEF SerialFrame, At
  <2>2. CASE r # p
    <3>1. SerialFrame(r) /\ frame'[r] = frame[r]
      BY <2>2 DEF SerialInv, SerialFrame
    <3>2. At(r, "replace") => \A a \in log' : ~(a.by = "amendPlan" /\ a.plan = frame[r].plan)
      BY <1>1, <1>2, <1>6, <2>2, <3>1 DEF SerialFrame, At
    <3>3. ASSUME At(r, "rewrite")
          PROVE  Amended(frame[r].entry.plan, frame[r].entry.item, frame[r].entry.action)'
                   = Amended(frame[r].entry.plan, frame[r].entry.item, frame[r].entry.action)
      <4>1. frame[r].entry.plan # q /\ frame[r].entry.plan \in PlanId
        BY <1>0, <1>5, <1>6, <2>2, <3>1, <3>3 DEF SerialFrame, At, FrameInv
      <4>2. plans'[frame[r].entry.plan] = plans[frame[r].entry.plan]
        BY <1>3, <4>1
      <4>3. ByHand(frame[r].entry.plan, frame[r].entry.item) # e
        BY <1>2, <4>1 DEF ByHand
      <4>4. QED
        BY <1>1, <3>1, <4>2, <4>3 DEF Amended, ByHand
    <3>4. QED
      BY <3>1, <3>2, <3>3 DEF SerialFrame, At
  <2>3. QED
    BY <2>1, <2>2
<1>11. QED
  BY <1>8, <1>9, <1>10 DEF SerialInv, SerialFrame, Applied

\* The payload of one plan is written, of which the log says nothing and which nobody
\* else is about to edit.
LEMMA SerialProposed ==
  ASSUME IInv, SerialInv, OneWriter', NEW p \in Procs, log' = log,
         \A r \in Procs : r # p => frame'[r] = frame[r],
         frame'[p].next = "none",
         NEW q \in PlanId,
         \A r \in PlanId : r # q => plans'[r] = plans[r],
         \A a \in log : ~(a.by = "amendPlan" /\ a.plan = q),
         \A r \in Procs : r # p /\ At(r, "rewrite") => frame[r].plan # q
  PROVE  SerialInv'
<1>0. FrameInv /\ log \subseteq Entry /\ \A e \in Entry : e.plan \in PlanId
  BY DEF IInv, TypeOK, Entry
<1>1. Applied' /\ \A e \in log' : e.by = "amendPlan" => plans'[e.plan].status \notin {"absent", "proposed"}
  BY <1>0 DEF SerialInv, Applied, ByHand
<1>2. ASSUME NEW r \in Procs PROVE SerialFrame(r)'
  <2>1. CASE r = p
    BY <2>1 DEF SerialFrame, At
  <2>2. CASE r # p
    <3>1. SerialFrame(r) /\ frame'[r] = frame[r]
      BY <2>2 DEF SerialInv, SerialFrame
    <3>2. At(r, "rewrite") => frame[r].entry.plan \in PlanId /\ frame[r].entry.plan # q
      BY <1>0, <2>2, <3>1 DEF FrameInv, At, SerialFrame
    <3>3. At(r, "rewrite") =>
            Amended(frame[r].entry.plan, frame[r].entry.item, frame[r].entry.action)'
              = Amended(frame[r].entry.plan, frame[r].entry.item, frame[r].entry.action)
      BY <3>1, <3>2 DEF Amended, ByHand
    <3>4. QED
      BY <3>1, <3>3 DEF SerialFrame, At
  <2>3. QED
    BY <2>1, <2>2
<1>3. QED
  BY <1>1, <1>2 DEF SerialInv, SerialFrame

LEMMA StepSerial ==
  ASSUME IInv, SerialInv, OneWriter', NEW p \in Procs, Step(p)
  PROVE  SerialInv'
<1>0. /\ plans \in [PlanId -> Plan] /\ frame \in [Procs -> Frame] /\ FrameInv /\ frame[p] \in Frame
      /\ log \subseteq Entry /\ \A q \in PlanId : plans[q].payload \in SUBSET Items
      /\ frame[p].payload \in SUBSET Items
  BY DEF IInv, TypeOK, Plan, Frame
<1>1. \A r \in Procs : r # p => frame'[r] = frame[r]
  BY <1>0, OnlyItsFrame
<1>2. ASSUME NEW f, Resume(p, f) PROVE frame'[p] = f
  BY <1>0, <1>2 DEF Resume
<1>3. ASSUME plans' = plans, log' = log, SerialFrame(p)' PROVE SerialInv'
  BY <1>1, <1>3, SerialKept
<1>4. ASSUME frame'[p].next \notin {"replace", "rewrite", "log-check-off"} PROVE SerialFrame(p)'
  BY <1>4 DEF SerialFrame, At
<1>5. ASSUME Resume(p, Free) PROVE frame'[p].next = "none"
  BY <1>2, <1>5, FreeType
<1>6. ASSUME NEW s \in Statement \ {"replace", "rewrite", "log-check-off"}, Becomes(p, s)
      PROVE  SerialFrame(p)'
  <2>1. frame'[p] = [frame[p] EXCEPT !.next = s]
    BY <1>2, <1>6 DEF Becomes
  <2>2. [frame[p] EXCEPT !.next = s].next = s
    BY <1>0, <1>6, GoesOnType
  <2>3. QED
    BY <1>4, <1>6, <2>1, <2>2
<1>7. CASE Propose(p) \/ RunJob(p) \/ MaterialiseTasks(p) \/ RematerialiseTasks(p)
  <2>1. \E s \in Statement \ {"replace", "rewrite", "log-check-off"} : Becomes(p, s)
    BY <1>7 DEF Propose, RunJob, MaterialiseTasks, RematerialiseTasks, Statement
  <2>2. plans' = plans /\ log' = log
    BY <1>7 DEF Propose, RunJob, MaterialiseTasks, RematerialiseTasks
  <2>3. QED
    BY <1>3, <1>6, <2>1, <2>2
<1>8. CASE PruneTasks(p) \/ Die(p)
  BY <1>3, <1>4, <1>5, <1>8 DEF PruneTasks, Die
<1>9. ASSUME NEW payload \in SUBSET bound.items, ReadExisting(p, payload) PROVE SerialInv'
  <2>1. plans' = plans /\ log' = log
    BY <1>9 DEF ReadExisting
  <2>2. CASE /\ frame'[p].next = "replace" /\ frame'[p].plan = Newest(Current)
             /\ plans[Newest(Current)].status = "proposed"
    <3>1. \A a \in log : ~(a.by = "amendPlan" /\ a.plan = frame'[p].plan)
      BY <2>2 DEF SerialInv
    <3>2. SerialFrame(p)'
      BY <2>1, <2>2, <3>1 DEF SerialFrame, At
    <3>3. QED
      BY <1>3, <2>1, <3>2
  <2>3. CASE frame'[p].next = "insert"
    BY <1>3, <1>4, <2>1, <2>3
  <2>4. QED
    BY <1>9, <2>2, <2>3, ReadLeads
<1>10. CASE ReplaceProposal(p)
  <2> DEFINE q == frame[p].plan
  <2>1. /\ frame[p].next = "replace" /\ Resume(p, Free) /\ log' = log
        /\ plans' = [plans EXCEPT ![q].payload = frame[p].payload]
    BY <1>10 DEF ReplaceProposal, At
  <2>2. q \in PlanId /\ \A a \in log : ~(a.by = "amendPlan" /\ a.plan = q)
    BY <1>0, <2>1 DEF FrameInv, PlanStatement, Existing, SerialInv, At
  <2>3. \A r \in PlanId : r # q => plans'[r] = plans[r]
    BY <1>0, <2>1, <2>2
  <2>4. \A r \in Procs : r # p /\ At(r, "rewrite") => frame[r].plan # q
    BY <2>1 DEF SerialInv, OneWriter, At
  <2> HIDE DEF q
  <2>5. QED
    BY <1>1, <1>5, <2>1, <2>2, <2>3, <2>4, SerialProposed
<1>11. CASE InsertProposal(p)
  <2>1. PICK q \in PlanId :
            /\ q = Cardinality(Existing) + 1
            /\ plans' = [plans EXCEPT ![q] = [status |-> "proposed", payload |-> frame[p].payload]]
    BY <1>11 DEF InsertProposal
  <2>2. Resume(p, Free) /\ log' = log
    BY <1>11 DEF InsertProposal
  <2>3. plans[q].status = "absent"
    BY <2>1, FreshRow
  <2>4. \A r \in PlanId : r # q => plans'[r] = plans[r]
    BY <1>0, <2>1
  <2>5. \A a \in log : ~(a.by = "amendPlan" /\ a.plan = q)
    BY <2>3 DEF SerialInv
  <2>6. \A r \in Procs : r # p /\ At(r, "rewrite") => frame[r].plan # q
    BY <1>0, <2>3 DEF FrameInv, PlanStatement, Existing, At
  <2>7. QED
    BY <1>1, <1>5, <2>2, <2>4, <2>5, <2>6, SerialProposed
<1>12. ASSUME NEW q \in PlanId, Approve(p, q) PROVE SerialInv'
  <2> DEFINE f == Carry("materialise", q, plans[q].payload)
  <2>1. /\ q \in Existing /\ Resume(p, f) /\ log' = log
        /\ plans' = [plans EXCEPT ![q].status = "approved"]
    BY <1>12 DEF Approve, Carry
  <2>2. f.next = "materialise"
    <3>1. "materialise" \in Statement
      BY DEF Statement
    <3>2. QED
      BY <1>0, <3>1, CarryType
  <2> HIDE DEF f
  <2>3. /\ plans'[q].status = "approved" /\ \A r \in PlanId : r # q => plans'[r] = plans[r]
        /\ \A r \in PlanId : plans'[r].payload = plans[r].payload
    BY <1>0, <2>1 DEF Plan
  <2>4. SerialFrame(p)'
    BY <1>2, <1>4, <2>1, <2>2
  <2>5. \A r \in PlanId : /\ plans'[r].payload = plans[r].payload
                          /\ plans[r].status \notin {"absent", "proposed"}
                               => plans'[r].status \notin {"absent", "proposed"}
    BY <2>3
  <2>6. QED
    BY <1>1, <2>1, <2>4, <2>5, SerialKept
<1>13. CASE RetireOthers(p)
  <2>1. Resume(p, Free) /\ log' = log
    BY <1>13 DEF RetireOthers
  <2>2. ASSUME NEW r \in PlanId
        PROVE  /\ plans'[r].payload = plans[r].payload
               /\ plans[r].status \notin {"absent", "proposed"}
                    => plans'[r].status \notin {"absent", "proposed"}
    <3>1. plans[r] \in Plan
      BY <1>0
    <3>2. plans'[r] \in {plans[r], [plans[r] EXCEPT !.status = "superseded"]}
      BY <1>13 DEF RetireOthers
    <3>3. QED
      BY <3>1, <3>2 DEF Plan
  <2>3. SerialFrame(p)'
    BY <1>4, <1>5, <2>1
  <2>4. QED
    BY <1>1, <2>1, <2>2, <2>3, SerialKept
<1>14. ASSUME NEW q \in PlanId, NEW i \in bound.items, NEW action \in Action, Amend(p, q, i, action)
       PROVE  SerialInv'
  <2> DEFINE e == [plan |-> q, item |-> i, action |-> action, by |-> "amendPlan"]
  <2>1. plans' = plans /\ log' = log
    BY <1>14 DEF Amend
  <2>2. PICK payload \in Amended(q, i, action) :
          Resume(p, [next |-> "rewrite", plan |-> q, payload |-> payload, entry |-> e])
    BY <1>14 DEF Amend
  <2>3. /\ frame'[p].next = "rewrite" /\ frame'[p].plan = q /\ frame'[p].payload = payload
        /\ frame'[p].entry = e
    BY <1>2, <2>2
  <2>4. e.plan = q /\ e.item = i /\ e.action = action /\ e.by = "amendPlan"
    OBVIOUS
  <2> HIDE DEF e
  <2>5. Amended(q, i, action)' = Amended(q, i, action)
    BY <2>1 DEF Amended, ByHand
  <2>6. SerialFrame(p)'
    BY <2>3, <2>4, <2>5 DEF SerialFrame, At
  <2>7. QED
    BY <1>3, <2>1, <2>6
<1>15. CASE RewritePayload(p)
  BY <1>1, <1>15, SerialRewritten
<1>16. ASSUME NEW q \in PlanId, NEW i \in Items, NEW s \in {"todo", "done", "skipped"},
              UpdateTask(p, q, i, s)
       PROVE  SerialInv'
  <2>1. plans' = plans /\ log' = log /\ frame[p].next = "none"
    BY <1>16 DEF UpdateTask, At
  <2>2. frame'[p] = frame[p] \/ (frame'[p].next = "log-check-off" /\ frame'[p].entry.by = "updateTask")
    BY <1>16, CheckOffLeads
  <2>3. SerialFrame(p)'
    BY <2>1, <2>2 DEF SerialFrame, At
  <2>4. QED
    BY <1>3, <2>1, <2>3
<1>17. CASE LogCheckOff(p)
  <2> DEFINE e == frame[p].entry
  <2>1. /\ frame[p].next = "log-check-off" /\ plans' = plans /\ log' = log \cup {e} /\ Resume(p, Free)
    BY <1>17 DEF LogCheckOff, At
  <2>2. e.by = "updateTask"
    BY <2>1 DEF SerialInv, At
  <2> HIDE DEF e
  <2>3. \A q, i : ByHand(q, i) \in log' <=> ByHand(q, i) \in log
    BY <2>1, <2>2 DEF ByHand
  <2>4. /\ Applied'
        /\ \A a \in log' : a.by = "amendPlan" => plans'[a.plan].status \notin {"absent", "proposed"}
    <3>1. \A a \in log' : a.by = "amendPlan" => a \in log
      BY <2>1, <2>2
    <3>2. QED
      BY <2>1, <2>3, <3>1 DEF SerialInv, Applied, ByHand
  <2>5. ASSUME NEW r \in Procs PROVE SerialFrame(r)'
    <3>1. CASE r = p
      BY <1>4, <1>5, <2>1, <3>1
    <3>2. CASE r # p
      <4>1. SerialFrame(r) /\ frame'[r] = frame[r]
        BY <1>1, <3>2 DEF SerialInv, SerialFrame
      <4>2. \A a \in log' : a.by = "amendPlan" => a \in log
        BY <2>1, <2>2
      <4>3. Amended(frame[r].entry.plan, frame[r].entry.item, frame[r].entry.action)'
              = Amended(frame[r].entry.plan, frame[r].entry.item, frame[r].entry.action)
        <5>1. ByHand(frame[r].entry.plan, frame[r].entry.item)' \in log'
                <=> ByHand(frame[r].entry.plan, frame[r].entry.item) \in log
          BY <2>3, <4>1 DEF ByHand
        <5>2. QED
          BY <2>1, <4>1, <5>1 DEF Amended
      <4>4. QED
        BY <4>1, <4>2, <4>3 DEF SerialFrame, At
    <3>3. QED
      BY <3>1, <3>2
  <2>6. QED
    BY <2>4, <2>5 DEF SerialInv, SerialFrame
<1>18. QED
  BY <1>7, <1>8, <1>9, <1>10, <1>11, <1>12, <1>13, <1>14, <1>15, <1>16, <1>17 DEF Step

-----------------------------------------------------------------------------
(* The theorems. *)

\* Every run keeps the inductive invariant, whatever the devices and the jobs do.
THEOREM PlanInvariant == Spec => []IInv
<1>1. QED
  BY InitIInv, StepIInv, PTL DEF Spec

\* Every run keeps the types.
THEOREM PlanTypesCorrect == Spec => []TypeOK
<1>1. IInv => TypeOK
  BY DEF IInv
<1>2. QED
  BY <1>1, PlanInvariant, PTL

\* No job adopts, drops or supersedes a plan: whatever runs beside, only a step of the
\* student's own request changes which plans are in force (lifecycle.ts:5, :197-201).
THEOREM OnlyStudentAdopts == Spec => OnlyTheStudentAdopts
<1>1. IInv /\ [Next]_vars => [InForce' # InForce => \E p \in Devices : frame'[p] # frame[p]]_vars
  <2> SUFFICES ASSUME IInv, [Next]_vars, InForce' # InForce
               PROVE  \E p \in Devices : frame'[p] # frame[p]
    OBVIOUS
  <2>1. Next
    BY DEF vars, InForce, Existing
  <2>2. PICK p \in Procs : Step(p)
    BY <2>1, NextIsStep
  <2>3. QED
    BY <2>2, StepAdopts
<1>2. QED
  BY <1>1, PlanInvariant, PTL DEF Spec, OnlyTheStudentAdopts

\* One device: once the student agreed to a plan an agreed plan stays in force, through
\* crashes and whatever the jobs generate.
THEOREM AgreementKept == Spec => []AgreementSurvives
<1>1. IInv /\ (OneDevice => AgreedInv) /\ [Next]_vars => (OneDevice => AgreedInv)'
  <2> SUFFICES ASSUME IInv, OneDevice => AgreedInv, [Next]_vars, OneDevice' PROVE AgreedInv'
    OBVIOUS
  <2>1. CASE UNCHANGED vars
    BY <2>1 DEF vars, AgreedInv, OneDevice, InForce, Existing
  <2>2. CASE Next
    <3>1. PICK p \in Procs : Step(p)
      BY <2>2, NextIsStep
    <3>2. OneDevice
      BY <3>1, BoundKept DEF IInv, OneDevice
    <3>3. QED
      BY <3>1, <3>2, StepAgreed
  <2>3. QED
    BY <2>1, <2>2
<1>2. (OneDevice => AgreedInv) => AgreementSurvives
  BY DEF AgreedInv, AgreementSurvives
<1>3. QED
  BY <1>1, <1>2, InitAgreed, PlanInvariant, PTL DEF Spec

\* One device and no job beside it: the frames and the rows agree at every step.
LEMMA AloneInvariant == Spec => []AloneInv
<1>1. IInv /\ AloneInv /\ [Next]_vars => AloneInv'
  <2> SUFFICES ASSUME IInv, AloneInv, [Next]_vars, Alone' PROVE AloneFrame' /\ AloneRows'
    BY DEF AloneInv
  <2>1. CASE UNCHANGED vars
    BY <2>1 DEF vars, AloneInv, Alone, OneDevice, AloneFrame, AloneRows, Existing, At
  <2>2. CASE Next
    <3>1. PICK p \in Procs : Step(p)
      BY <2>2, NextIsStep
    <3>2. Alone
      BY <3>1, BoundKept DEF IInv, Alone, OneDevice
    <3>3. QED
      BY <3>1, <3>2, StepAlone DEF AloneInv
  <2>3. QED
    BY <2>1, <2>2
<1>2. QED
  BY <1>1, InitAlone, PlanInvariant, PTL DEF Spec

\* One device: with no job, at most one proposal waits for the student, and it is the
\* plan getCurrentPlanRow shows.
THEOREM OneProposalOpen == Spec => []OneOpenProposal
<1>1. AloneInv => OneOpenProposal
  BY ProposedIsNewest DEF AloneInv, OneOpenProposal
<1>2. QED
  BY <1>1, AloneInvariant, PTL

\* Any devices and jobs: as long as no two of them are about to write the payload of one
\* plan, the log never claims that amendPlan dropped what the payload still shows, and a
\* death between the statements makes no difference (lifecycle.ts:328-332).
THEOREM LogIsTrue == Spec => []AmendmentsApplied
<1>1. IInv /\ (bound.serial => SerialInv) /\ [Next]_vars => (bound.serial => SerialInv)'
  <2> SUFFICES ASSUME IInv, bound.serial => SerialInv, [Next]_vars, bound'.serial PROVE SerialInv'
    OBVIOUS
  <2>1. CASE UNCHANGED vars
    <3>1. UNCHANGED <<plans, log, frame>> /\ bound' = bound
      BY <2>1 DEF vars
    <3>2. SerialInv
      BY <3>1
    <3>3. QED
      BY <3>1, <3>2, Zenon DEF SerialInv, OneWriter, Applied, ByHand, Amended, At
  <2>2. CASE Next
    <3>1. PICK p \in Procs : Step(p)
      BY <2>2, NextIsStep
    <3>2. bound.serial
      BY <3>1, BoundKept DEF IInv
    <3>3. QED
      BY <2>2, <3>1, <3>2, NextIsStep, StepSerial
  <2>3. QED
    BY <2>1, <2>2
<1>2. (bound.serial => SerialInv) => AmendmentsApplied
  BY DEF SerialInv, Applied, AmendmentsApplied
<1>3. QED
  BY <1>1, <1>2, InitSerial, PlanInvariant, PTL DEF Spec

\* One device: with no job, the task list agrees with the plan when an accept or a resync
\* ends.
THEOREM ListFollowsPlan == Spec => TasksFollowPlan
<1> DEFINE Follows ==
      \A p \in Procs : Alone /\ Ran(p, {"retire", "prune"}) =>
        LET q == frame[p].plan IN
        \A i \in Items :
          /\ i \in plans[q].payload => tasks'[q][i] # "none"
          /\ At(p, "prune") /\ tasks'[q][i] = "todo" => i \in plans[q].payload
<1>1. IInv /\ AloneInv /\ [Next]_vars => [Follows]_vars
  <2> SUFFICES ASSUME IInv, AloneInv, Next PROVE Follows
    OBVIOUS
  <2>1. PICK r \in Procs : Step(r)
    BY NextIsStep
  <2>2. QED
    BY <2>1, EndsFollow DEF AloneInv
<1>2. QED
  BY <1>1, AloneInvariant, PlanInvariant, PTL DEF Spec, TasksFollowPlan
=============================================================================
