----------------------------- MODULE JobContract -----------------------------
(***************************************************************************)
(* What the queue promises about a job, seen from outside the table: it is *)
(* queued, then held by exactly one worker, and ends once; a failure costs *)
(* one try and the last try ends it; a job whose worker is gone is found   *)
(* again.  JobQueue implements this when no live handler outlasts          *)
(* STALE_RUNNING_MS, the reading of worker.ts:4-7 and :17-25.              *)
(***************************************************************************)
EXTENDS Naturals

CONSTANTS Job, Worker, MaxTries

VARIABLES state,   \* where each job stands
          owners,  \* the workers that hold it
          tries    \* failures so far

cvars == <<state, owners, tries>>

CInit ==
  /\ state \in [Job -> {"absent", "queued"}]
  /\ owners = [j \in Job |-> {}]
  /\ tries = [j \in Job |-> 0]

Submit(j) ==
  /\ state[j] = "absent"
  /\ state' = [state EXCEPT ![j] = "queued"]
  /\ tries' = [tries EXCEPT ![j] = 0]
  /\ UNCHANGED owners

Take(j, w) ==
  /\ state[j] = "queued" /\ owners[j] = {}
  /\ state' = [state EXCEPT ![j] = "held"]
  /\ owners' = [owners EXCEPT ![j] = {w}]
  /\ UNCHANGED tries

\* Its worker died, or took it and could not run it.
Orphan(j) ==
  /\ state[j] \in {"queued", "held"}
  /\ state' = [state EXCEPT ![j] = "orphaned"]
  /\ owners' = [owners EXCEPT ![j] = {}]
  /\ UNCHANGED tries

\* Some orphans are put back.
Return(S) ==
  /\ \A j \in S : state[j] = "orphaned"
  /\ state' = [j \in Job |-> IF j \in S THEN "queued" ELSE state[j]]
  /\ UNCHANGED <<owners, tries>>

Finish(j) ==
  /\ state[j] = "held"
  /\ state' = [state EXCEPT ![j] = "done"]
  /\ owners' = [owners EXCEPT ![j] = {}]
  /\ UNCHANGED tries

Retry(j) ==
  /\ state[j] = "held" /\ tries[j] + 1 < MaxTries
  /\ state' = [state EXCEPT ![j] = "queued"]
  /\ owners' = [owners EXCEPT ![j] = {}]
  /\ tries' = [tries EXCEPT ![j] = @ + 1]

GiveUp(j) ==
  /\ state[j] = "held"
  /\ state' = [state EXCEPT ![j] = "failed"]
  /\ owners' = [owners EXCEPT ![j] = {}]
  /\ tries' = [tries EXCEPT ![j] = @ + 1]

CNext ==
  \/ \E j \in Job : Submit(j) \/ Orphan(j) \/ Finish(j) \/ Retry(j) \/ GiveUp(j)
  \/ \E j \in Job, w \in Worker : Take(j, w)
  \/ \E S \in SUBSET Job : Return(S)

CSpec == CInit /\ [][CNext]_cvars
=============================================================================
