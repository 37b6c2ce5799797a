------------------------------- MODULE ChatTurn -------------------------------
(***************************************************************************)
(* The server's side of one chat: the POST handler that generates a turn   *)
(* (apps/web/app/api/chat/[chatId]/route.ts), the stop, reconnect and      *)
(* truncate routes under messages/[messageId], maybeCompact, and the sweep *)
(* at start-up.  Several turns can be under way: a tab that reloads during *)
(* a generation may send again.  One action is the code from one await to  *)
(* the next.                                                               *)
(*                                                                         *)
(* Text is the number of deltas in it.  The order of created_at, shared by *)
(* messages and artifacts, is the position in `timeline`.                  *)
(***************************************************************************)
EXTENDS Naturals, Sequences, FiniteSets, FiniteSetsExt

CONSTANTS
  Turns,             \* POST requests
  Watched,           \* those some client may reconnect to
  Makers,            \* those whose agent makes an artifact
  MaxText,           \* bound: deltas in one answer
  CompactThreshold,  \* COMPACT_THRESHOLD
  KeepRaw,           \* KEEP_RAW
  MaxTruncations,    \* bound: DELETEs of a message
  MaxRestarts,       \* bound: ends of the server process
  MaxFaults          \* bound: failed saves and notifications

ASSUME ChatAssumption ==
  /\ Watched \subseteq Turns /\ Makers \subseteq Turns
  /\ MaxText \in Nat /\ MaxTruncations \in Nat /\ MaxRestarts \in Nat /\ MaxFaults \in Nat
  /\ KeepRaw \in Nat \ {0} /\ CompactThreshold \in Nat /\ KeepRaw <= CompactThreshold

VARIABLES
  timeline,    \* rows of messages and artifacts in the order of created_at
  deleted,     \* positions of those that were deleted
  row,         \* the assistant message of each turn
  boundaries,  \* compaction_boundaries in the order of created_at
  post,        \* what each POST handler is in the middle of
  reconnect,   \* the reconnect stream of each turn
  truncation,  \* the DELETE between its two statements, and how many there were
  restarts,
  faults

vars == <<timeline, deleted, row, boundaries, post, reconnect, truncation, restarts, faults>>

-----------------------------------------------------------------------------
Row   == [status : {"none", "streaming", "done", "error"}, text : 0 .. MaxText]
NoRow == [status |-> "none", text |-> 0]

Statement == {"unsent", "insert answer", "register", "generate", "save", "notify",
              "read messages", "read boundary", "insert boundary",
              "save error", "notify error", "closed", "dead"}

\* said: deltas so far; told: the terminal event sent to the client; seen: the
\* messages maybeCompact has read; fold: those its summary will add to those of
\* the prior boundary, whose messages are prior.
Post == [next : Statement, said : 0 .. MaxText, errored : BOOLEAN, aborted : BOOLEAN,
         told : {"nothing", "end", "error"}, seen : SUBSET Nat, fold : SUBSET Nat,
         prior : SUBSET Nat]

Unsent == [next |-> "unsent", said |-> 0, errored |-> FALSE, aborted |-> FALSE,
           told |-> "nothing", seen |-> {}, fold |-> {}, prior |-> {}]

\* signal: the LISTEN callback has run
Reconnect == [at : {"closed", "listening", "waiting"}, signal : BOOLEAN]

NoStream == [at |-> "closed", signal |-> FALSE]

TypeOK ==
  /\ \A p \in DOMAIN timeline :
       timeline[p] \in [turn : Turns, role : {"user", "assistant", "artifact"}]
  /\ deleted \subseteq DOMAIN timeline
  /\ row \in [Turns -> Row]
  /\ \A b \in DOMAIN boundaries :
       boundaries[b].upTo \in DOMAIN timeline /\ boundaries[b].covers \subseteq DOMAIN timeline
  /\ post \in [Turns -> Post]
  /\ reconnect \in [Turns -> Reconnect]
  /\ truncation \in [from : {0} \cup DOMAIN timeline, count : 0 .. MaxTruncations]
  /\ restarts \in 0 .. MaxRestarts /\ faults \in 0 .. MaxFaults

Init ==
  /\ timeline = <<>> /\ deleted = {}
  /\ row = [n \in Turns |-> NoRow]
  /\ boundaries = <<>>
  /\ post = [n \in Turns |-> Unsent]
  /\ reconnect = [n \in Turns |-> NoStream]
  /\ truncation = [from |-> 0, count |-> 0]
  /\ restarts = 0 /\ faults = 0

-----------------------------------------------------------------------------
Messages == {p \in DOMAIN timeline : timeline[p].role # "artifact"}
Live     == DOMAIN timeline \ deleted
Stored(n) == \E p \in Live : timeline[p] = [turn |-> n, role |-> "assistant"]

\* From the registration of its AbortController to the finally block.
Registered(n) == post[n].next \notin {"unsent", "insert answer", "register", "closed", "dead"}

At(n, s)      == post[n].next = s
Becomes(n, s) == post' = [post EXCEPT ![n].next = s]

\* The handler is over; what it said and told its client is kept to compare with.
Over(n, s, told) == [Unsent EXCEPT !.next = s, !.said = post[n].said, !.told = told]
Ends(n, told)    == post' = [post EXCEPT ![n] = Over(n, "closed", told)]

Create(n, role) == timeline' = Append(timeline, [turn |-> n, role |-> role])

\* UPDATE messages ... WHERE id: touches nothing when the row was deleted.
Write(n, status) ==
  row' = [row EXCEPT ![n] = IF Stored(n) THEN [status |-> status, text |-> post[n].said] ELSE @]

-----------------------------------------------------------------------------
(* POST up to the generation. *)

InsertQuestion(n) ==
  /\ At(n, "unsent")
  /\ Create(n, "user")
  /\ Becomes(n, "insert answer")
  /\ UNCHANGED <<deleted, row, boundaries, reconnect, truncation, restarts, faults>>

InsertAnswer(n) ==
  /\ At(n, "insert answer")
  /\ Create(n, "assistant")
  /\ row' = [row EXCEPT ![n] = [status |-> "streaming", text |-> 0]]
  /\ Becomes(n, "register")
  /\ UNCHANGED <<deleted, boundaries, reconnect, truncation, restarts, faults>>

\* The context cannot be assembled: a 500, and the question stays unanswered.
RequestFails(n) ==
  /\ At(n, "insert answer")
  /\ Ends(n, "nothing")
  /\ UNCHANGED <<timeline, deleted, row, boundaries, reconnect, truncation, restarts, faults>>

\* The row is there for others to see before its controller is registered.
Register(n) ==
  /\ At(n, "register")
  /\ Becomes(n, "generate")
  /\ UNCHANGED <<timeline, deleted, row, boundaries, reconnect, truncation, restarts, faults>>

-----------------------------------------------------------------------------
(* runAgentLoop *)

\* A delta; those already received can come after an abort.
Say(n) ==
  /\ At(n, "generate") /\ post[n].said < MaxText
  /\ post' = [post EXCEPT ![n].said = @ + 1]
  /\ UNCHANGED <<timeline, deleted, row, boundaries, reconnect, truncation, restarts, faults>>

\* persistArtifact inserts with the chat's id alone.  Bounds: one a chat, in
\* the turn that opens it, before the deltas (nobody sees those until the save).
PersistArtifact(n) ==
  /\ n \in Makers /\ At(n, "generate") /\ post[n].said = 0
  /\ Len(timeline) = 2
  /\ Create(n, "artifact")
  /\ UNCHANGED <<deleted, row, boundaries, post, reconnect, truncation, restarts, faults>>

\* The loop ends well, yields an error event, or throws.  An abort rejects the
\* provider's pending read, or its next request, so it never ends well after one.
LoopEnds(n) ==
  /\ At(n, "generate")
  /\ \/ ~post[n].aborted /\ Becomes(n, "save")
     \/ post' = [post EXCEPT ![n].next = "save", ![n].errored = TRUE, ![n].told = "error"]
     \/ Becomes(n, "save error")
  /\ UNCHANGED <<timeline, deleted, row, boundaries, reconnect, truncation, restarts, faults>>

-----------------------------------------------------------------------------
(* POST from the end of the generation. *)

Save(n) ==
  /\ At(n, "save")
  /\ Write(n, IF post[n].errored THEN "error" ELSE "done")
  /\ Becomes(n, "notify")
  /\ UNCHANGED <<timeline, deleted, boundaries, reconnect, truncation, restarts, faults>>

Hears(n) == reconnect[n].at \in {"listening", "waiting"}

Wake(n) == reconnect' = [reconnect EXCEPT ![n].signal = @ \/ Hears(n)]

\* NOTIFY, and message_end after it when there was no error.
Notify(n) ==
  /\ At(n, "notify")
  /\ Wake(n)
  /\ IF post[n].errored THEN Ends(n, "error")
     ELSE post' = [post EXCEPT ![n].next = "read messages", ![n].told = "end"]
  /\ UNCHANGED <<timeline, deleted, row, boundaries, truncation, restarts, faults>>

TryFails(n) ==
  /\ post[n].next \in {"save", "notify"} /\ faults < MaxFaults
  /\ Becomes(n, "save error")
  /\ faults' = faults + 1
  /\ UNCHANGED <<timeline, deleted, row, boundaries, reconnect, truncation, restarts>>

\* Mutant of SaveError: saves and notifies no one.
SaveErrorOnly(n) ==
  /\ At(n, "save error")
  /\ Write(n, "error")
  /\ Ends(n, "error")
  /\ UNCHANGED <<timeline, deleted, boundaries, reconnect, truncation, restarts, faults>>

\* The catch block.
SaveError(n) ==
  /\ At(n, "save error")
  /\ Write(n, "error")
  /\ Becomes(n, "notify error")
  /\ UNCHANGED <<timeline, deleted, boundaries, reconnect, truncation, restarts, faults>>

NotifyError(n) ==
  /\ At(n, "notify error")
  /\ Wake(n)
  /\ Ends(n, "error")
  /\ UNCHANGED <<timeline, deleted, row, boundaries, truncation, restarts, faults>>

CatchFails(n) ==
  /\ post[n].next \in {"save error", "notify error"} /\ faults < MaxFaults
  /\ Ends(n, "error")
  /\ faults' = faults + 1
  /\ UNCHANGED <<timeline, deleted, row, boundaries, reconnect, truncation, restarts>>

-----------------------------------------------------------------------------
(* maybeCompact *)

ReadMessages(n) ==
  /\ At(n, "read messages")
  /\ post' = [post EXCEPT ![n].next = "read boundary", ![n].seen = Messages \cap Live]
  /\ UNCHANGED <<timeline, deleted, row, boundaries, reconnect, truncation, restarts, faults>>

\* A boundary goes with the message it points to (ON DELETE CASCADE).
LiveBoundaries == {b \in DOMAIN boundaries : boundaries[b].upTo \in Live}

\* Mutant of Uncompacted: slices after the message that follows the boundary.
UncompactedAfterNext(seen, prior) ==
  IF prior # {} /\ boundaries[Max(prior)].upTo \in seen
  THEN {p \in seen : p > boundaries[Max(prior)].upTo + 1} ELSE seen

\* The slice after the newest boundary; findIndex gives -1 for one that points
\* to a message that was not read.
Uncompacted(seen, prior) ==
  IF prior # {} /\ boundaries[Max(prior)].upTo \in seen
  THEN {p \in seen : p > boundaries[Max(prior)].upTo} ELSE seen

AllButLast(S, k) == {p \in S : Cardinality({q \in S : p < q}) >= k}

\* The newest boundary, the decision, and the call of the summariser after it.
ReadBoundary(n) ==
  /\ At(n, "read boundary")
  /\ LET raw == Uncompacted(post[n].seen, LiveBoundaries) IN
     IF Cardinality(raw) <= CompactThreshold THEN Ends(n, "end")
     ELSE post' = [post EXCEPT ![n] = [@ EXCEPT
            !.next = "insert boundary", !.fold = AllButLast(raw, KeepRaw),
            !.prior = IF LiveBoundaries = {} THEN {}
                      ELSE boundaries[Max(LiveBoundaries)].covers]]
  /\ UNCHANGED <<timeline, deleted, row, boundaries, reconnect, truncation, restarts, faults>>

\* The foreign key refuses a boundary whose message was deleted.
InsertBoundary(n) ==
  /\ At(n, "insert boundary")
  /\ boundaries' = IF Max(post[n].fold) \in Live
                   THEN Append(boundaries, [upTo |-> Max(post[n].fold),
                                            covers |-> post[n].fold \cup post[n].prior])
                   ELSE boundaries
  /\ Ends(n, "end")
  /\ UNCHANGED <<timeline, deleted, row, reconnect, truncation, restarts, faults>>

\* Mutant of PostProcessingFails: no try of its own around it.
PostProcessingThrows(n) ==
  /\ post[n].next \in {"read messages", "read boundary", "insert boundary"}
  /\ Becomes(n, "save error")
  /\ UNCHANGED <<timeline, deleted, row, boundaries, reconnect, truncation, restarts, faults>>

\* Title or summary fails: caught, and the turn stays as it ended.
PostProcessingFails(n) ==
  /\ post[n].next \in {"read messages", "read boundary", "insert boundary"}
  /\ Ends(n, "end")
  /\ UNCHANGED <<timeline, deleted, row, boundaries, reconnect, truncation, restarts, faults>>

-----------------------------------------------------------------------------
(* The routes of a message. *)

\* POST stop
Stop(n) ==
  /\ Stored(n) /\ Registered(n) /\ ~post[n].aborted
  /\ post' = [post EXCEPT ![n].aborted = TRUE]
  /\ UNCHANGED <<timeline, deleted, row, boundaries, reconnect, truncation, restarts, faults>>

\* GET stream: LISTEN is confirmed before the first read.
Listen(n) ==
  /\ n \in Watched /\ Stored(n) /\ ~Hears(n)
  /\ reconnect' = [reconnect EXCEPT ![n] = [at |-> "listening", signal |-> FALSE]]
  /\ UNCHANGED <<timeline, deleted, row, boundaries, post, truncation, restarts, faults>>

ReadStatus(n) ==
  /\ reconnect[n].at = "listening"
  /\ reconnect' = [reconnect EXCEPT ![n] =
                     IF Stored(n) /\ row[n].status = "streaming"
                     THEN [@ EXCEPT !.at = "waiting"] ELSE NoStream]
  /\ UNCHANGED <<timeline, deleted, row, boundaries, post, truncation, restarts, faults>>

ReadOutcome(n) ==
  /\ reconnect[n].at = "waiting" /\ reconnect[n].signal
  /\ reconnect' = [reconnect EXCEPT ![n] = NoStream]
  /\ UNCHANGED <<timeline, deleted, row, boundaries, post, truncation, restarts, faults>>

\* DELETE: the messages at or after this one, then the artifacts.
DeleteMessages(p) ==
  /\ truncation.from = 0 /\ truncation.count < MaxTruncations
  /\ p \in Messages \cap Live
  /\ deleted' = deleted \cup {q \in Messages : q >= p}
  /\ truncation' = [from |-> p, count |-> truncation.count + 1]
  /\ UNCHANGED <<timeline, boundaries, post, reconnect, restarts, faults>>
  /\ row' = [n \in Turns |-> IF Stored(n)' THEN row[n] ELSE NoRow]

DeleteArtifacts ==
  /\ truncation.from # 0
  /\ deleted' = deleted \cup {q \in DOMAIN timeline \ Messages : q >= truncation.from}
  /\ truncation' = [truncation EXCEPT !.from = 0]
  /\ UNCHANGED <<timeline, row, boundaries, post, reconnect, restarts, faults>>

-----------------------------------------------------------------------------
\* Mutant of Swept: sweeps nothing.
Unswept(r) == r

\* Mutant of Swept: writes a status the enum does not have.
SweptAs(r) == IF r.status = "streaming" THEN [r EXCEPT !.status = "interrupted"] ELSE r

Swept(r) == IF r.status = "streaming" THEN [r EXCEPT !.status = "error"] ELSE r

\* The process ends, and the next one sweeps before it serves anything.  Every
\* connection breaks.
Restart ==
  /\ restarts < MaxRestarts
  /\ post' = [n \in Turns |-> IF post[n].next \in {"unsent", "closed"} THEN post[n]
                              ELSE Over(n, "dead", post[n].told)]
  /\ reconnect' = [n \in Turns |-> NoStream]
  /\ row' = [n \in Turns |-> Swept(row[n])]
  /\ truncation' = [truncation EXCEPT !.from = 0]
  /\ restarts' = restarts + 1
  /\ UNCHANGED <<timeline, deleted, boundaries, faults>>

-----------------------------------------------------------------------------
Generate(n) ==
  \/ InsertAnswer(n) \/ Register(n) \/ Say(n) \/ LoopEnds(n)
  \/ Save(n) \/ Notify(n) \/ SaveError(n) \/ NotifyError(n)
  \/ ReadMessages(n) \/ ReadBoundary(n) \/ InsertBoundary(n) \/ PostProcessingFails(n)

Answer(n) == ReadStatus(n) \/ ReadOutcome(n)

\* All but the reconnect streams, which change no message.
Serve ==
  \/ \E n \in Turns : \/ InsertQuestion(n) \/ RequestFails(n) \/ Generate(n)
                      \/ PersistArtifact(n) \/ TryFails(n) \/ CatchFails(n) \/ Stop(n)
  \/ \E p \in DOMAIN timeline : DeleteMessages(p)
  \/ DeleteArtifacts
  \/ Restart

Next == Serve \/ \E n \in Turns : Listen(n) \/ Answer(n)

ServeSpec == Init /\ [][Serve]_vars

Spec == Init /\ [][Next]_vars

-----------------------------------------------------------------------------
(* Properties. *)

\* A client that was told message_end finds that answer, done and whole, on every
\* later load, whatever fails after it (route.ts:203-206), restarts included.
EndIsDurable ==
  \A n \in Turns : post[n].told = "end" /\ Stored(n) =>
    row[n] = [status |-> "done", text |-> post[n].said]

\* A message is left streaming only while something will settle it: the spinner
\* of a reload always resolves (startup-sweep.ts:5-13).  One database failure in
\* the catch block breaks it until the next restart.
NoOrphanStream ==
  \A n \in Turns : Stored(n) /\ row[n].status = "streaming" =>
    post[n].next \notin {"unsent", "closed", "dead"}

\* The summary of a boundary accounts for every message up to it, however many
\* turns compact at once and whatever is truncated meanwhile (compaction.ts:4-5).
SummariesReachBack ==
  \A b \in LiveBoundaries :
    {p \in Messages \cap Live : p <= boundaries[b].upTo} \subseteq boundaries[b].covers

\* A reconnect stream always ends: a completion between LISTEN and the read, or a
\* truncation meanwhile, is not missed (stream/route.ts:76-78).
ReconnectsEnd == \A n \in Turns : reconnect[n].at # "closed" ~> reconnect[n].at = "closed"
=============================================================================
