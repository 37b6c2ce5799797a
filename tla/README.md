# A verification development for Mola

Mola is a tutoring application: a student talks to a tutor that knows the
student's calendar, course material and plan, and works with it on a canvas. This
directory holds TLA+ models of the parts of Mola that hold shared state under
concurrency and failure, TLC configurations that check them on small instances,
and TLAPS proofs of their safety properties for every value of the constants.

Paths below are relative to the repository's root. `apps/web` is abbreviated
`web`, `apps/ingest/ingest` is `ingest`.

## 1. The system

Four programs share one PostgreSQL database and one object store.

* **web** (Next.js): pages and API routes. It holds little state in memory: the
  registry of running generations, and whatever a request carries across an await.
* **the TypeScript worker** (`web/scripts/worker.ts`): a loop around
  `runDueJobs`. The same function is also called by `after()` on page loads, so
  *any number* of worker loops run at the same time.
* **the Python ingest worker** (`ingest/worker.py`): polls the same `jobs` table.
* **the iPad app** (`apps/ipad`): a Swift client of the same API.

Two facts about the code decide what can go wrong. First, the web code runs on
Drizzle with one statement per `await` and, with few exceptions (`amendPlan` is
one), without a transaction: any other request or job can run between two
statements of a handler. Second, the ingest worker calls `conn.commit()` after
every write, so each of its writes survives a crash and the next one may never
happen.

### Components

| component | state | operations | interacts with |
|---|---|---|---|
| Job queue: `web/lib/jobs`, `ingest/jobs.py`, `ingest/worker.py` | table `jobs` (status, attempts, locked_at, run_after) | enqueueJob, reclaimStaleJobs, claimOne, runOne; claim_job, mark_done, mark_failed, run_once | every background activity |
| Planning lifecycle: `web/lib/planning/lifecycle.ts` | `plans`, `plan_amendments`, `tasks` | proposePlan, acceptPlan, amendPlan, resyncTasks, updateTask, createTask | jobs propose, the student accepts, retrieval reads the plan in force |
| Planning cadence and review: `cadence.ts`, `generate.ts`, `review.ts` | none of its own | which period, which job to enqueue, the model call that fills a payload | queue, lifecycle |
| Ingest pipeline: `ingest/pipeline.py`, `s3.py`, `policy.py`, `sniff.py`, `scanner.py`, `db.py` | `documents`, `document_chunks`, three buckets | process_document | the upload hand-off of web, queue, object store, scanner, embedder |
| Textbook chapter tree: `ingest/chapters.py`, `toc.py` | `textbook_chapters`, `toc_status` | process_toc_detection, process_chapter_fill | pipeline, queue |
| Text extraction and embedding | none | extract, chunk, embed | pipeline |
| Chat generation: `web/app/api/chat`, `web/lib/chat` | `messages`, the generation registry, LISTEN/NOTIFY | POST, GET, stream, stop, delete (truncate), startup sweep, compaction | agent loop, the chat tab |
| Chat tab: `web/components/chat/ChatMain.tsx` | the turns shown, a cached and a fetched history, the reader of `send`, reconnect streams | send, stop, leave, return, reload, retry | chat generation |
| Agent loop and tools: `web/lib/agent` | none across turns | a bounded loop of model calls and tools | every component, through tools |
| Retrieval: `web/lib/agent/retrieval` | none | queries over chunks | documents |
| Calendar sync: `web/lib/calendar`, `web/app/api/calendar` | `calendar_sources`, `schedule_items`, sync tokens, watch channels | connect, add feed, sync, push notification, watch renewal, check-off, remove | queue, Google, ICS feeds |
| Canvas: `web/lib/canvas`, `web/components/chat/CanvasView.tsx`, `canvas/useCanvasChat.ts` | the board and its version, `canvas_ai_edits`, the edit log, the page's save serializer | save, sync the log, ask, place a note, open, hide, leave | the canvas's own chat |
| Handwriting recognition | none | geometry on strokes | canvas |
| Flashcards and spaced repetition: `web/lib/flashcards`, the deck's three components, `lib/agent/srs.ts` | the deck's payload, `flashcards`, `card_srs_state`, the Learn queue | create, edit, learn, grade, review from chat | chat |
| Quizzes: `web/lib/quizzes`, `QuizStudyView.tsx` | the quiz's payload, `quiz_attempts`, the page's answers | answer, submit, grade, retake, rewrite | chat |
| Context assembly, authentication, model providers, user interface, iPad app, evaluations | (see `PROJECT.json`) | | |

### What is hard, and what correctness means

* *Queue.* Two kinds of workers written in two languages share a table; a worker
  may die at any await, and a worker that is only slow looks dead after
  `STALE_RUNNING_MS`. Correct means: one worker per row, a bounded number of
  tries, no row lost, and no more live rows of a (user, kind) than there are callers that race.
* *Plans.* Three ways into the same rows (request, second device, job), with a
  model call of many seconds between deciding to propose and reading the rows.
  Correct means: only the student adopts a plan; what was agreed stays agreed;
  what was ticked stays ticked; the task list and the log follow the plan.
* *Ingest.* Every step is committed on its own and the whole is retried, so every
  prefix of the pipeline is a state to restart from, while another worker
  deduplicates against that state. Correct means: bytes are never lost; the quota
  holds; `ready` means what its readers think; a book becomes ready once, when
  its last chapter is filled by any of several workers.
* *Chat.* The client may leave, come back, stop and truncate while a generation
  runs, and turns may overlap. Correct means: an answer announced as finished is
  there on every later load; no turn looks as if it were still generating when it
  is not; a reconnecting client always learns the end; compaction loses nothing.
* *Chat tab.* A cached history, a fetched one, a `send` that goes on reading and
  reconnect streams all write the same list of turns. Correct means: whatever is shown
  as being generated is attached to something that will settle it.
* *Calendar.* A sync is a list followed by many writes, and may die, be retried, or have
  its source removed under it; renewals of a channel overlap. Correct means: the
  token never overtakes the rows; a check-off is not lost to a sync; the channel the row
  names is the one that is open; a sync that was asked for happens or says it failed.
* *Canvas.* A page saves after a pause, on leaving and before a question, and keeps the
  tutor's notes until a save acknowledges them; another page does the same. Correct
  means: no save overwrites another's work, a conflict is a real one, the edit log tells
  every change once, and the tutor sees what the student sees.
* *Study.* A deck is three copies of the same cards, and a quiz is graded against rows
  another page may have rewritten. Correct means: the copies agree once a save is
  through, a missed card comes back, and credit goes to the question that was answered.

The hazards, each at its line, are in `PROJECT.json`; each names the property
that would catch it or says why none does yet.

## 2. Modules

| module | models | form |
|---|---|---|
| `JobQueue` | the `jobs` table, both workers, enqueueing requests, the clock | state machine |
| `JobContract` | what the queue promises about one job, seen from outside | abstract state machine; `JobQueue` implements it (`KeepsContract`) |
| `JobQueueProofs` | theorems on `JobQueue` | TLAPS |
| `PlanLifecycle` | propose, accept, amend, resync, check-off, and the jobs that propose | state machine |
| `IngestPipeline` | hand-off, `process_document`, `process_toc_detection`, `process_chapter_fill` | state machine |
| `ChatTurn` | POST of a turn, the generation registry, stop, stream, truncation, compaction, the start-up sweep | state machine |
| `ChatTab` | `ChatMain` on one chat | state machine composed with `ChatTurn` (EXTENDS) |
| `CalendarSync` | one calendar: the provider, the sync, the channel and its renewal, connecting and removing | state machine |
| `CanvasBoard` | one board on several pages: saves, the tutor's notes, the edit log, questions | state machine |
| `FlashcardDeck` | one deck: its creation, the editor's saves, the Learn session, the grades | state machine |
| `QuizPage` | one quiz on several pages: answers, grading, edits | state machine |
| `Sublists` | `Array.filter` without recursion, for the deck and the quiz | operators |
| `PlanLifecycleProofs`, `IngestPipelineProofs`, `ChatTurnProofs`, `CalendarSyncProofs`, `CanvasBoardProofs`, `StudyProofs` | theorems on the module of that name, `StudyProofs` on the deck and the quiz | TLAPS |
| `SetLemmas` | lemmas on finite sets of numbers | TLAPS |
| `MCJobQueue`, `MCPlanLifecycle`, `MCIngestPipeline`, `MCChatTurn`, `MCChatTab`, `MCCalendarSync`, `MCCanvasBoard`, `MCStudy` | instances for TLC; `MCStudy` puts `FlashcardDeck` and `QuizPage` side by side | |

### How the models correspond to the code

**The step.** One action is the code from one await to the next: one SQL
statement (or one transaction) with the local steps around it. What a process
remembers across an await is its *frame*: the next statement and the values it
has read (`worker` in `JobQueue`, `frame` in the next two, `post` in `ChatTurn`,
`sync` and `watch` in `CalendarSync`, `call` in `FlashcardDeck`, the fields of a page in `CanvasBoard`). A value in a frame can
be stale when it is used; that is the point. For each await there is an
action that lets the process die there (`Crash`, `Die`, `Restart`, `CallFails`, `SaveDies`, `SaveFails`).

**`JobQueue`.** `jobs` is the table; a row's id is its `created_at` order.
Timestamps are reduced to what the code compares them with: `lock` is fresh or
stale (older than `STALE_RUNNING_MS`), `due` says whether `run_after` has come,
and `before` orders the due rows by `run_after`. `EnqueueCheck` and
`EnqueueInsert` are the two statements of `enqueueJob`; `IngestInsert` the
unchecked insert of the ingest kinds; `ReclaimStaleJobs`, `ClaimOne`, `RunOk`,
`RunFail` are `runDueJobs` and its parts. The branch for a kind without a handler (`worker.ts:68-74`) is dead code and left
out: `claimOne` takes `CALENDAR_JOB_KINDS` only, and each of them has one. `ScheduleNextSweep` and `InsertNextSweep`
are the one handler that uses the queue itself, the watch renewal, which calls
`enqueueJob` while its own row is still running. `PyClaim`, `PyDone` and `PyFail`
are `run_once`, including the KeyError that leaves a calendar row running when
the Python worker claims one. A handler's work on other tables is not here.

`SlowHandlers` separates the two readings of the stale timeout. `FALSE`: a lock
becomes stale only when no worker holds the row, the reading the comment at
`worker.ts:4-7` needs. `TRUE`: a live handler may outlast it; nothing in the code
prevents that.

**`PlanLifecycle`.** One student and one (horizon, period): queries on `plans`
never leave them, except `resyncTasks`, whose condition is described below.
A payload is its set of item ids, because ids are a hash of an item's content
and the code compares nothing else. An item added by hand may be there twice, and a removal takes one copy: `Amended` gives both
outcomes for an item that was ever added so (`ByHand`), and nothing else of copies is kept. `Amend` is a call with one
amendment of the list `amendPlan` takes; an action on an item that is not there throws. `RunJob` is `plan_week_propose` (for the
week: only when there is no current plan) or the re-proposal of
`plan_week_review` (for the semester: always). `Propose`/`RunJob` ... model call ...
`ReadExisting` ... `ReplaceProposal`/`InsertProposal` is `proposePlan`;
`Approve`, `MaterialiseTasks`, `RetireOthers` are the three statements of
`acceptPlan`; `Amend`, `RewritePayload`, `RematerialiseTasks`, `PruneTasks` are
`amendPlan` with `resyncTasks`; `UpdateTask`, `LogCheckOff` are `updateTask`, which logs "completed" or "skipped" in a second statement and leaves the payload
as it is. `by` is the function that inserted a log entry; the code's rows differ in `before` and `after`.
`PruneSelects` is the DELETE's condition *as PostgreSQL groups it*:
Drizzle's `and(...)` joins its arguments with ` and ` and leaves a raw
fragment without parentheses, so the `or` inside it binds last.
`InForce` is the set `getApprovedPlanRow` chooses from, so that no property rests on its order; `accepted` is the set of
plan rows whose `approved_at` is set. `Scenarios` gives the
bounds of an initial state, so one run holds several small situations: the devices and jobs at work, and whether payloads are
written one at a time (`serial`, which keeps `OneWriter` in each step). Nothing in the code sees to that; it says when the
log can be trusted.

**`IngestPipeline`.** `doc` is the documents row, `objects` the buckets that hold
the upload's object, `chapters` the chapter rows, `jobs` the queue reduced to
what `JobQueue` shows of it (one worker per row; a row without a worker becomes
pending again). A file is one of a few kinds, by what sniffing, policy, scanner and
extractor say of it; "corrupt" is one whose extraction raises (`ExtractFails`), as a PDF does that is encrypted or broken. `Used`, the sum of the sizes that `user_storage_bytes` reads, is the number of the bytes; two uploads with the same content have the same hash. The
statements of the three handlers are the members of `Statement`, in code order; "resume" is the download of a document a retry
finds past its scan. Any call of a service may fail (`CallFails`). `Reclaim` returns a row no worker holds, whatever the age of its lock: a
worker that outlasts the timeout is `JobQueue`'s subject (`SlowHandlers`).
A unique violation aborts the connection's transaction so that `mark_failed`
raises too; both are `Abandon`, which leaves the row running.

**`ChatTurn`.** One chat. A turn is one POST with its user message, its assistant
message (`row`) and what its agent makes. `timeline` lists messages and artifacts in
the order of `created_at`, because truncation and compaction compare nothing else;
a text is the number of its deltas. `post[n].next` is the statement the handler of
turn `n` is about to execute: the two inserts, the registration of its
AbortController, the generation (`Say`, `PersistArtifact`, `LoopEnds`: the three ways
`runAgentLoop` ends), `Save` and `Notify`, the statements of `maybeCompact`, and the
catch block (`SaveError`, `NotifyError`). `post[n].told` is the terminal event its
client was sent. The registry is the set of turns between `Register` and the
`finally` block, so it needs no variable; it lives in the process, and `Restart` empties
it. `Listen`, `ReadStatus`, `ReadOutcome` are the reconnect stream: a NOTIFY reaches the
streams that listen at that moment (`Wake`). `DeleteMessages` and `DeleteArtifacts` are the
two statements of the truncation; a boundary goes with its message (the foreign
key's cascade). A write to a deleted row touches nothing, which is how a generation
outlives its turn. Several turns may be under way: nothing on the server prevents a
second tab from posting.

**`ChatTab`.** The tab's list of turns (`view`), its cached history, the fetch in flight,
the reader of a `send` and the reconnect of each turn, as `ChatMain` keeps them in
state and refs, over the whole of `ChatTurn`. A turn is shown under a local id until
`message_start` names it, and `patchTurn` finds it by that id, so a reader can settle a turn that is no
longer there: `Patched`. `Hydrate` is what a history does to the list (it replaces it and attaches
to what it says is streaming, `Attached`, unless the turn is live or already attached). A reader takes `message_end` once
(`ReadEnd`, then `ended`), and the close of its stream takes the turn off the live ones and patches nothing (`StreamCloses`). A
reconnect patches (`AnswerArrives`) and then closes. `late` marks a turn that a history puts back to streaming between the reader's `message_end` and
the close of its stream; no action reads it. `Leave`, `Return`, `Reload` are
the changes of `chatId` and of the document; a fetch whose answer comes after the student left is dropped (`Asked`,
`HistoryArrives`), a reader's is not. The text of a turn is not in the model.

**`CalendarSync`.** A change of the provider is a number, which serves as the
event's content, its `updated` stamp and its place in what a token has listed. A sync token is the last
change it covers. `sync` is one run of the handler: list by token, or, when the provider says 410, drop
the token and list all (`ListChanges`, `DropToken`, `ListAll`), read the rows, apply each live
event, each cancelled one, remove the missing (`RemoveMissing`, full lists only), save the
token, mark the source. `Skipped` is `unchangedSince`, which compares the stamps. `watch` is `ensureWatchChannel` for
its two callers, the sweep and the OAuth callback, each with the channel it read; `Release` and `Remove` are the two
awaits of the DELETE. The queue is one row of the sync's kind. `MayAge` are events that can fall out of the 120
days a full list covers.

**`CanvasBoard`.** An element of the board only ever goes forward (put there, changed, taken
away), so "older" and "newer" are numbers and a property can say that nothing went back. A page has what
`CanvasView` keeps: the board, the version it expects, the timer of `scheduleSave`, the save in flight and whether another
is to follow (`saveQueue.ts`), the notes it took and has not saved, and what `useCanvasChat` waits for. `WriteBoard` is the
compare-and-swap with the acknowledgements in its transaction; `Synced` is `syncEditLog` (merge, order, undo of an entry); `Post`
is the transaction of a question; `Place` records a note and offers it to the page that reads. `Hide`, `Leave`, `Close` are the
effects that save without waiting.

**`FlashcardDeck`, `QuizPage`.** A card is its id and its term; what else it carries no statement compares. The deck is in
`deck` (the artifact's payload), `rows` and `srs`, written statement by statement by `updateDeckCardsAction`, the maker of the deck,
`recordLearnGradeAction` and the `record_flashcard_review` tool, all of which may interleave. `Requeued` is `requeue` for every
place its random number can choose. `srs` counts reviews. In `QuizPage` a question has its prompt, its options and the number of the correct one; the
editor adds, removes and moves questions, adds, removes, retypes and marks options, and retypes prompts. `RemoveOption` renumbers as the page does.
Typed texts are told apart by what they say, and a row with something left to fill in is not saved. A question keeps a topic from the moment its row is
added, to say which question an answer was meant for, and a page keeps the options the student saw (`chosen`); the program has neither and no action reads
them.

`maybeCompact` is exact about what it has read when: the messages, then the newest
boundary, then minutes of summarising, then the insert. A boundary's summary is the
set of messages it accounts for, its own and those of the boundary it was given.

## 3. The runs

| run | question | size |
|---|---|---|
| `queue` | do two TypeScript loops, a Python worker and two requests, with a crash, keep one worker per row, the retry budget and no more rows than racing callers, and implement `JobContract`? | 3 rows, 2 attempts; 318,212 states |
| `queue_overlap` | with handlers that outlast the timeout, a Python worker that takes any row, a request and a crash, does every row still end? | 2 rows, 2 attempts; 96,072 states |
| `plan` | with a job proposing while the student answers and a death between any two statements, or with longer sequences of the student's own: does only the student adopt, does an agreed plan stay in force, is there one open proposal, does the task list follow? With payloads written one at a time, by two devices or by a device and a job: is every removal `amendPlan` logged done? | 2 plan rows; job with 1 item, 1 edit, 1 death; no job with 1 item, 2 edits or 2 items, 1 edit; two devices with 2 items, 2 edits; 2,836,171 states |
| `ingest` | two uploads, two workers, one crash or failed call anywhere: bytes, quota, text of a ready document, a book not ready early | 2 uploads, 5 contents, 2 chapters; 1,094,450 states |
| `ingest_tree` | three workers on one upload without failures of a service: does some worker see that the last chapter is done, does every upload settle, or its job fail for good when its text cannot be extracted? | 1 upload, 5 contents, 3 chapters; 7,693 states |
| `chat` | two turns at once, a stop, a truncation, a restart and one failed write anywhere: does an answer announced as finished stay done and whole; does a summary ever leave a message out? | 2 turns, 1 delta, 1 artifact (in the turn that opens the chat), threshold 1 |
| `chat_live` | with the tab that shows the turn, reconnects, a stop, a truncation and a restart but a working database: is a streaming row always somebody's, does every reconnect stream end, does every spinner resolve but that of a late history? | 1 turn, 1 restart, 1 truncation; 245,325 states |
| `calendar` | with syncs, expired tokens, lapsing channels, renewals, removals, failed calls and crashes: does the token stay behind the rows, does a check-off survive, does a source stay reachable, does a requested sync end? | 2 events; four scenarios |
| `canvas` | with pages hidden, left and reopened and a lost request: are conflicts real, does the log tell each change, do saves go forward, is the question about the board the student sees, are edits saved? | 2 pages, 1 stroke, 1 note; six scenarios |
| `study` | with a deck edited, learnt and reviewed at once, and a quiz answered while its questions and options are rewritten: does a save repair, does a missed card come back, is credit for the question that was answered? | 2 pages; 3 deck and 4 quiz scenarios; 925,761 states |
| `plan_resync`, `study_ids` | disagreements, see below | |

**Why the bounds are enough.** The queue's properties concern two workers and a
row, or two requests of one kind between their two statements; 3 rows give
two kinds and a second row of a kind, which a third call must not follow, 2 attempts give one retry and one last
failure. In `queue_overlap` one request is enough for two rows, and the sweep inserts a third kind of one. In `PlanLifecycle` two rows are a plan and its rival: every statement
touches one row or "all others". Two edits give an edit and its reversal. In
`IngestPipeline` two uploads are an original and its duplicate, and any single
failure can fall between any two of the statements; two attempts let a job
resume from every prefix. Quota 2 is filled by one "large" upload, or by two small ones. The
book run has three chapters and three workers because the hazard is in the last
two finishing together while a third is done. In `chat` two turns are four messages;
with a threshold of 1 and one message kept raw, both turns compact, and the second boundary
can be written before, after or between the statements of the first, or over a truncation.
The program's own values (16 and 8, `compaction.ts`) only make the same order of events rarer.
`chat_live` asks about one turn, which no other turn of the tab touches except through the history
that holds both; no text or artifact is generated in it, because no property of it reads one.

`calendar` starts from one of four scenarios, each with room for one aspect: `GoogleFeed` (three changes, a
token that expires, a fault), `GooglePush` (three channels, so that two renewals overlap and a third follows),
`GoogleTwice` (a source removed and connected again under a running sync, with a fault) and `IcsFeed` (the same for a
feed without tokens). Two events are one that changes and one that is or is not in the same list; one of them may age.
`canvas` has `Alone` (three gestures and a question on one page), `Asking` (two of each), `Slip` (a request of it is lost), `Away` (it is left
while the tutor replies), `Aside` (two pages, one hidden) and `Apart` (two pages, one left, and a note nobody took). A
stroke and a note are enough because every statement handles elements one by one, except that a save carries the whole
board. `study` has `Editing` (two pages save, from the deck's creation on, with a death), `Studying` (one page learns
and edits while the chat reviews a card) and `Learning` (one session to the end), and for the quiz `Answering` (two questions, one of three options, one edit), `Rewriting` (two edits beside an answer), `Retyping` (a
short answer and texts typed over) and `Authoring` (an empty quiz gets a question on one page and is taken on another). `typed` is what may be typed, `adds` the rows and
options added; three options stand for the editor's six, because removing one needs a third and the others only move further. Deck and
quiz share no variable, so an initial state has room for one of them only.

**Bounds.** `MaxJobs`, `MaxCrashes`, `MaxPlans`, `MaxFaults`, `MaxText`, `MaxTruncations`, `MaxRestarts`, `MaxIds`,
`MaxQuestions`, `MaxOptions` and the fields of `Scenarios` (rows, edits, deaths, changes, channels, gestures, asks, grades ...) cap counters the code does not cap. `MaxAttempts` and `Quota` are the program's
own. In `ingest_tree` `MaxJobs` is larger than the number of rows one book can
cause, so no insert waits for room. In `queue_overlap` the table can fill up; a
sweep that then waits to insert its successor holds a row that has already ended.

**Fairness.** `JobQueue!FairSpec`: each TypeScript loop and each Python worker is
weakly fair, because the loops poll forever and a handler returns (each outbound
call has a timeout); time passes (`ComeDue`, `LockAges`). A death is not fair but
bounded, and the process manager restarts the loop. `IngestPipeline!FairSpec`
is the same for ingest workers and for the reclaiming loop. No request is fair: a
student's browser may close between any two statements. `ChatTab!TabFairSpec`: a generation
does not depend on its client (`route.ts:113-118`) and its calls return or time out, so each
turn is weakly fair once posted, and so are the server's side of a reconnect stream and the handlers of an open tab
(`TabStep`: what arrived is read). Posting, stopping,
truncating, leaving, returning and restarting are not. LISTEN is assumed to stay up: the
model does not drop the listening connection while its process lives. `CalendarSync!FairSpec`: a worker is running and each
call of a sync returns or times out, so `SyncStep` is weakly fair; the provider, the student and the sweep are not.
`CanvasBoard!FairSpec`: on each page timers fire, the server answers what it was sent and the page reads it
(`PageStep`); gestures, questions, opening, hiding and leaving are not fair, and a lost request is a bounded fault.

**Deadlock.** The `ingest*`, `chat*`, `calendar`, `canvas` and `study*` runs set `CHECK_DEADLOCK FALSE`: uploads, turns, changes,
gestures and edits are finite in the model and the system comes to rest when they are settled.

**Symmetry.** Items and devices in `plan`, workers in `ingest`, turns in `chat` and tabs in `study` are interchangeable.
None of these runs has a liveness property; action properties do not depend on the choice of a representative.

### Disagreements between code and text

Each is a run that TLC ends with a counterexample, and a finding in
`PROJECT.json` with the quoted line.

* `plan_resync`: amending an accepted plan deletes completed tasks, of every plan.
* `study_ids`: a card added in the editor gets another id, and loses its scheduling, at every later
  save of the page.

Other disagreements, met while modelling and not given a run:

* The renewal sweep does not re-queue itself: its own row is still `running` when it calls `enqueueJob`
  (`calendar-renew-watch.ts:57-66`), which skips a kind that has a live row (`worker.ts:119-126`), while the header (`:12-14`)
  says "The job re-queues itself". Nothing else enqueues `calendar_renew_watch`, so no sweep starts in the first place;
  `JobQueue` starts with one (`FirstSweepOf`).
* An amended proposal that nobody accepted is what the next horizon is built on: `lifecycle.ts:125` orders by `approved_at`
  descending, and its null sorts first, while `:103-104` says "nothing may be BUILT on a proposal the student has not answered".
* A second upload of a book copies a chapter tree that is still being built, and no job finishes the copy: deduplication takes any
  ready document (`pipeline.py:145`) and a book is ready before its tree (`:190-194`), while `db.py:304-305` says it clones
  "already-built" chapters. `ingest_tree` therefore has one upload.
* `enqueueJob` from two requests at once inserts two rows (`worker.ts:111`
  promises one). `queue` has two requests, and `RowsDoNotPileUp` bounds what comes of it: rows and callers together are never more than
  the callers that race. The theorem `OneRowPerKind` says that without such an overlap crashes, reclaims, retries and the sweep's own
  `enqueueJob` never make a second row.
* The Python worker claims calendar and planning rows: `claim_job` has no kind filter
  (`jobs.py:34`), while `jobs/types.ts:5-8` says it claims only `ingest_document`. Such a
  row has no `documentId`, `worker.py:41` raises outside its try, and the row runs until it
  is stale. `JobQueue` has it (`PyClaim`), in both runs and in every proof. Its attempts do not change then, so a Python worker that takes the row again
  each time it is reclaimed keeps it from ending: `NoJobIsLost` excepts a worker that does so for ever.
* A retry that finds a duplicate keeps its own chunks without vectors and is marked
  ready, because `copy_chunks_from` does nothing on conflict (`db.py:164`), while
  `lib/agent/retrieval/status.ts:7-10` takes ready to mean searchable.
* With `SlowHandlers` two workers run one row (`worker.ts:22-24`).
* Two devices that accept two plans at the same time retire each other's, and none is
  left in force; two amendments at the same time lose one edit and keep its log entry (`lifecycle.ts:328-332` says "never a log entry without its
  edit"). `AgreementSurvives` is claimed for one device, `AmendmentsApplied` while payloads are written one at a time.
* Skipping a task logs "skipped" (`lifecycle.ts:492`), the value with which `amendPlan` removes an item (`payload.ts:80-87`), and leaves
  the item in the payload (against `lifecycle.ts:328-332` and `payload.ts:64-66`). So the log does not tell what was removed; `AmendmentsApplied` is about the
  entries of `amendPlan`. An item added twice and removed once is also logged as gone and still there.
* A job that read an unanswered proposal before its update replaces the payload
  even when the student has accepted or amended it in between (`lifecycle.ts:186-198`); an amendment then stays in the log and is gone from
  the plan. `OneOpenProposal` and `TasksFollowPlan` are claimed where no job is at work, `AmendmentsApplied` where it does not write beside an edit.
* A lost chapter, when it is the last, returns before the count, so its book never
  becomes ready; its job, run again after a death before `mark_done`, takes it from failed back to filling, and another worker that
  had counted by then declares the book ready meanwhile; a fault during table-of-contents detection leaves the tree
  `building`, because the second attempt meets the first attempt's rows
  (`chapters.py:162-164` calls the retry safe). `TreeHasAJob` and `UploadsSettle` are
  therefore checked without faults and without lost chapters.
* A death between the move's delete and the write of `s3_key_safe` leaves nothing
  to scan: the document ends as a failed job with its row at `scanning`, the bytes
  safe (`NoBytesLost`).
* A file whose extraction raises (`extract.py:19-30` at `pipeline.py:155`) ends as a failed job, and its row stays at `extracting`
  (`worker.py:57-60`), for which `status.ts:7-10` has no end. `UploadsSettle` says of such a file that its job ends.
* A death after the last chapter is marked ready and before the count (`chapters.py:194`) leaves the book building: the retry finds the chapter
  ready and returns (`chapters.py:168-169`), while `:162-164` calls that safe. `TreeHasAJob` is checked without crashes.
* A chunk copy from a syllabus marks a textbook `not_applicable`.
* When the catch block of a turn cannot reach the database, its row stays `streaming`
  until the next restart and a stream that waits for it hangs; `startup-sweep.ts:5-9`
  says only a process that died can leave one. `chat_live` therefore has no fault.
* When only the notification fails, a row saved as `done` with the whole answer is
  rewritten as `error`.
* A truncation during a generation leaves what the turn creates afterwards: its answer's
  row, or an artifact (`messages/[messageId]/route.ts:2-6` says every message and artifact
  at or after it is removed).
* A stopped turn is stored as `error`, so a reload shows a failure where the tab that
  stopped it showed none.
* Stop before `message_start` ends the tab's reader only: the generation runs on (`ChatMain.tsx:532-540`).
* The background fetch of a history replaces the turns of a `send` made after it was asked for (`ChatMain.tsx:312-324`); a
  history that already holds an answer is followed by the reconnect stream's, which appends it again; `refetchHistory` (`:369-379`)
  paints the chat it was asked about over whichever is shown by then.
* A history that was read while its turn streamed, and arrives after `message_end` while the title or the compaction holds the stream open
  (`route.ts:201-222`), puts the turn back to streaming. It is not attached because it still counts as live (`ChatMain.tsx:197`), and the close of the
  stream patches nothing (`:428`, `:498-505`): the spinner stays until the next load. The guard is meant for a turn that `send` "is already driving" (`:174-180`).
  `SpinnerResolves` excepts such a turn (`late`).
* A sync that was asked for while one runs is dropped (`worker.ts:119-126`), so a change after that run's list waits for the
  next notification. `RequestedSyncEnds` is about requests made while none runs.
* A renewal stamps a source as synced and active (`google-sync.ts:126`, `sources.ts:59-63`), whatever the last sync said of it.
* A full list goes back 120 days (`google.ts:310-313`) and `removeMissing` deletes what it lacks: when a token expires, older events and their
  check-offs go, which `sync.ts:9-11` does not foresee. `CheckOffSurvives` excepts them.
* Two feeds that list the same UID share one row, the last sync owns it (`schema.ts:485`), and removing that feed deletes it with its check-off. `CalendarSync` has
  one feed.
* Nothing retries a canvas save that failed until the next edit (`CanvasView.tsx:139-160`); one whose answer was lost after it
  committed makes the next one a conflict. `ConflictsAreReal` and `EditsAreSaved` are therefore claimed while no request was lost.
* A page left with an unsaved edit and reopened at once loads the board before that save, and its own first save is then
  told "changed elsewhere". Hiding a page saves an unchanged board and raises its version, so another page of it conflicts.
* Two first messages of a canvas find no chat and create one each (`canvas/[canvasId]/chat/route.ts:100`). `CanvasBoard` has one chat.
* Clearing a term's text for a moment leaves it out of the save, which deletes its card and history
  (`FlashcardDeckEditor.tsx:64-67`); a grade of a card added in the same visit goes to the id `pending-i` and is dropped.
* A deck save that dies between a card's row and its `card_srs_state` is never repaired, and two saves at once leave rows of
  both (`flashcards/actions.ts:147-176`). `SavesRepair` is about a save with none beside it.
* A grade from the Learn session and a review from the chat read the same state and one of them is lost
  (`flashcards/actions.ts:41-72`, `tools/flashcard-review.ts:77-106`).
* A save that ends under a Learn session replaces the cards it has indices into (`FlashcardLearnMode.tsx:96`).
* "Remove option" renumbers options and the correct one (`QuizStudyView.tsx:334-338`) and keeps the question's id, while answers are numbers of options
  (`quizzes/actions.ts:33-37`): an answer given before the edit then counts for another option, and a wrong choice may be credited, on a page that takes the quiz
  meanwhile; stored attempts are read with the new numbers too. Retyping an option in place does the same. `CreditIsForItsQuestion`
  excepts a question whose options changed since they were shown.
* A question whose prompt is emptied for a moment is left out of the save and gets a new id when it is filled in (`QuizStudyView.tsx:239`), so earlier
  answers to it count for nothing.
* A quiz's new questions have no id on the page that added them (`QuizStudyView.tsx:234-239`): answers to two of them share
  one key, and count for neither. The total of an attempt is that of the quiz as it is when graded (`quizzes/actions.ts:71-78`).

## 4. Proofs

Each theorem holds for all values of the constants that satisfy the assumption of its module (`QueueAssumption`,
`PlanAssumption`, `IngestAssumption`, `ChatAssumption`, `CalendarAssumption`, `CanvasAssumption`, `DeckAssumption`,
`QuizAssumption`): any number of workers, devices, pages, turns, events, uploads, chapters, cards, questions, and any bounds on
crashes and failed calls. The assumptions say what kind of value a constant is, that strokes and notes are finite and differ, and
that a value that stands for "none" (`None`, `Nobody`, 0) is none of the others. Three say a little more: `KeepRaw` is at least 1 and at most
`CompactThreshold`, as in `compaction.ts`; a deck's first cards fit below `MaxIds`; a quiz starts with ids that name its questions,
no two of which ask the same.

| theorem | says | also assumes |
|---|---|---|
| `JobQueueProofs!TypeCorrect`, `BudgetHolds` | `TypeOK`, `RetryBudget` | |
| `OneWorkerPerJob` | `NoDoubleProcessing` | `~SlowHandlers` |
| `QueueImplementsContract` | `KeepsContract`, the refinement of `JobContract` | `~SlowHandlers` |
| `RowsAreBounded` | `RowsDoNotPileUp` | `~SlowHandlers` |
| `OneRowPerKind` | `OneLiveRowPerKind`, which no run checks | `~SlowHandlers`, `[]OneCaller` |
| `PlanLifecycleProofs!PlanTypesCorrect`, `OnlyStudentAdopts` | `TypeOK`, `OnlyTheStudentAdopts` | |
| `AgreementKept`, `OneProposalOpen`, `LogIsTrue`, `ListFollowsPlan` | `AgreementSurvives`, `OneOpenProposal`, `AmendmentsApplied`, `TasksFollowPlan` | |
| `IngestPipelineProofs!IngestTypesCorrect`, `BytesAreKept`, `ReadyMeansRead`, `QuotaIsKept` | `TypeOK`, `NoBytesLost`, `ReadyHasText`, `QuotaHolds` | |
| `BooksAreFilled` | `BookReadyWhenFilled` | `LostChapters = {}` |
| `TreesHaveJobs` | `TreeHasAJob` | `MaxFaults = 0`, `LostChapters = {}`, `Distinct` |
| `ChatTurnProofs!ChatTypesCorrect`, `ToldAnswerIsDurable`, `SummariesCoverAll` | `TypeOK`, `EndIsDurable`, `SummariesReachBack` | |
| `StreamsAreSettled` | `NoOrphanStream` | `MaxFaults = 0` |
| `CalendarSyncProofs!CalendarTypesCorrect`, `TokenIsTrue`, `CheckOffKept`, `ListensKept` | `TypeOK`, `TokenMatchesRows`, `CheckOffSurvives`, `ListensOn` | |
| `CanvasBoardProofs!TypesCorrect`, `ConflictsOfOthers`, `NothingGoesBack`, `QuestionsAreOfWhatIsSeen`, `LogIsWhole` | `TypeOK`, `ConflictsAreReal`, `SavesGoForward`, `AskedOnSavedBoard`, `LogTellsEachChange` | |
| `StudyProofs!CreditStays` | `CreditIsForItsQuestion` | |
| `StudyProofs!DeckTypesCorrect`, `MissedReturns`, `SaveRepairs` | `FlashcardDeck`'s `TypeOK`, `MissedComesBack`, `SavesRepair` | |

`PlanInvariant`, `IngestInvariant`, `ChatInvariant`, `CalendarInvariant`, `CanvasInvariant`, `QuizInvariant` and `DeckInvariant` state
the inductive invariants these rest on; `ServeIsSpec` says that the runs without reconnect streams, which `chat` checks, are runs
of the specification proved about.

**The hypotheses** are the conditions under which the code is right. `~SlowHandlers`: a handler
that outlasts the stale timeout is run twice. `OneCaller`: two overlapping calls of `enqueueJob` for one user and kind both insert. `LostChapters = {}`: a chapter whose pages cannot be found fails, its job run again after a crash takes it
back to filling, and by then the others have declared the book ready. `MaxFaults = 0` in `TreesHaveJobs` and `Distinct`: a fault leaves a tree building, and a
duplicate copies an unfinished one. `MaxFaults = 0` in `StreamsAreSettled`: a catch block that cannot reach the database leaves its row.
Restarts and truncations are not faults there. Each is listed in section 3 as a
disagreement. Properties that are themselves conditional (one device, no job at work beside a plan, payloads written one at a time, no request lost on a
canvas, no save beside another of a deck, options not edited since they were shown) say so in their module.

### The arguments

An invariant is seldom inductive, because what a process read before an await is used after it: each proof adds what
frames still know. TLC checked strengthened invariants on small instances before they were proved (for instance 365,313
states for the canvas, 401,008 for the deck).

**Queue.** A failure writes back the attempts *read at the claim* plus one,
so the budget of a row depends on what frames remember. `FrameInv` adds that a frame that holds a row remembers fewer than
`MaxAttempts` attempts, and that a frame's phase and row fit together.
`IInv == TypeOK /\ RetryBudget /\ FrameInv` is inductive, with or without
slow handlers: however many workers run one row, each of them writes at most its own claim
plus one. For one worker per row, `HeldRow` adds that a held row is running, remembers
the attempts of its frame, and has a fresh lock, which keeps `ReclaimStaleJobs` away
from it; this is where `~SlowHandlers` is used (in `LockAges`). A claim takes a pending row, hence one
nobody holds. `Exclusive == IInv /\ HeldRow /\ NoDoubleProcessing` is inductive. The refinement maps a row to `queued`, `held`, `orphaned` or an end, according to
its status and whether some frame holds it: a claim is `Take`, or `Orphan` when the Python worker cannot run
what it took; a reclaim is `Return` of a *set* of orphans; a failure is `Retry` or
`GiveUp`; checks and clock steps stutter. For `OneRowPerKind`, `Unique` adds to `Exclusive` that a caller between the two
statements of `enqueueJob` still finds no live row (`NothingLive`): a retry or a reclaim only changes a row that is live already. `RowsAreBounded` counts instead: a call goes from the callers to the
rows, and begins only where there is no row.

**Plans.** `FrameInv` (a frame holds the plan and the log entry of its next statement, and only a device is at a statement that adopts) gives
`OnlyStudentAdopts` for any devices and jobs. For one device (`OneDevice`), `AgreedInv` says the plan it is materialising is in force and
accepted until the others are retired; a job only writes proposals, so nothing takes it back. With no job, `AloneInv` says that what the
device read is still so at its next statement, and that an unanswered proposal is the last row: `OneOpenProposal` and `TasksFollowPlan` are what it says when the device is done. For the log, `SerialInv` says of
any devices and jobs that a frame about to rewrite a payload carries the one that is stored, with its edit, and that a plan about to be replaced has no entry of `amendPlan` yet: `OneWriter` is
what keeps the payload as it was read until it is written.

**Ingest.** `Known` follows the bytes (a move's copy is in the target before the source goes), the text and the pointer (a frame past
the statement that writes one finds it, and so does one that copies from a duplicate). `Grown` says that whoever is about to declare a book ready found
all its chapters ready, and chapters do not go back. `Trees` says of an unfinished tree which live job, or which frame on its way to insert one, will
go on with each chapter; when all chapters are ready, some worker has still to count, because the last to write its sections counts after
the others. For the quota, `Paid` says that the uploads a scan let pass, that is those whose bytes are in
the safe bucket or on their way there, fit together: an upload counts for every later scan from the insert of its row on, so the last
of two uploads to be scanned sees the other, and no lock is needed. The exception is an upload without text: it is failed, no longer
counted, its bytes kept, and a crash may run it again; it has no way to become ready. `FewRows` makes the sum finite.

**Chat.** `Told` ties the row to what the client was told, from the save on; `Read` says that what `maybeCompact` has read still
reaches back over every message that is left, though others were truncated or added since, so the boundary it inserts does too. `Settled`
says that a turn past its save has no streaming row.

**Calendar.** The list a run holds is compared with a provider that goes on changing: `ListKnown` says the list is right about every event that
did not change since. `Progress` says which rows are as listed at each await, `Stamps` that no row is ahead of the provider, so that
`unchangedSince` skips only what is stored. `Caught` is what the run hands over when it saves its token, and `TokenKnown` keeps it. `Owned` makes a run
whose source was removed harmless. `Watches` says that the channel a renewal is about to store is its own and the one it is about to stop is not the row's.

**Canvas.** `PageSound` has, for every page: a board as far as the saved one whenever its version is the saved one (`BoardSound`, `SaveSound`);
what the save in flight carries (`FlightSound`); that a page told of a conflict stays behind (`ConflictSound`); that the author of the last save knows its version or will learn it
(`AuthorSound`); where the notes are (`NotesSound`, `AcksSound`); and that what was there when the student asked is on its way to the saved
board (`AskSound`, `StoredSound`). With the compare-and-swap this gives the three properties of saves. For the log, `TellsOf` says what the entries
of one element tell: they form a chain from its state at the snapshot to the last synced one, or there is none and the state is the same. One new entry
keeps the chain (`AppendedTells`), so does one that is folded into the last (`FoldedTells`), and a sync adds one entry for each
changed element, in some order (`LoggedTells`).

**Quiz.** The pages rewrite the quiz and renumber answers, so the invariant has to say what an id *means*: there is one
assignment of topics to ids, fixed when the id is minted, such that no list anywhere disagrees with it (`Named`) and each answer is what was chosen
for its topic, among the options that were shown (`Fits`). A grade compares an answer with the question of the same id, hence of the same topic, and the numbers mean the same
option when the options are the same.

**Deck.** `Listed`, `Lined` and `Identifies` say that no list of cards, on a page, in a call or in the payload, has an id twice or one that was not minted. A
session owes each card the passes it has ahead in its queue (`SessionSound`, a cardinality): moving on takes one, a requeue adds one, wherever it is put. For
`SaveRepairs`, `RepairInv` says that a save with none beside it has brought the first `m` cards and their rows into agreement and still
knows which of the others have one (`Mended`).

### What is only model-checked

Liveness (`NoJobIsLost`, `UploadsSettle`, `ReconnectsEnd`, `SpinnerResolves`,
`RequestedSyncEnds`, `EditsAreSaved`): fairness and ENABLED are outside what the prover handles.

Two equalities that would need induction over data. `CanvasBoard!LoggedAll` is stated in one piece, by the entries that
result, and `FlashcardDeck` and `QuizPage` filter with `Picked`, by places: both forms can be reasoned about, and `LoopLogsEach`
(`MCCanvasBoard`) and `FilterPicks` (`MCStudy`) are assumptions TLC evaluates, which say that the first is the code's loop
(`FoldLeft` over the edits) and the second is `SelectSeq`, on all small inputs.

No module uses RECURSIVE.

## 5. What is not modelled, and what comes next

Not modelled at all, and why:

* Pure functions of their input, most of them on text, pixels or floating-point coordinates: extraction, chunking and
  embedding, handwriting (`web/lib/canvas/textSyntax`), what the tutor is told of a board, context assembly, mind-map
  layout. They keep no state and no two actors meet in them; a model would restate them line by line.
* Rendering and forms: most of `web/components`, and the half of `CanvasView`, `ChatMain` and the study components that
  draws. Their protocols with the server are modelled.
* HTTP clients, OAuth, authorisation (one statement before the operations modelled here), scripts, evaluations, the
  iPad client's screens.

This is most of the repository by lines: what keeps shared state across an await is a small part of it, and that part is
what the modules cover.

Partly modelled: of planning, `createTask` and several periods at once (`cadence.ts:47` enqueues two weeks' proposals under one
kind, and `enqueueJob` drops the second); of chat, renaming and deleting a chat, the title written over a rename made meanwhile
(`route.ts:212`), the hint rung; of the canvas, undo and redo; of study, the scheduling function and the rename forms; of
the agent, its other tools.

Next, in this order:

1. `PlanPeriods`: cadence and several horizons over `PlanLifecycle`.
2. Undo over `CanvasBoard`: undo never takes back what the tutor placed.
3. Proofs of what `ChatTab` says of the list of turns, once stated as invariants: what is shown as being generated has a
   reader, a reconnect or a fetch that will settle it. That is the safety half of `SpinnerResolves`.
