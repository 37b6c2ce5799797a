------------------------------ MODULE CalendarSync ------------------------------
(***************************************************************************)
(* One connected calendar of one student: the sync that reconciles what    *)
(* the provider lists with schedule_items (apps/web/lib/calendar/sync.ts,  *)
(* google-sync.ts, jobs/handlers/calendar-sync-*.ts), the push channel and *)
(* its renewal (ensureWatchChannel, the webhook), the routes that connect  *)
(* and remove the source, and the check-off of an event.  One action is    *)
(* the code from one await to the next.                                    *)
(*                                                                         *)
(* An event is the number of the change that made it what it is: that is   *)
(* its content, its updated stamp, and its place in what a sync token has  *)
(* listed.  The queue is reduced to the row of the sync's kind; JobQueue   *)
(* says when there is only one and when it is run by only one worker.      *)
(***************************************************************************)
EXTENDS Naturals, FiniteSets

CONSTANTS
  Events,        \* external ids
  MayAge,        \* those that can fall out of the 120 days a full list goes back
  Scenarios      \* what a run starts from: the kind of calendar, and its bounds

\* changes: of the provider; channels: ever registered; sources: ids in use at once,
\* more than one where the student may remove the source; gone: times Google forgets
\* its tokens (410); faults: failed calls and crashes.
ASSUME CalendarAssumption ==
  /\ MayAge \subseteq Events
  /\ Scenarios \subseteq [kind : {"google", "ics"}, changes : Nat \ {0}, channels : Nat,
                          sources : Nat \ {0}, gone : Nat, faults : Nat]

VARIABLES
  bound,      \* the scenario
  clock,      \* changes the provider has made
  remote,     \* what the provider holds
  aged,       \* events older than the window of a full list
  horizon,    \* the provider answers 410 to a token older than this
  gones,      \* how often the horizon moved
  channel,    \* the provider's channels
  source,     \* the source's row
  rows,       \* schedule_items of this feed
  job,        \* the live row of the sync's kind in jobs
  sync,       \* the handler's run
  watch,      \* ensureWatchChannel, called by the renewal sweep and by the callback
  removal,    \* DELETE of the source, between its two awaits
  faults

vars == <<bound, clock, remote, aged, horizon, gones, channel, source, rows, job, sync,
          watch, removal, faults>>

-----------------------------------------------------------------------------
kind    == bound.kind  \* calendar_sources.kind
Change  == 0 .. bound.changes
Channel == 1 .. bound.channels
Callers == {"sweep", "callback"}

\* id 0: no row.  token and channel are 0 for NULL.
Source == [id : 0 .. bound.sources, token : Change, status : {"active", "error", "expired"},
           channel : 0 .. bound.channels]

NoSource == [id |-> 0, token |-> 0, status |-> "active", channel |-> 0]

\* owner: calendar_source_id, 0 for no row; at: external_updated_at and all it stamps.
Row == [owner : 0 .. bound.sources, at : Change, done : BOOLEAN]

NoRow == [owner |-> 0, at |-> 0, done |-> FALSE]

Absent  == [owner |-> 0, at |-> 0]
Unknown == [at |-> 0, live |-> FALSE]

\* listed: the events of the list as they were then; todo: those not yet applied;
\* prior: the rows read for them.
Sync == [next : {"idle", "list", "drop-token", "list-all", "read-rows", "apply", "remove",
                 "save-token", "mark-synced", "done", "mark-error", "failed"},
         id : 0 .. bound.sources, token : Change, upTo : Change, full : BOOLEAN,
         listed : [Events -> [at : Change, live : BOOLEAN]], todo : SUBSET Events,
         prior : [Events -> [owner : 0 .. bound.sources, at : Change]]]

Idle == [next |-> "idle", id |-> 0, token |-> 0, upTo |-> 0, full |-> FALSE,
         listed |-> [e \in Events |-> Unknown], todo |-> {}, prior |-> [e \in Events |-> Absent]]

Watch == [next : {"idle", "register", "store", "mark-synced", "stop-old", "enqueue"},
          id : 0 .. bound.sources, old : 0 .. bound.channels, new : 0 .. bound.channels,
          lapsed : BOOLEAN, expired : BOOLEAN]

NoWatch == [next |-> "idle", id |-> 0, old |-> 0, new |-> 0, lapsed |-> FALSE, expired |-> FALSE]

TypeOK ==
  /\ bound \in Scenarios
  /\ clock \in Change \ {0} /\ horizon \in Change /\ gones \in 0 .. bound.gone
  /\ remote \in [Events -> [at : Change, live : BOOLEAN]] /\ aged \subseteq MayAge
  /\ channel \in [Channel -> {"free", "open", "lapsed", "stopped"}]
  /\ source \in Source /\ rows \in [Events -> Row]
  /\ job \in {"none", "pending", "running"} /\ sync \in Sync
  /\ watch \in [Callers -> Watch]
  /\ removal \in 0 .. bound.sources /\ faults \in 0 .. bound.faults

Init ==
  /\ bound \in Scenarios
  /\ clock = 1 /\ horizon = 0 /\ gones = 0
  /\ remote = [e \in Events |-> Unknown] /\ aged = {}
  /\ channel = [n \in Channel |-> "free"]
  /\ source = NoSource
  /\ rows = [e \in Events |-> NoRow]
  /\ job = "none" /\ sync = Idle
  /\ watch = [c \in Callers |-> NoWatch]
  /\ removal = 0 /\ faults = 0

-----------------------------------------------------------------------------
(* The provider, the student, and time. *)

provider == <<clock, remote, aged, horizon, gones>>
stored   == <<source, rows>>
runs     == <<job, sync, watch, removal>>

\* The event is created, changed, or cancelled; cancelled is for good.
ProviderChanges(e, live) ==
  /\ clock < bound.changes
  /\ remote[e].at = 0 \/ remote[e].live
  /\ live \/ remote[e].live
  /\ clock' = clock + 1
  /\ remote' = [remote EXCEPT ![e] = [at |-> clock + 1, live |-> live]]
  /\ UNCHANGED <<bound, aged, horizon, gones, channel, stored, runs, faults>>

Ages(e) ==
  /\ e \in MayAge \ aged /\ remote[e].live
  /\ aged' = aged \cup {e}
  /\ UNCHANGED <<bound, clock, remote, horizon, gones, channel, stored, runs, faults>>

TokensExpire ==
  /\ gones < bound.gone
  /\ horizon' = clock /\ gones' = gones + 1
  /\ UNCHANGED <<bound, clock, remote, aged, channel, stored, runs, faults>>

\* Nothing says so: the channel stops delivering.
ChannelLapses(n) ==
  /\ channel[n] = "open"
  /\ channel' = [channel EXCEPT ![n] = "lapsed"]
  /\ UNCHANGED <<bound, provider, stored, runs, faults>>

\* PATCH /api/calendar/events/:id and complete_task.
CheckOff(e) ==
  /\ rows[e].owner # 0
  /\ rows' = [rows EXCEPT ![e].done = ~@]
  /\ UNCHANGED <<bound, provider, channel, source, runs, faults>>

-----------------------------------------------------------------------------
(* What asks for a sync. *)

\* enqueueJob: nothing when a row of the kind is pending or running.
Enqueued == IF job = "none" THEN "pending" ELSE job

SyncNow ==
  /\ source.id # 0
  /\ job' = Enqueued
  /\ UNCHANGED <<bound, provider, channel, stored, sync, watch, removal, faults>>

\* A notification, late or repeated: its channel must be the one the row names.
Webhook(n) ==
  /\ channel[n] # "free" /\ source.id # 0 /\ source.channel = n
  /\ job' = Enqueued
  /\ UNCHANGED <<bound, provider, channel, stored, sync, watch, removal, faults>>

\* Ids of rows that are there, or that some run still holds.
Ids == {source.id, sync.id, removal} \cup {watch[c].id : c \in Callers}
         \cup {sync.prior[e].owner : e \in Events}

\* POST /api/calendar/sources: the feed's row; the job comes after it.
AddFeed(id) ==
  /\ kind = "ics" /\ source.id = 0 /\ watch["callback"].next = "idle"
  /\ id \notin Ids \cup {0}
  /\ source' = [NoSource EXCEPT !.id = id]
  /\ watch' = [watch EXCEPT !["callback"] = [NoWatch EXCEPT !.next = "enqueue", !.id = id]]
  /\ UNCHANGED <<bound, provider, channel, rows, job, sync, removal, faults>>

\* canRegisterWatch: without an address Google can reach, no channel is registered.
Reachable == bound.channels > 0

\* The OAuth callback: upsertSource keeps the row of the calendar if there is one.
Connect(id) ==
  /\ kind = "google" /\ watch["callback"].next = "idle"
  /\ id = source.id \/ (source.id = 0 /\ id \notin Ids)
  /\ id # 0
  /\ source' = [source EXCEPT !.id = id, !.status = "active"]
  /\ watch' = [watch EXCEPT !["callback"] =
       [NoWatch EXCEPT !.next = IF Reachable THEN "register" ELSE "enqueue", !.id = id,
          !.old = source.channel,
          !.lapsed = source.channel # 0 /\ channel[source.channel] = "lapsed"]]
  /\ UNCHANGED <<bound, provider, channel, rows, job, sync, removal, faults>>

EnqueueAfter ==
  /\ watch["callback"].next = "enqueue"
  /\ job' = Enqueued
  /\ watch' = [watch EXCEPT !["callback"] = NoWatch]
  /\ UNCHANGED <<bound, provider, channel, stored, sync, removal, faults>>

-----------------------------------------------------------------------------
(* ensureWatchChannel *)

\* UPDATE calendar_sources ... WHERE id: touches nothing when the row is gone.
Touch(id, row) == source' = IF source.id = id THEN row ELSE source

\* The renewal sweep finds the row due: no channel, or one that lapses within a day.
SweepFinds ==
  /\ kind = "google" /\ Reachable /\ source.id # 0 /\ watch["sweep"].next = "idle"
  /\ watch' = [watch EXCEPT !["sweep"] =
       [next |-> "register", id |-> source.id, old |-> source.channel, new |-> 0,
        lapsed |-> source.channel # 0 /\ channel[source.channel] = "lapsed",
        expired |-> source.status = "expired"]]
  /\ UNCHANGED <<bound, provider, channel, stored, job, sync, removal, faults>>

\* What follows the call: the callback enqueues, the sweep is over.
After(c) == [watch EXCEPT ![c] = IF c = "callback"
                                 THEN [NoWatch EXCEPT !.next = "enqueue", !.id = watch[c].id]
                                 ELSE NoWatch]

\* Under an id of its own: the next one.
WatchEvents(c, n) ==
  /\ watch[c].next = "register" /\ channel[n] = "free"
  /\ \A m \in 1 .. n - 1 : channel[m] # "free"
  /\ channel' = [channel EXCEPT ![n] = "open"]
  /\ watch' = [watch EXCEPT ![c].next = "store", ![c].new = n]
  /\ UNCHANGED <<bound, provider, stored, job, sync, removal, faults>>

\* Only a source that has nothing left to deliver is marked; the sweep's error is
\* retried and the callback's is dropped.
WatchFails(c) ==
  /\ watch[c].next = "register"
  /\ IF watch[c].lapsed \/ watch[c].old = 0
     THEN Touch(watch[c].id, [source EXCEPT !.status = "expired"]) ELSE UNCHANGED source
  /\ watch' = After(c)
  /\ UNCHANGED <<bound, provider, channel, rows, job, sync, removal, faults>>

\* What the caller still has to do once the new channel is stored.
NextOf(w) == IF w.next = "store" /\ w.expired THEN "mark-synced"
             ELSE IF w.old # 0 THEN "stop-old" ELSE "over"

Proceeds(c) == IF NextOf(watch[c]) = "over" THEN After(c)
               ELSE [watch EXCEPT ![c].next = NextOf(watch[c])]

StoreChannel(c) ==
  /\ watch[c].next = "store"
  /\ Touch(watch[c].id, [source EXCEPT !.channel = watch[c].new])
  /\ watch' = Proceeds(c)
  /\ UNCHANGED <<bound, provider, channel, rows, job, sync, removal, faults>>

\* A source that was expired is stamped as synced, although nothing was listed.
MarkRenewed(c) ==
  /\ watch[c].next = "mark-synced"
  /\ Touch(watch[c].id, [source EXCEPT !.status = "active"])
  /\ watch' = Proceeds(c)
  /\ UNCHANGED <<bound, provider, channel, rows, job, sync, removal, faults>>

\* Mutant of StopOld: the channel of the row as it is now.
StopStored(c, answered) ==
  /\ watch[c].next = "stop-old"
  /\ channel' = [n \in Channel |-> IF answered /\ n = source.channel /\ channel[n] = "open"
                                   THEN "stopped" ELSE channel[n]]
  /\ watch' = After(c)
  /\ UNCHANGED <<bound, provider, stored, job, sync, removal, faults>>

\* The channel it read, best effort.
StopOld(c, answered) ==
  /\ watch[c].next = "stop-old"
  /\ channel' = [channel EXCEPT ![watch[c].old] = IF answered /\ @ = "open" THEN "stopped" ELSE @]
  /\ watch' = After(c)
  /\ UNCHANGED <<bound, provider, stored, job, sync, removal, faults>>

-----------------------------------------------------------------------------
(* DELETE /api/calendar/sources/:id *)

\* releaseWatchChannel, best effort.
Release(answered) ==
  /\ source.id # 0 /\ removal = 0 /\ bound.sources > 1
  /\ removal' = source.id
  /\ channel' = [n \in Channel |-> IF answered /\ n = source.channel /\ channel[n] = "open"
                                   THEN "stopped" ELSE channel[n]]
  /\ UNCHANGED <<bound, provider, stored, job, sync, watch, faults>>

\* The row goes, and its events with it (ON DELETE CASCADE).
Remove ==
  /\ removal # 0
  /\ Touch(removal, NoSource)
  /\ rows' = [e \in Events |-> IF rows[e].owner = removal THEN NoRow ELSE rows[e]]
  /\ removal' = 0
  /\ UNCHANGED <<bound, provider, channel, job, sync, watch, faults>>

-----------------------------------------------------------------------------
(* syncGoogleHandler and syncIcsHandler, syncGoogleSource and syncFeedEvents. *)

Mine  == source.id = sync.id
Steps(next) == sync' = [sync EXCEPT !.next = next]

\* Mutant of StartSync: only sources that are active.
StartSyncActive ==
  /\ job = "pending" /\ sync.next = "idle"
  /\ IF source.id = 0 \/ source.status # "active" THEN job' = "none" /\ UNCHANGED sync
     ELSE /\ job' = "running"
          /\ sync' = [Idle EXCEPT !.next = IF source.token = 0 THEN "list-all" ELSE "list",
                                  !.id = source.id, !.token = source.token]
  /\ UNCHANGED <<bound, provider, channel, stored, watch, removal, faults>>

\* The claim, and the handler's reading of the student's sources.
StartSync ==
  /\ job = "pending" /\ sync.next = "idle"
  /\ IF source.id = 0 THEN job' = "none" /\ UNCHANGED sync
     ELSE /\ job' = "running"
          /\ sync' = [Idle EXCEPT !.next = IF source.token = 0 THEN "list-all" ELSE "list",
                                  !.id = source.id, !.token = source.token]
  /\ UNCHANGED <<bound, provider, channel, stored, watch, removal, faults>>

\* What a list holds: of a token, what changed since; else all there is, Google's
\* only as far back as its window.
Listed(since) == {e \in Events : remote[e].at > since}
Full          == IF kind = "google" THEN Listed(0) \ aged ELSE Listed(0)

Lists(batch, full) ==
  sync' = [sync EXCEPT !.next = "read-rows", !.full = full, !.upTo = clock, !.todo = batch,
             !.listed = [e \in Events |-> IF e \in batch THEN remote[e] ELSE Unknown]]

ListChanges ==
  /\ sync.next = "list"
  /\ IF sync.token < horizon THEN Steps("drop-token") ELSE Lists(Listed(sync.token), FALSE)
  /\ UNCHANGED <<bound, provider, channel, stored, job, watch, removal, faults>>

\* 410: the token goes first, so that a crash cannot leave it.
DropToken ==
  /\ sync.next = "drop-token"
  /\ Touch(sync.id, [source EXCEPT !.token = 0])
  /\ Steps("list-all")
  /\ UNCHANGED <<bound, provider, channel, rows, job, watch, removal, faults>>

ListAll ==
  /\ sync.next = "list-all"
  /\ Lists(Full, TRUE)
  /\ UNCHANGED <<bound, provider, channel, stored, job, watch, removal, faults>>

\* Mutant of ReadRows: saves the token as soon as it has the list.
ReadRowsSaveToken ==
  /\ sync.next = "read-rows"
  /\ Touch(sync.id, [source EXCEPT !.token = sync.upTo])
  /\ sync' = [sync EXCEPT !.next = "apply",
                !.prior = [e \in Events |-> IF e \in sync.todo
                             THEN [owner |-> rows[e].owner, at |-> rows[e].at] ELSE Absent]]
  /\ UNCHANGED <<bound, provider, channel, rows, job, watch, removal, faults>>

\* By student, kind of feed and external id, whichever source owns the row.
ReadRows ==
  /\ sync.next = "read-rows"
  /\ sync' = [sync EXCEPT !.next = "apply",
                !.prior = [e \in Events |-> IF e \in sync.todo
                             THEN [owner |-> rows[e].owner, at |-> rows[e].at] ELSE Absent]]
  /\ UNCHANGED <<bound, provider, channel, stored, job, watch, removal, faults>>

\* unchangedSince and isSameRow.
Skipped(e) == sync.prior[e].at >= sync.listed[e].at

\* The row a statement by prior.id finds: the one that was read, if it is there.
Found(e) == rows[e].owner # 0 /\ rows[e].owner = sync.prior[e].owner

\* One listed event: insert or update, and never its check-off.  A row cannot name
\* a source that is gone: the statement raises.
ApplyLive(e) ==
  /\ sync.next = "apply" /\ e \in sync.todo /\ sync.listed[e].live
  /\ LET absent == sync.prior[e].owner = 0
         writes == absent \/ (~Skipped(e) /\ Found(e))
     IN IF writes /\ ~Mine THEN Steps("mark-error") /\ UNCHANGED rows
        ELSE /\ rows' = [rows EXCEPT ![e] = IF writes THEN [owner |-> sync.id,
                                              at |-> sync.listed[e].at, done |-> @.done] ELSE @]
             /\ sync' = [sync EXCEPT !.todo = @ \ {e}]
  /\ UNCHANGED <<bound, provider, channel, source, job, watch, removal, faults>>

\* Cancelled events, after the others.
ApplyCancelled(e) ==
  /\ sync.next = "apply" /\ e \in sync.todo
  /\ \A d \in sync.todo : ~sync.listed[d].live
  /\ rows' = [rows EXCEPT ![e] = IF Found(e) THEN NoRow ELSE @]
  /\ sync' = [sync EXCEPT !.todo = @ \ {e}]
  /\ UNCHANGED <<bound, provider, channel, source, job, watch, removal, faults>>

\* Mutant of RemoveMissing: not only after a full list.
RemoveUnlisted ==
  /\ sync.next = "apply" /\ sync.todo = {}
  /\ rows' = [e \in Events |-> IF rows[e].owner = sync.id /\ ~sync.listed[e].live
                               THEN NoRow ELSE rows[e]]
  /\ Steps("save-token")
  /\ UNCHANGED <<bound, provider, channel, source, job, watch, removal, faults>>

\* After a full list, this source's rows that are not in it.
RemoveMissing ==
  /\ sync.next = "apply" /\ sync.todo = {}
  /\ rows' = [e \in Events |-> IF sync.full /\ rows[e].owner = sync.id /\ ~sync.listed[e].live
                               THEN NoRow ELSE rows[e]]
  /\ Steps("save-token")
  /\ UNCHANGED <<bound, provider, channel, source, job, watch, removal, faults>>

\* A feed of ICS has no token.
SaveToken ==
  /\ sync.next = "save-token"
  /\ IF kind = "google" THEN Touch(sync.id, [source EXCEPT !.token = sync.upTo])
     ELSE UNCHANGED source
  /\ Steps("mark-synced")
  /\ UNCHANGED <<bound, provider, channel, rows, job, watch, removal, faults>>

MarkSynced ==
  /\ sync.next = "mark-synced"
  /\ Touch(sync.id, [source EXCEPT !.status = "active"])
  /\ Steps("done")
  /\ UNCHANGED <<bound, provider, channel, rows, job, watch, removal, faults>>

\* The worker marks its row.  A failed run is retried unless Google or the feed's
\* host refused it for good; the faults are fewer than the queue's attempts.
EndSync(retry) ==
  /\ sync.next \in {"done", "failed"} /\ (retry => sync.next = "failed")
  /\ job' = IF retry THEN "pending" ELSE "none"
  /\ sync' = Idle
  /\ UNCHANGED <<bound, provider, channel, stored, watch, removal, faults>>

CallFails ==
  /\ sync.next \notin {"idle", "done", "mark-error", "failed"} /\ faults < bound.faults
  /\ Steps("mark-error") /\ faults' = faults + 1
  /\ UNCHANGED <<bound, provider, channel, stored, job, watch, removal>>

\* Mutant of MarkError: a status that is not in the enum.
MarkFailed ==
  /\ sync.next = "mark-error"
  /\ Touch(sync.id, [source EXCEPT !.status = "failed"])
  /\ Steps("failed")
  /\ UNCHANGED <<bound, provider, channel, rows, job, watch, removal, faults>>

MarkError ==
  /\ sync.next = "mark-error"
  /\ Touch(sync.id, [source EXCEPT !.status = "error"])
  /\ Steps("failed")
  /\ UNCHANGED <<bound, provider, channel, rows, job, watch, removal, faults>>

\* The process ends between any two awaits; the queue offers its row again.
Crash ==
  /\ faults < bound.faults
  /\ faults' = faults + 1
  /\ job' = IF sync.next = "idle" THEN job ELSE "pending"
  /\ sync' = Idle
  /\ watch' = [c \in Callers |-> NoWatch] /\ removal' = 0
  /\ UNCHANGED <<bound, provider, channel, stored>>

-----------------------------------------------------------------------------
SyncStep ==
  \/ StartSync \/ ListChanges \/ DropToken \/ ListAll \/ ReadRows
  \/ \E e \in Events : ApplyLive(e) \/ ApplyCancelled(e)
  \/ RemoveMissing \/ SaveToken \/ MarkSynced \/ MarkError
  \/ \E retry \in BOOLEAN : EndSync(retry)

WatchStep(c) ==
  \/ \E n \in Channel : WatchEvents(c, n)
  \/ WatchFails(c) \/ StoreChannel(c) \/ MarkRenewed(c)
  \/ \E answered \in BOOLEAN : StopOld(c, answered)

Next ==
  \/ \E e \in Events : Ages(e) \/ CheckOff(e) \/ \E live \in BOOLEAN : ProviderChanges(e, live)
  \/ TokensExpire
  \/ \E n \in Channel : ChannelLapses(n) \/ Webhook(n)
  \/ SyncNow \/ EnqueueAfter \/ SweepFinds
  \/ \E id \in 1 .. bound.sources : AddFeed(id) \/ Connect(id)
  \/ \E c \in Callers : WatchStep(c)
  \/ \E answered \in BOOLEAN : Release(answered)
  \/ Remove \/ SyncStep \/ CallFails \/ Crash

Spec == Init /\ [][Next]_vars

\* A worker is running and every call of a sync returns or times out.
FairSpec == Spec /\ WF_vars(SyncStep)

-----------------------------------------------------------------------------
(* Properties. *)

\* The token never overtakes the events: what a delta will not list again is what
\* the rows already hold, whatever crashed or was removed in between
\* (google-sync.ts:38-40, sync.ts:8-13).
TokenMatchesRows ==
  source.id # 0 /\ source.token # 0 =>
    \A e \in Events \ aged : remote[e].at \in 1 .. source.token =>
      IF remote[e].live THEN rows[e].owner = source.id /\ rows[e].at = remote[e].at
      ELSE rows[e].owner = 0

\* No sync takes a check-off away while the feed holds the event (sync.ts:9-11):
\* it takes the student, a cancellation, or the feed's removal; or a full list, of
\* an event older than its window.
CheckOffSurvives ==
  [][\A e \in Events : rows[e].done /\ ~rows'[e].done =>
       \/ CheckOff(e) \/ Remove
       \/ ~remote[e].live
       \/ e \in aged /\ sync.full]_vars

\* Renewals never stop the channel the row listens on, though the sweep and the
\* callback renew at the same time (google-sync.ts:128-135); only a removal does.
ListensOn ==
  [][\A n \in Channel : channel[n] # "stopped" /\ channel'[n] = "stopped" =>
       n # source.channel \/ removal' = source.id]_vars

\* A sync asked for when none is running is never silently lost: its list reaches
\* what the calendar held then, or the panel says error, or the source is gone.
RequestedSyncEnds ==
  \A n \in UNION {1 .. s.changes : s \in Scenarios} :
    (kind = "google" /\ clock >= n /\ job = "pending") ~>
      (source.token >= n \/ source.status = "error" \/ source.id = 0)
=============================================================================
