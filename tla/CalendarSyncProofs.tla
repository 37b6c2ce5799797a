-------------------------- MODULE CalendarSyncProofs --------------------------
(***************************************************************************)
(* Proofs about CalendarSync, for any events and scenarios.  Owned and     *)
(* Stamps say whose the rows are and how far a stamp may be; SyncKnown     *)
(* says what a sync that runs while the calendar, the student and a        *)
(* removal go on can count on at each of its awaits; Watches says which    *)
(* channels the two callers of ensureWatchChannel hold.                    *)
(***************************************************************************)
EXTENDS CalendarSync, TLAPS

-----------------------------------------------------------------------------
(* The inductive invariant. *)

\* Only the source that is there owns rows, and no run holds another's.
Owned ==
  /\ source.id = 0 => source.token = 0 /\ source.channel = 0
  /\ removal \in {0, source.id}
  /\ \A e \in Events : rows[e].owner \in {0, source.id}
  /\ sync.next # "idle" =>
       sync.id # 0 /\ (sync.id # source.id => \A e \in Events : rows[e].owner = 0)
  /\ \A e \in Events : sync.prior[e].owner \in {0, sync.id}
  /\ \A c \in Callers : watch[c].next # "idle" => watch[c].id # 0

\* Nothing stored is ahead of the provider.
Stamps ==
  /\ source.token <= clock /\ sync.upTo <= clock
  /\ \A e \in Events : /\ remote[e].at <= clock
                       /\ rows[e].owner # 0 => rows[e].at \in 1 .. remote[e].at

\* The awaits at which a run holds its list.
Listing == {"read-rows", "apply", "save-token"}

\* What a list still says of the provider, which goes on changing.
ListKnown ==
  \A e \in Events :
    /\ sync.listed[e].at <= remote[e].at
    /\ sync.listed[e].at # 0 /\ ~sync.listed[e].live => ~remote[e].live
    /\ e \notin aged /\ remote[e].at \in 1 .. sync.upTo /\ (sync.full \/ remote[e].at > sync.token) =>
         sync.listed[e] = remote[e]
    /\ ~sync.full /\ sync.listed[e].at # 0 => sync.listed[e].at > sync.token
    /\ sync.full /\ rows[e].owner = sync.id /\ sync.listed[e].at = 0 => e \in aged
    /\ e \in sync.todo => sync.listed[e].at # 0

\* The row of e is what the provider holds.
Matches(e) == IF remote[e].live THEN rows[e].owner = source.id /\ rows[e].at = remote[e].at
              ELSE rows[e].owner = 0

\* So is every row of an event that changed last at upTo or before.
Caught(upTo) == \A e \in Events \ aged : remote[e].at \in 1 .. upTo => Matches(e)

\* The row of e is what the list held.
Applied(e) ==
  IF sync.listed[e].live THEN rows[e].owner = source.id /\ rows[e].at = sync.listed[e].at
  ELSE rows[e].owner = 0

\* What a run of the source that is still there has to show for its list.
Progress ==
  /\ sync.next = "list" => source.token = sync.token
  /\ sync.next = "list-all" => source.token = 0
  /\ sync.next \in Listing => source.token = IF sync.full THEN 0 ELSE sync.token
  /\ sync.next \in {"read-rows", "apply"} =>
       \A e \in sync.todo : rows[e].owner # 0 => rows[e].at <= sync.listed[e].at
  /\ sync.next = "apply" =>
       \A e \in Events : sync.listed[e].at # 0 =>
         IF e \in sync.todo
         THEN sync.prior[e].owner = rows[e].owner /\ sync.prior[e].at = rows[e].at
         ELSE Applied(e)
  /\ sync.next = "save-token" => Caught(sync.upTo)

SyncKnown ==
  /\ sync.next = "list" => sync.token # 0
  /\ sync.next \in Listing /\ ~sync.full => sync.token # 0
  /\ sync.next \in Listing => ListKnown
  /\ sync.next = "read-rows" => \A e \in Events : sync.listed[e].at # 0 => e \in sync.todo
  /\ sync.next # "idle" /\ Mine => Progress

TokenKnown == source.token # 0 => Caught(source.token)

\* A channel that no call has returned is nobody's; the one a caller is about to
\* store is its own; the one it is about to stop is not the row's.
Watches ==
  /\ \A n \in Channel : channel[n] = "free" =>
       n # source.channel /\ \A c \in Callers : n # watch[c].old /\ n # watch[c].new
  /\ \A c \in Callers : watch[c].next = "store" =>
       /\ watch[c].new # source.channel /\ watch[c].new # 0
       /\ \A d \in Callers : /\ watch[c].new # watch[d].old
                             /\ d # c => watch[c].new # watch[d].new
  /\ \A c \in Callers : watch[c].next \in {"mark-synced", "stop-old"} /\ watch[c].old # 0 =>
       watch[c].old # source.channel
  /\ \A c \in Callers :
       watch[c].next \in {"register", "store"} /\ watch[c].id # source.id /\ watch[c].old # 0 =>
         watch[c].old # source.channel

IInv == TypeOK /\ Owned /\ Stamps /\ SyncKnown /\ TokenKnown /\ Watches

-----------------------------------------------------------------------------
(* Types. *)

\* The types of a scenario do not change.
LEMMA TypesStay ==
  ASSUME UNCHANGED bound
  PROVE  /\ Source' = Source /\ Row' = Row /\ Sync' = Sync /\ Watch' = Watch
         /\ Change' = Change /\ Channel' = Channel /\ kind' = kind
BY DEF Source, Row, Sync, Watch, Change, Channel, kind

LEMMA BoundsAreNumbers ==
  ASSUME bound \in Scenarios
  PROVE  /\ bound.changes \in Nat \ {0} /\ bound.channels \in Nat /\ bound.sources \in Nat \ {0}
         /\ bound.gone \in Nat /\ bound.faults \in Nat /\ bound.kind \in {"google", "ics"}
BY CalendarAssumption

LEMMA InitTypes ==
  Init => TypeOK
<1> SUFFICES ASSUME Init PROVE TypeOK
  OBVIOUS
<1>1. /\ NoSource \in Source /\ NoRow \in Row /\ NoWatch \in Watch
      /\ Unknown \in [at : Change, live : BOOLEAN]
      /\ Absent \in [owner : 0 .. bound.sources, at : Change]
  BY BoundsAreNumbers DEF Init, NoSource, Source, NoRow, Row, NoWatch, Watch, Unknown, Absent, Change
<1>2. Idle \in Sync
  BY <1>1, BoundsAreNumbers DEF Init, Idle, Sync, Change
<1>3. clock \in Change \ {0} /\ horizon \in Change /\ gones \in 0 .. bound.gone
      /\ removal \in 0 .. bound.sources /\ faults \in 0 .. bound.faults
  BY BoundsAreNumbers DEF Init, Change
<1>4. QED
  BY <1>1, <1>2, <1>3 DEF Init, TypeOK

\* What one column of the source's row, and one field of a run, is set to.
LEMMA SourceColumns ==
  ASSUME NEW r \in Source
  PROVE  /\ \A t \in Change : LET q == [r EXCEPT !.token = t]
              IN q \in Source /\ q.id = r.id /\ q.token = t /\ q.channel = r.channel
         /\ \A c \in 0 .. bound.channels : LET q == [r EXCEPT !.channel = c]
              IN q \in Source /\ q.id = r.id /\ q.token = r.token /\ q.channel = c
         /\ \A s \in {"active", "error", "expired"} : LET q == [r EXCEPT !.status = s]
              IN q \in Source /\ q.id = r.id /\ q.token = r.token /\ q.channel = r.channel
BY DEF Source

LEMMA SyncGoes ==
  ASSUME NEW f \in Sync, NEW s,
         s \in {"idle", "list", "drop-token", "list-all", "read-rows", "apply", "remove",
                "save-token", "mark-synced", "done", "mark-error", "failed"}
  PROVE  LET g == [f EXCEPT !.next = s] IN
         /\ g \in Sync /\ g.next = s /\ g.id = f.id /\ g.token = f.token /\ g.upTo = f.upTo
         /\ g.full = f.full /\ g.listed = f.listed /\ g.todo = f.todo /\ g.prior = f.prior
BY DEF Sync

LEMMA IdleType ==
  ASSUME bound \in Scenarios
  PROVE  /\ Idle \in Sync /\ Idle.next = "idle" /\ Idle.id = 0 /\ Idle.todo = {} /\ Idle.upTo = 0
         /\ \A e \in Events : Idle.prior[e] = Absent /\ Idle.listed[e] = Unknown
<1>1. /\ Unknown \in [at : Change, live : BOOLEAN]
      /\ Absent \in [owner : 0 .. bound.sources, at : Change]
  BY BoundsAreNumbers DEF Unknown, Absent, Change
<1>2. QED
  BY <1>1, BoundsAreNumbers DEF Idle, Sync, Change

LEMMA PriorType ==
  ASSUME TypeOK
  PROVE  LET p == [e \in Events |-> IF e \in sync.todo
                             THEN [owner |-> rows[e].owner, at |-> rows[e].at] ELSE Absent]
             g == [sync EXCEPT !.next = "apply", !.prior = p]
         IN /\ g \in Sync /\ g.next = "apply" /\ g.id = sync.id /\ g.token = sync.token
            /\ g.upTo = sync.upTo /\ g.full = sync.full /\ g.todo = sync.todo
            /\ g.listed = sync.listed
            /\ \A e \in Events : g.prior[e] = IF e \in sync.todo
                             THEN [owner |-> rows[e].owner, at |-> rows[e].at] ELSE Absent
<1> DEFINE p == [e \in Events |-> IF e \in sync.todo
                             THEN [owner |-> rows[e].owner, at |-> rows[e].at] ELSE Absent]
<1>1. p \in [Events -> [owner : 0 .. bound.sources, at : Change]]
  <2>1. Absent \in [owner : 0 .. bound.sources, at : Change]
    BY BoundsAreNumbers DEF Absent, Change, TypeOK
  <2>2. ASSUME NEW e \in Events
        PROVE [owner |-> rows[e].owner, at |-> rows[e].at] \in [owner : 0 .. bound.sources, at : Change]
    BY DEF TypeOK, Row
  <2>3. QED
    BY <2>1, <2>2
<1>2. sync \in Sync
  BY DEF TypeOK
<1>3. \A e \in Events : p[e] = IF e \in sync.todo
                             THEN [owner |-> rows[e].owner, at |-> rows[e].at] ELSE Absent
  OBVIOUS
<1> HIDE DEF p
<1>4. [sync EXCEPT !.next = "apply", !.prior = p] \in Sync
  BY <1>1, <1>2, Zenon DEF Sync
<1>5. LET g == [sync EXCEPT !.next = "apply", !.prior = p]
         IN /\ g.next = "apply" /\ g.id = sync.id /\ g.token = sync.token
            /\ g.upTo = sync.upTo /\ g.full = sync.full /\ g.todo = sync.todo
            /\ g.listed = sync.listed /\ g.prior = p
  BY <1>2 DEF Sync
<1>6. QED
  BY <1>3, <1>4, <1>5 DEF p

LEMMA TodoType ==
  ASSUME NEW f \in Sync, NEW e
  PROVE  LET g == [f EXCEPT !.todo = @ \ {e}]
         IN /\ g \in Sync /\ g.next = f.next /\ g.id = f.id /\ g.token = f.token
            /\ g.upTo = f.upTo /\ g.full = f.full /\ g.todo = f.todo \ {e}
            /\ g.listed = f.listed /\ g.prior = f.prior
BY DEF Sync

LEMMA WatchGoes ==
  ASSUME NEW f \in Watch
  PROVE  /\ \A s \in {"idle", "register", "store", "mark-synced", "stop-old", "enqueue"} :
              LET g == [f EXCEPT !.next = s]
              IN g \in Watch /\ g.next = s /\ g.id = f.id /\ g.old = f.old /\ g.new = f.new
         /\ \A n \in 0 .. bound.channels :
              LET g == [f EXCEPT !.next = "store", !.new = n]
              IN g \in Watch /\ g.next = "store" /\ g.id = f.id /\ g.old = f.old /\ g.new = n
<1>1. ASSUME NEW s \in {"idle", "register", "store", "mark-synced", "stop-old", "enqueue"}
      PROVE  LET g == [f EXCEPT !.next = s]
             IN g \in Watch /\ g.next = s /\ g.id = f.id /\ g.old = f.old /\ g.new = f.new
  BY DEF Watch
<1>2. ASSUME NEW n \in 0 .. bound.channels
      PROVE  LET g == [f EXCEPT !.next = "store", !.new = n]
             IN g \in Watch /\ g.next = "store" /\ g.id = f.id /\ g.old = f.old /\ g.new = n
  BY DEF Watch
<1>3. QED
  BY <1>1, <1>2, Zenon

LEMMA NoWatchType ==
  ASSUME bound \in Scenarios
  PROVE  /\ NoWatch \in Watch /\ NoWatch.next = "idle" /\ NoWatch.id = 0 /\ NoWatch.old = 0
         /\ NoWatch.new = 0
         /\ \A i \in 0 .. bound.sources :
              LET g == [NoWatch EXCEPT !.next = "enqueue", !.id = i]
              IN g \in Watch /\ g.next = "enqueue" /\ g.id = i /\ g.old = 0 /\ g.new = 0
<1>1. /\ NoWatch \in Watch /\ NoWatch.next = "idle" /\ NoWatch.id = 0 /\ NoWatch.old = 0
      /\ NoWatch.new = 0
  BY BoundsAreNumbers DEF NoWatch, Watch
<1>2. ASSUME NEW i \in 0 .. bound.sources
      PROVE  LET g == [NoWatch EXCEPT !.next = "enqueue", !.id = i]
             IN g \in Watch /\ g.next = "enqueue" /\ g.id = i /\ g.old = 0 /\ g.new = 0
  BY <1>1 DEF Watch
<1>3. QED
  BY <1>1, <1>2, Zenon

\* A run of ensureWatchChannel as a caller begins it.
LEMMA ConnectType ==
  ASSUME TypeOK, NEW i \in 0 .. bound.sources
  PROVE  LET g == [NoWatch EXCEPT !.next = IF Reachable THEN "register" ELSE "enqueue", !.id = i,
                     !.old = source.channel,
                     !.lapsed = source.channel # 0 /\ channel[source.channel] = "lapsed"]
         IN /\ g \in Watch /\ g.next \in {"register", "enqueue"} /\ g.id = i
            /\ g.old = source.channel /\ g.new = 0
<1> DEFINE l == source.channel # 0 /\ channel[source.channel] = "lapsed"
           s == IF Reachable THEN "register" ELSE "enqueue"
<1>1. l \in BOOLEAN /\ s \in {"register", "enqueue"}
  OBVIOUS
<1>2. source.channel \in 0 .. bound.channels
  BY DEF TypeOK, Source
<1>3. NoWatch \in Watch /\ NoWatch.new = 0
  BY NoWatchType, Zenon DEF TypeOK
<1> HIDE DEF l, s
<1>4. LET g == [NoWatch EXCEPT !.next = s, !.id = i, !.old = source.channel, !.lapsed = l]
      IN /\ g.next = s /\ g.id = i /\ g.old = source.channel /\ g.new = 0
  BY <1>3 DEF Watch
<1>5. [NoWatch EXCEPT !.next = s, !.id = i, !.old = source.channel, !.lapsed = l] \in Watch
  <2>1. s \in {"idle", "register", "store", "mark-synced", "stop-old", "enqueue"}
    BY <1>1
  <2>2. QED
    BY <1>1, <1>2, <1>3, <2>1, Zenon DEF Watch
<1>6. QED
  BY <1>1, <1>4, <1>5 DEF l, s

LEMMA SweepType ==
  ASSUME TypeOK
  PROVE  LET g == [next |-> "register", id |-> source.id, old |-> source.channel, new |-> 0,
                   lapsed |-> source.channel # 0 /\ channel[source.channel] = "lapsed",
                   expired |-> source.status = "expired"]
         IN /\ g \in Watch /\ g.next = "register" /\ g.id = source.id
            /\ g.old = source.channel /\ g.new = 0
<1> DEFINE l == source.channel # 0 /\ channel[source.channel] = "lapsed"
           x == source.status = "expired"
<1>1. l \in BOOLEAN /\ x \in BOOLEAN
  OBVIOUS
<1>2. source.channel \in 0 .. bound.channels /\ source.id \in 0 .. bound.sources
      /\ 0 \in 0 .. bound.channels
  BY BoundsAreNumbers DEF TypeOK, Source
<1> HIDE DEF l, x
<1>3. LET g == [next |-> "register", id |-> source.id, old |-> source.channel, new |-> 0,
                lapsed |-> l, expired |-> x]
      IN /\ g.next = "register" /\ g.id = source.id /\ g.old = source.channel /\ g.new = 0
  OBVIOUS
<1>4. [next |-> "register", id |-> source.id, old |-> source.channel, new |-> 0,
                lapsed |-> l, expired |-> x] \in Watch
  BY <1>1, <1>2, Zenon DEF Watch
<1>5. QED
  BY <1>3, <1>4 DEF l, x

\* What After and Proceeds leave in the caller's place; the other one goes on.
LEMMA AfterType ==
  ASSUME TypeOK, NEW c \in Callers
  PROVE  /\ After(c) \in [Callers -> Watch]
         /\ \A d \in Callers : d # c => After(c)[d] = watch[d]
         /\ After(c)[c].next \in {"idle", "enqueue"} /\ After(c)[c].old = 0 /\ After(c)[c].new = 0
<1>1. watch \in [Callers -> Watch] /\ watch[c].id \in 0 .. bound.sources
  BY DEF TypeOK, Watch
<1>2. /\ NoWatch \in Watch /\ NoWatch.next = "idle" /\ NoWatch.old = 0 /\ NoWatch.new = 0
      /\ LET g == [NoWatch EXCEPT !.next = "enqueue", !.id = watch[c].id]
         IN g \in Watch /\ g.next = "enqueue" /\ g.old = 0 /\ g.new = 0
  BY <1>1, NoWatchType, Zenon DEF TypeOK
<1> DEFINE g == IF c = "callback" THEN [NoWatch EXCEPT !.next = "enqueue", !.id = watch[c].id]
                ELSE NoWatch
<1>3. g \in Watch /\ g.next \in {"idle", "enqueue"} /\ g.old = 0 /\ g.new = 0
  BY <1>2
<1>4. After(c) = [watch EXCEPT ![c] = g]
  BY DEF After
<1> HIDE DEF g
<1>5. QED
  BY <1>1, <1>3, <1>4

LEMMA ProceedsType ==
  ASSUME TypeOK, NEW c \in Callers
  PROVE  /\ Proceeds(c) \in [Callers -> Watch]
         /\ \A d \in Callers : d # c => Proceeds(c)[d] = watch[d]
         /\ \/ Proceeds(c)[c].next \in {"idle", "enqueue"} /\ Proceeds(c)[c].old = 0
               /\ Proceeds(c)[c].new = 0
            \/ /\ Proceeds(c)[c].next \in {"mark-synced", "stop-old"}
               /\ Proceeds(c)[c].id = watch[c].id /\ Proceeds(c)[c].old = watch[c].old
               /\ Proceeds(c)[c].new = watch[c].new
<1>1. CASE NextOf(watch[c]) = "over"
  BY <1>1, AfterType DEF Proceeds
<1>2. CASE NextOf(watch[c]) # "over"
  <2> DEFINE s == NextOf(watch[c])
             g == [watch[c] EXCEPT !.next = s]
  <2>1. s \in {"mark-synced", "stop-old"}
    BY <1>2 DEF NextOf
  <2>2. watch \in [Callers -> Watch]
    BY DEF TypeOK
  <2>3. Proceeds(c) = [watch EXCEPT ![c] = g]
    BY <1>2, <2>2 DEF Proceeds
  <2> HIDE DEF s
  <2>4. g \in Watch /\ g.next = s /\ g.id = watch[c].id /\ g.old = watch[c].old
        /\ g.new = watch[c].new
    <3>1. watch[c] \in Watch
      BY <2>2
    <3>2. s \in {"idle", "register", "store", "mark-synced", "stop-old", "enqueue"}
      BY <2>1
    <3>3. QED
      BY <3>1, <3>2, WatchGoes, ZenonT(60)
  <2> HIDE DEF g
  <2>5. Proceeds(c)[c] = g /\ \A d \in Callers : d # c => Proceeds(c)[d] = watch[d]
    BY <2>2, <2>3
  <2>6. Proceeds(c) \in [Callers -> Watch]
    BY <2>2, <2>3, <2>4
  <2>7. /\ Proceeds(c)[c].next \in {"mark-synced", "stop-old"}
        /\ Proceeds(c)[c].id = watch[c].id /\ Proceeds(c)[c].old = watch[c].old
        /\ Proceeds(c)[c].new = watch[c].new
    BY <2>1, <2>4, <2>5
  <2>8. QED
    BY <2>5, <2>6, <2>7, Zenon
<1>3. QED
  BY <1>1, <1>2

\* What an UPDATE of one column of the source leaves of it.
LEMMA StatusSet ==
  ASSUME TypeOK, NEW id, NEW s \in {"active", "error", "expired"},
         Touch(id, [source EXCEPT !.status = s])
  PROVE  /\ source' \in Source /\ source'.id = source.id /\ source'.token = source.token
         /\ source'.channel = source.channel
<1>1. source \in Source
  BY DEF TypeOK
<1>2. QED
  BY <1>1, SourceColumns DEF Touch

LEMMA TokenSet ==
  ASSUME TypeOK, NEW id, NEW t \in Change, Touch(id, [source EXCEPT !.token = t])
  PROVE  /\ source' \in Source /\ source'.id = source.id /\ source'.channel = source.channel
         /\ source'.token = IF source.id = id THEN t ELSE source.token
<1>1. source \in Source
  BY DEF TypeOK
<1>2. LET q == [source EXCEPT !.token = t]
      IN q \in Source /\ q.id = source.id /\ q.token = t /\ q.channel = source.channel
  BY <1>1 DEF Source
<1>3. QED
  BY <1>1, <1>2 DEF Touch

LEMMA ChannelSet ==
  ASSUME TypeOK, NEW id, NEW n \in 0 .. bound.channels, Touch(id, [source EXCEPT !.channel = n])
  PROVE  /\ source' \in Source /\ source'.id = source.id /\ source'.token = source.token
         /\ source'.channel = IF source.id = id THEN n ELSE source.channel
<1>1. source \in Source
  BY DEF TypeOK
<1>2. LET q == [source EXCEPT !.channel = n]
      IN q \in Source /\ q.id = source.id /\ q.token = source.token /\ q.channel = n
  BY <1>1 DEF Source
<1>3. QED
  BY <1>1, <1>2 DEF Touch

\* What one await of a run leaves of it.
Same == /\ sync'.id = sync.id /\ sync'.token = sync.token /\ sync'.upTo = sync.upTo
        /\ sync'.full = sync.full /\ sync'.listed = sync.listed /\ sync'.prior = sync.prior

LEMMA StepsTo ==
  ASSUME TypeOK, NEW s,
         s \in {"idle", "list", "drop-token", "list-all", "read-rows", "apply", "remove",
                "save-token", "mark-synced", "done", "mark-error", "failed"},
         Steps(s)
  PROVE  sync' \in Sync /\ sync'.next = s /\ Same /\ sync'.todo = sync.todo
<1>1. sync \in Sync /\ sync' = [sync EXCEPT !.next = s]
  BY DEF TypeOK, Steps
<1>2. QED
  BY <1>1, SyncGoes DEF Same

LEMMA StartsTo ==
  ASSUME TypeOK, StartSync, source.id # 0
  PROVE  /\ sync' \in Sync /\ sync'.next = IF source.token = 0 THEN "list-all" ELSE "list"
         /\ sync'.id = source.id /\ sync'.token = source.token /\ sync'.upTo = 0
         /\ sync'.prior = Idle.prior
<1> DEFINE s == IF source.token = 0 THEN "list-all" ELSE "list"
<1>1. sync' = [Idle EXCEPT !.next = s, !.id = source.id, !.token = source.token]
  BY DEF StartSync
<1>2. s \in {"list", "list-all"} /\ source.id \in 0 .. bound.sources /\ source.token \in Change
  BY DEF TypeOK, Source
<1>3. Idle \in Sync /\ Idle.upTo = 0
  BY IdleType DEF TypeOK
<1> HIDE DEF s
<1>4. /\ sync'.next = s /\ sync'.id = source.id /\ sync'.token = source.token
      /\ sync'.upTo = 0 /\ sync'.prior = Idle.prior
  BY <1>1, <1>3 DEF Sync
<1>5. sync' \in Sync
  BY <1>1, <1>2, <1>3 DEF Sync
<1>6. QED
  BY <1>4, <1>5 DEF s

LEMMA DoneWith ==
  ASSUME TypeOK, NEW e, sync' = [sync EXCEPT !.todo = @ \ {e}]
  PROVE  sync' \in Sync /\ sync'.next = sync.next /\ Same /\ sync'.todo = sync.todo \ {e}
<1>1. sync \in Sync
  BY DEF TypeOK
<1>2. QED
  BY <1>1, TodoType DEF Same

LEMMA ListsTo ==
  ASSUME TypeOK, NEW batch \in SUBSET Events, NEW full \in BOOLEAN, Lists(batch, full)
  PROVE  /\ sync' \in Sync /\ sync'.next = "read-rows" /\ sync'.id = sync.id
         /\ sync'.token = sync.token /\ sync'.upTo = clock /\ sync'.full = full
         /\ sync'.todo = batch /\ sync'.prior = sync.prior
         /\ \A e \in Events : sync'.listed[e] = IF e \in batch THEN remote[e] ELSE Unknown
<1> DEFINE L == [e \in Events |-> IF e \in batch THEN remote[e] ELSE Unknown]
           g == [sync EXCEPT !.next = "read-rows", !.full = full, !.upTo = clock, !.todo = batch,
                  !.listed = L]
<1>1. L \in [Events -> [at : Change, live : BOOLEAN]]
  <2>1. Unknown \in [at : Change, live : BOOLEAN]
    BY BoundsAreNumbers DEF Unknown, Change, TypeOK
  <2>2. QED
    BY <2>1 DEF TypeOK
<1>2. clock \in Change /\ sync \in Sync
  BY DEF TypeOK
<1>3. \A e \in Events : L[e] = IF e \in batch THEN remote[e] ELSE Unknown
  OBVIOUS
<1>4. sync' = g
  BY DEF Lists
<1> HIDE DEF L
<1>5. /\ g.next = "read-rows" /\ g.id = sync.id /\ g.token = sync.token
      /\ g.upTo = clock /\ g.full = full /\ g.todo = batch /\ g.prior = sync.prior
      /\ g.listed = L
  BY <1>2 DEF Sync
<1>6. g \in Sync
  BY <1>1, <1>2, Zenon DEF Sync
<1> HIDE DEF g
<1>7. QED
  BY <1>3, <1>4, <1>5, <1>6, Zenon

-----------------------------------------------------------------------------
(* Every step keeps the types. *)

LEMMA TypesKept ==
  ASSUME TypeOK, [Next]_vars
  PROVE  TypeOK'
<1> USE TypesStay, BoundsAreNumbers
<1>1. CASE UNCHANGED vars
  BY <1>1 DEF vars, TypeOK
<1>2. ASSUME NEW e \in Events, Ages(e) PROVE TypeOK'
  BY <1>2 DEF Ages, TypeOK, stored, runs
<1>3. ASSUME NEW e \in Events, CheckOff(e) PROVE TypeOK'
  <2>1. rows' \in [Events -> Row]
    <3>1. \A r \in Row : [r EXCEPT !.done = ~r.done] \in Row
      BY Zenon DEF Row
    <3>2. rows \in [Events -> Row] /\ rows' = [rows EXCEPT ![e] = [rows[e] EXCEPT !.done = ~rows[e].done]]
      BY <1>3, Zenon DEF CheckOff, TypeOK
    <3>3. QED
      BY <3>1, <3>2
  <2>2. QED
    BY <1>3, <2>1 DEF CheckOff, TypeOK, provider, runs
<1>4. ASSUME NEW e \in Events, NEW live \in BOOLEAN, ProviderChanges(e, live) PROVE TypeOK'
  <2>1. clock + 1 \in Change \ {0}
    BY <1>4 DEF ProviderChanges, TypeOK, Change
  <2>2. remote' \in [Events -> [at : Change, live : BOOLEAN]]
    BY <1>4, <2>1 DEF ProviderChanges, TypeOK
  <2>3. QED
    BY <1>4, <2>1, <2>2 DEF ProviderChanges, TypeOK, stored, runs
<1>5. CASE TokensExpire
  <2>1. gones + 1 \in 0 .. bound.gone /\ clock \in Change
    BY <1>5 DEF TokensExpire, TypeOK
  <2>2. QED
    BY <1>5, <2>1 DEF TokensExpire, TypeOK, stored, runs
<1>6. ASSUME NEW n \in Channel, ChannelLapses(n) PROVE TypeOK'
  BY <1>6 DEF ChannelLapses, TypeOK, provider, stored, runs
<1>7. ASSUME NEW n \in Channel, Webhook(n) PROVE TypeOK'
  BY <1>7 DEF Webhook, TypeOK, provider, stored, Enqueued
<1>8. CASE SyncNow
  BY <1>8 DEF SyncNow, TypeOK, provider, stored, Enqueued
<1>9. CASE EnqueueAfter
  <2>1. watch' \in [Callers -> Watch]
    BY <1>9, NoWatchType, Zenon DEF EnqueueAfter, TypeOK
  <2>2. QED
    BY <1>9, <2>1 DEF EnqueueAfter, TypeOK, provider, stored, Enqueued
<1>10. CASE SweepFinds
  <2>1. watch' \in [Callers -> Watch]
    BY <1>10, SweepType DEF SweepFinds, TypeOK
  <2>2. QED
    BY <1>10, <2>1 DEF SweepFinds, TypeOK, provider, stored
<1>11. ASSUME NEW id \in 1 .. bound.sources, AddFeed(id) PROVE TypeOK'
  <2>1. id \in 0 .. bound.sources
    BY DEF TypeOK
  <2>2. source' \in Source
    BY <1>11, <2>1 DEF AddFeed, NoSource, Source, TypeOK, Change
  <2>3. watch' \in [Callers -> Watch]
    BY <1>11, <2>1, NoWatchType, Zenon DEF AddFeed, TypeOK
  <2>4. QED
    BY <1>11, <2>2, <2>3 DEF AddFeed, TypeOK, provider
<1>12. ASSUME NEW id \in 1 .. bound.sources, Connect(id) PROVE TypeOK'
  <2>1. id \in 0 .. bound.sources
    BY DEF TypeOK
  <2>2. source' \in Source
    BY <1>12, <2>1 DEF Connect, Source, TypeOK
  <2>3. watch' \in [Callers -> Watch]
    BY <1>12, <2>1, ConnectType, Zenon DEF Connect, TypeOK
  <2>4. QED
    BY <1>12, <2>2, <2>3 DEF Connect, TypeOK, provider
<1>13. ASSUME NEW c \in Callers, NEW n \in Channel, WatchEvents(c, n) PROVE TypeOK'
  <2>1. n \in 0 .. bound.channels /\ watch[c] \in Watch
    BY DEF Channel, TypeOK
  <2>2. watch' \in [Callers -> Watch]
    <3> DEFINE g == [watch[c] EXCEPT !.next = "store", !.new = n]
    <3>1. watch' = [watch EXCEPT ![c] = g]
      BY <1>13 DEF WatchEvents, TypeOK
    <3>2. g \in Watch
      BY <2>1, WatchGoes, Zenon
    <3> HIDE DEF g
    <3>3. QED
      BY <3>1, <3>2 DEF TypeOK
  <2>3. channel' \in [Channel -> {"free", "open", "lapsed", "stopped"}]
    BY <1>13 DEF WatchEvents, TypeOK
  <2>4. QED
    BY <1>13, <2>2, <2>3 DEF WatchEvents, TypeOK, provider, stored
<1>14. ASSUME NEW c \in Callers, WatchFails(c) PROVE TypeOK'
  <2>1. source' \in Source
    <3>1. CASE watch[c].lapsed \/ watch[c].old = 0
      BY <1>14, <3>1, StatusSet DEF WatchFails
    <3>2. CASE ~(watch[c].lapsed \/ watch[c].old = 0)
      BY <1>14, <3>2 DEF WatchFails, TypeOK
    <3>3. QED
      BY <3>1, <3>2
  <2>2. QED
    BY <1>14, <2>1, AfterType DEF WatchFails, TypeOK, provider
<1>15. ASSUME NEW c \in Callers, StoreChannel(c) PROVE TypeOK'
  <2>1. watch[c].new \in 0 .. bound.channels
    BY DEF TypeOK, Watch
  <2>2. source' \in Source
    BY <1>15, <2>1, ChannelSet DEF StoreChannel
  <2>3. QED
    BY <1>15, <2>2, ProceedsType DEF StoreChannel, TypeOK, provider
<1>16. ASSUME NEW c \in Callers, MarkRenewed(c) PROVE TypeOK'
  <2>1. source' \in Source
    BY <1>16, StatusSet DEF MarkRenewed
  <2>2. QED
    BY <1>16, <2>1, ProceedsType DEF MarkRenewed, TypeOK, provider
<1>17. ASSUME NEW c \in Callers, NEW answered \in BOOLEAN, StopOld(c, answered) PROVE TypeOK'
  <2>1. channel' \in [Channel -> {"free", "open", "lapsed", "stopped"}]
    BY <1>17 DEF StopOld, TypeOK
  <2>2. QED
    BY <1>17, <2>1, AfterType DEF StopOld, TypeOK, provider, stored
<1>18. ASSUME NEW answered \in BOOLEAN, Release(answered) PROVE TypeOK'
  <2>1. channel' \in [Channel -> {"free", "open", "lapsed", "stopped"}]
    BY <1>18 DEF Release, TypeOK
  <2>2. source.id \in 0 .. bound.sources
    BY DEF TypeOK, Source
  <2>3. QED
    BY <1>18, <2>1, <2>2 DEF Release, TypeOK, provider, stored
<1>19. CASE Remove
  <2>1. NoSource \in Source /\ NoRow \in Row
    BY DEF NoSource, NoRow, Source, Row, TypeOK, Change
  <2>2. QED
    BY <1>19, <2>1 DEF Remove, TypeOK, provider, Touch
<1>20. CASE StartSync
  <2>1. source.id \in 0 .. bound.sources /\ source.token \in Change
    BY DEF TypeOK, Source
  <2>2. sync' \in Sync
    <3>1. CASE source.id = 0
      BY <1>20, <3>1 DEF StartSync, TypeOK
    <3>2. CASE source.id # 0
      BY <1>20, <3>2, StartsTo
    <3>3. QED
      BY <3>1, <3>2
  <2>3. QED
    BY <1>20, <2>2 DEF StartSync, TypeOK, provider, stored
<1>21. CASE ListChanges
  <2>1. sync' \in Sync
    <3>1. CASE sync.token < horizon
      BY <1>21, <3>1, StepsTo DEF ListChanges
    <3>2. CASE ~(sync.token < horizon)
      <4>1. Listed(sync.token) \in SUBSET Events
        BY DEF Listed
      <4>2. QED
        BY <1>21, <3>2, <4>1, ListsTo DEF ListChanges
    <3>3. QED
      BY <3>1, <3>2
  <2>2. QED
    BY <1>21, <2>1 DEF ListChanges, TypeOK, provider, stored
<1>22. CASE DropToken
  <2>1. sync' \in Sync
    BY <1>22, StepsTo DEF DropToken
  <2>2. source' \in Source
    <3>1. 0 \in Change
      BY DEF TypeOK, Change
    <3>2. QED
      BY <1>22, <3>1, TokenSet DEF DropToken
  <2>3. QED
    BY <1>22, <2>1, <2>2 DEF DropToken, TypeOK, provider
<1>23. CASE ListAll
  <2>1. sync' \in Sync
    <3>1. Full \in SUBSET Events
      BY DEF Full, Listed
    <3>2. QED
      BY <1>23, <3>1, ListsTo DEF ListAll
  <2>2. QED
    BY <1>23, <2>1 DEF ListAll, TypeOK, provider, stored
<1>24. CASE ReadRows
  <2>1. sync' \in Sync
    BY <1>24, PriorType DEF ReadRows
  <2>2. QED
    BY <1>24, <2>1 DEF ReadRows, TypeOK, provider, stored
<1>25. ASSUME NEW e \in Events, ApplyLive(e) PROVE TypeOK'
  <2>1. sync' \in Sync
    <3>1. Steps("mark-error") \/ sync' = [sync EXCEPT !.todo = @ \ {e}]
      BY <1>25, Zenon DEF ApplyLive
    <3>2. QED
      BY <3>1, StepsTo, DoneWith
  <2>2. rows' \in [Events -> Row]
    <3>1. sync.id \in 0 .. bound.sources /\ sync.listed[e].at \in Change
      BY DEF TypeOK, Sync
    <3> DEFINE r == [owner |-> sync.id, at |-> sync.listed[e].at, done |-> rows[e].done]
    <3>2. rows[e].done \in BOOLEAN
      BY DEF TypeOK, Row
    <3>3. r \in Row
      BY <3>1, <3>2, Zenon DEF Row
    <3> HIDE DEF r
    <3>4. rows' = rows \/ rows' = [rows EXCEPT ![e] = r] \/ rows' = [rows EXCEPT ![e] = rows[e]]
      BY <1>25, Zenon DEF ApplyLive, r
    <3>5. QED
      BY <3>3, <3>4 DEF TypeOK
  <2>3. QED
    BY <1>25, <2>1, <2>2 DEF ApplyLive, TypeOK, provider
<1>26. ASSUME NEW e \in Events, ApplyCancelled(e) PROVE TypeOK'
  <2>1. sync' \in Sync
    BY <1>26, DoneWith DEF ApplyCancelled
  <2>2. NoRow \in Row
    BY DEF NoRow, Row, TypeOK, Change
  <2>3. rows' \in [Events -> Row]
    BY <1>26, <2>2 DEF ApplyCancelled, TypeOK
  <2>4. QED
    BY <1>26, <2>1, <2>3 DEF ApplyCancelled, TypeOK, provider
<1>27. CASE RemoveMissing
  <2>1. sync' \in Sync
    BY <1>27, StepsTo DEF RemoveMissing
  <2>2. NoRow \in Row
    BY DEF NoRow, Row, TypeOK, Change
  <2>3. rows' \in [Events -> Row]
    BY <1>27, <2>2 DEF RemoveMissing, TypeOK
  <2>4. QED
    BY <1>27, <2>1, <2>3 DEF RemoveMissing, TypeOK, provider
<1>28. CASE SaveToken
  <2>1. sync' \in Sync
    BY <1>28, StepsTo DEF SaveToken
  <2>2. sync.upTo \in Change
    BY DEF TypeOK, Sync
  <2>3. source' \in Source
    <3>1. CASE kind = "google"
      BY <1>28, <2>2, <3>1, TokenSet DEF SaveToken
    <3>2. CASE kind # "google"
      BY <1>28, <3>2 DEF SaveToken, TypeOK
    <3>3. QED
      BY <3>1, <3>2
  <2>4. QED
    BY <1>28, <2>1, <2>3 DEF SaveToken, TypeOK, provider
<1>29. CASE MarkSynced
  <2>1. sync' \in Sync
    BY <1>29, StepsTo DEF MarkSynced
  <2>2. source' \in Source
    BY <1>29, StatusSet DEF MarkSynced
  <2>3. QED
    BY <1>29, <2>1, <2>2 DEF MarkSynced, TypeOK, provider
<1>30. CASE MarkError
  <2>1. sync' \in Sync
    BY <1>30, StepsTo DEF MarkError
  <2>2. source' \in Source
    BY <1>30, StatusSet DEF MarkError
  <2>3. QED
    BY <1>30, <2>1, <2>2 DEF MarkError, TypeOK, provider
<1>31. ASSUME NEW retry \in BOOLEAN, EndSync(retry) PROVE TypeOK'
  BY <1>31, IdleType DEF EndSync, TypeOK, provider, stored
<1>32. CASE CallFails
  <2>1. sync' \in Sync
    BY <1>32, StepsTo DEF CallFails
  <2>2. faults + 1 \in 0 .. bound.faults
    BY <1>32 DEF CallFails, TypeOK
  <2>3. QED
    BY <1>32, <2>1, <2>2 DEF CallFails, TypeOK, provider, stored
<1>33. CASE Crash
  <2>1. faults + 1 \in 0 .. bound.faults
    BY <1>33 DEF Crash, TypeOK
  <2>2. Idle \in Sync /\ NoWatch \in Watch
    BY IdleType, NoWatchType, Zenon DEF TypeOK
  <2>3. QED
    BY <1>33, <2>1, <2>2 DEF Crash, TypeOK, provider, stored
<1>34. QED
  BY <1>1, <1>2, <1>3, <1>4, <1>5, <1>6, <1>7, <1>8, <1>9, <1>10, <1>11, <1>12, <1>13, <1>14,
     <1>15, <1>16, <1>17, <1>18, <1>19, <1>20, <1>21, <1>22, <1>23, <1>24, <1>25, <1>26, <1>27,
     <1>28, <1>29, <1>30, <1>31, <1>32, <1>33 DEF Next, SyncStep, WatchStep

-----------------------------------------------------------------------------
(* Owned *)

LEMMA OwnedKept ==
  ASSUME TypeOK, Owned, Next
  PROVE  Owned'
<1>0. rows \in [Events -> Row] /\ watch \in [Callers -> Watch] /\ bound \in Scenarios
  BY DEF TypeOK
<1>1. ASSUME UNCHANGED <<source, removal, rows, sync, watch>> PROVE Owned'
  BY <1>1 DEF Owned
<1>2. ASSUME NEW e \in Events, \/ Ages(e) \/ \E live \in BOOLEAN : ProviderChanges(e, live)
      PROVE Owned'
  BY <1>1, <1>2 DEF Ages, ProviderChanges, stored, runs
<1>3. ASSUME TokensExpire \/ SyncNow \/ \E n \in Channel : ChannelLapses(n) \/ Webhook(n)
      PROVE Owned'
  BY <1>1, <1>3 DEF TokensExpire, SyncNow, ChannelLapses, Webhook, stored, runs
<1>4. ASSUME NEW e \in Events, CheckOff(e) PROVE Owned'
  <2>1. \A d \in Events : rows'[d].owner = rows[d].owner
    BY <1>0, <1>4 DEF CheckOff, Row
  <2>2. QED
    BY <1>4, <2>1 DEF CheckOff, runs, Owned
\* A run of ensureWatchChannel goes on with the id it has.
<1>5. ASSUME source'.id = source.id, source'.token = source.token,
             source.id = 0 => source'.channel = source.channel,
             UNCHANGED <<removal, rows, sync>>,
             \A c \in Callers : watch'[c].next # "idle" => watch'[c].id # 0
      PROVE Owned'
  BY <1>5 DEF Owned
<1>6. ASSUME NEW c \in Callers, watch[c].next # "idle", watch' = After(c)
      PROVE \A d \in Callers : watch'[d].next # "idle" => watch'[d].id # 0
  <2>1. watch[c].id # 0 /\ watch[c].id \in 0 .. bound.sources
    BY <1>0, <1>6 DEF Owned, Watch
  <2>2. /\ NoWatch.next = "idle"
        /\ LET g == [NoWatch EXCEPT !.next = "enqueue", !.id = watch[c].id] IN g.id = watch[c].id
    BY <1>0, <2>1, NoWatchType, Zenon
  <2>3. \A d \in Callers : watch'[d] = IF d # c THEN watch[d]
                                       ELSE IF c = "callback"
                                       THEN [NoWatch EXCEPT !.next = "enqueue", !.id = watch[c].id]
                                       ELSE NoWatch
    BY <1>0, <1>6 DEF After
  <2>4. watch'[c].next # "idle" => watch'[c].id # 0
    BY <2>1, <2>2, <2>3
  <2>5. QED
    BY <2>3, <2>4 DEF Owned
<1>7. ASSUME NEW c \in Callers, watch[c].next # "idle", watch' = Proceeds(c)
      PROVE \A d \in Callers : watch'[d].next # "idle" => watch'[d].id # 0
  <2>1. CASE NextOf(watch[c]) = "over"
    BY <1>6, <1>7, <2>1 DEF Proceeds
  <2>2. CASE NextOf(watch[c]) # "over"
    <3>1. watch' = [watch EXCEPT ![c].next = NextOf(watch[c])]
      BY <1>7, <2>2 DEF Proceeds
    <3>2. \A d \in Callers : watch'[d].id = watch[d].id /\ (d # c => watch'[d] = watch[d])
      BY <1>0, <3>1 DEF Watch
    <3>3. QED
      BY <1>7, <3>2 DEF Owned
  <2>3. QED
    BY <2>1, <2>2
<1>8. CASE EnqueueAfter
  <2>1. watch'["callback"] = NoWatch /\ \A d \in Callers : d # "callback" => watch'[d] = watch[d]
    BY <1>0, <1>8 DEF EnqueueAfter, Callers
  <2>2. \A d \in Callers : watch'[d].next # "idle" => watch'[d].id # 0
    <3>1. NoWatch.next = "idle"
      BY <1>0, NoWatchType, Zenon
    <3>2. QED
      BY <2>1, <3>1 DEF Owned
  <2>3. QED
    BY <1>5, <1>8, <2>2 DEF EnqueueAfter, stored
<1>9. CASE SweepFinds
  <2>1. \A d \in Callers : d # "sweep" => watch'[d] = watch[d]
    BY <1>0, <1>9 DEF SweepFinds
  <2>2. watch'["sweep"].id = source.id /\ source.id # 0
    BY <1>0, <1>9, SweepType DEF SweepFinds, Callers
  <2>3. \A d \in Callers : watch'[d].next # "idle" => watch'[d].id # 0
    BY <2>1, <2>2 DEF Owned
  <2>4. QED
    BY <1>5, <1>9, <2>3 DEF SweepFinds, stored
<1>10. ASSUME NEW c \in Callers, NEW n \in Channel, WatchEvents(c, n) PROVE Owned'
  <2>1. watch' = [watch EXCEPT ![c].next = "store", ![c].new = n] /\ watch[c].next = "register"
    BY <1>10 DEF WatchEvents
  <2>2. \A d \in Callers : watch'[d].id = watch[d].id /\ (d # c => watch'[d] = watch[d])
    BY <1>0, <2>1 DEF Watch
  <2>3. \A d \in Callers : watch'[d].next # "idle" => watch'[d].id # 0
    BY <2>1, <2>2 DEF Owned
  <2>4. QED
    BY <1>5, <1>10, <2>3 DEF WatchEvents, stored
<1>11. ASSUME NEW c \in Callers, WatchFails(c) PROVE Owned'
  <2>1. source'.id = source.id /\ source'.token = source.token /\ source'.channel = source.channel
    BY <1>11, StatusSet DEF WatchFails
  <2>2. QED
    BY <1>5, <1>6, <1>11, <2>1 DEF WatchFails
<1>12. ASSUME NEW c \in Callers, StoreChannel(c) PROVE Owned'
  <2>1. watch[c].new \in 0 .. bound.channels /\ watch[c].id # 0
    BY <1>0, <1>12 DEF Watch, StoreChannel, Owned
  <2>2. /\ source'.id = source.id /\ source'.token = source.token
        /\ source.id = 0 => source'.channel = source.channel
    BY <1>12, <2>1, ChannelSet DEF StoreChannel
  <2>3. QED
    BY <1>5, <1>7, <1>12, <2>2 DEF StoreChannel
<1>13. ASSUME NEW c \in Callers, MarkRenewed(c) PROVE Owned'
  <2>1. source'.id = source.id /\ source'.token = source.token /\ source'.channel = source.channel
    BY <1>13, StatusSet DEF MarkRenewed
  <2>2. QED
    BY <1>5, <1>7, <1>13, <2>1 DEF MarkRenewed
<1>14. ASSUME NEW c \in Callers, NEW answered \in BOOLEAN, StopOld(c, answered) PROVE Owned'
  BY <1>5, <1>6, <1>14 DEF StopOld, stored
\* A source that is new has no row, and no run holds its id.
<1>15. ASSUME NEW id \in 1 .. bound.sources, source.id = 0 /\ id \notin Ids, source'.id = id,
              UNCHANGED <<removal, rows, sync>>,
              \A d \in Callers : watch'[d].next # "idle" => watch'[d].id # 0
       PROVE Owned'
  <2>1. id # 0 /\ removal = 0 /\ \A e \in Events : rows[e].owner = 0
    BY <1>0, <1>15, BoundsAreNumbers DEF Owned
  <2>2. QED
    BY <1>15, <2>1 DEF Owned
<1>16. ASSUME NEW id \in 1 .. bound.sources, AddFeed(id) PROVE Owned'
  <2>1. source'.id = id
    BY <1>16 DEF AddFeed, NoSource
  <2>2. id \in 0 .. bound.sources /\ id # 0
    BY <1>0, BoundsAreNumbers
  <2>3. /\ \A d \in Callers : d # "callback" => watch'[d] = watch[d]
        /\ watch'["callback"] = [NoWatch EXCEPT !.next = "enqueue", !.id = id]
    BY <1>0, <1>16 DEF AddFeed, Callers
  <2>4. \A d \in Callers : watch'[d].next # "idle" => watch'[d].id # 0
    <3>1. watch'["callback"].id = id
      BY <1>0, <2>2, <2>3, NoWatchType, Zenon
    <3>2. QED
      BY <2>2, <2>3, <3>1 DEF Owned
  <2>5. QED
    BY <1>15, <1>16, <2>1, <2>4 DEF AddFeed
<1>17. ASSUME NEW id \in 1 .. bound.sources, Connect(id) PROVE Owned'
  <2>1. id \in 0 .. bound.sources /\ id # 0
    BY <1>0, BoundsAreNumbers
  <2>2. \A d \in Callers : d # "callback" => watch'[d] = watch[d]
    BY <1>0, <1>17 DEF Connect
  <2>3. watch'["callback"].id = id
    BY <1>0, <1>17, <2>1, ConnectType, Zenon DEF Connect, Callers
  <2>4. \A d \in Callers : watch'[d].next # "idle" => watch'[d].id # 0
    BY <2>1, <2>2, <2>3 DEF Owned
  <2>5. source'.id = id /\ source'.token = source.token /\ source'.channel = source.channel
    BY <1>17 DEF Connect, TypeOK, Source
  <2>6. CASE id = source.id
    BY <1>5, <1>17, <2>4, <2>5, <2>6 DEF Connect
  <2>7. CASE source.id = 0 /\ id \notin Ids
    BY <1>15, <1>17, <2>4, <2>5, <2>7 DEF Connect
  <2>8. QED
    BY <1>17, <2>6, <2>7 DEF Connect
<1>18. ASSUME NEW answered \in BOOLEAN, Release(answered) PROVE Owned'
  BY <1>18 DEF Release, stored, Owned
<1>19. CASE Remove
  <2>1. removal = source.id /\ source.id # 0
    BY <1>19 DEF Remove, Owned
  <2>2. source' = NoSource
    BY <1>19, <2>1 DEF Remove, Touch
  <2>3. \A e \in Events : rows'[e].owner = 0
    BY <1>0, <1>19, <2>1 DEF Remove, Owned, NoRow
  <2>4. QED
    BY <1>19, <2>2, <2>3 DEF Remove, NoSource, Owned
\* A run of the sync.
<1>20. ASSUME source'.id = source.id, source.id = 0 => source'.token = 0,
              source'.channel = source.channel, UNCHANGED <<removal, watch>>,
              \A e \in Events : rows'[e].owner \in {0, source.id},
              \A e \in Events : rows[e].owner = 0 /\ sync.id # source.id => rows'[e].owner = 0,
              sync.next # "idle", sync'.id = sync.id,
              \A e \in Events : sync'.prior[e].owner \in {0, sync.id}
       PROVE Owned'
  BY <1>20 DEF Owned
<1>21. ASSUME UNCHANGED <<source, removal, rows, watch>>, sync.next # "idle",
              sync'.id = sync.id, sync'.prior = sync.prior
       PROVE Owned'
  BY <1>20, <1>21 DEF Owned
<1>22. ASSUME UNCHANGED <<source, removal, rows, watch>>, sync' = Idle PROVE Owned'
  BY <1>0, <1>22, IdleType DEF Owned, Absent
<1>23. CASE StartSync
  <2>1. CASE source.id = 0
    BY <1>1, <1>23, <2>1 DEF StartSync, stored
  <2>2. CASE source.id # 0
    <3>3. sync'.id = source.id /\ sync'.prior = Idle.prior
      BY <1>23, <2>2, StartsTo
    <3>4. QED
      BY <1>0, <1>23, <2>2, <3>3, IdleType DEF StartSync, stored, Owned, Absent
  <2>3. QED
    BY <2>1, <2>2
<1>24. CASE ListChanges
  <2>1. Listed(sync.token) \in SUBSET Events
    BY DEF Listed
  <2>2. sync'.id = sync.id /\ sync'.prior = sync.prior
    <3>1. CASE sync.token < horizon
      BY <1>24, <3>1, StepsTo DEF ListChanges, Same
    <3>2. CASE ~(sync.token < horizon)
      BY <1>24, <2>1, <3>2, ListsTo DEF ListChanges
    <3>3. QED
      BY <3>1, <3>2
  <2>3. QED
    BY <1>21, <1>24, <2>2 DEF ListChanges, stored
<1>25. CASE DropToken
  <2>1. sync'.id = sync.id /\ sync'.prior = sync.prior
    BY <1>25, StepsTo DEF DropToken, Same
  <2>2. 0 \in Change
    BY <1>0, BoundsAreNumbers DEF Change
  <2>3. /\ source'.id = source.id /\ source'.token \in {0, source.token}
        /\ source'.channel = source.channel
    BY <1>25, <2>2, TokenSet DEF DropToken
  <2>4. QED
    BY <1>20, <1>25, <2>1, <2>3 DEF DropToken, Owned
<1>26. CASE ListAll
  <2>1. Full \in SUBSET Events
    BY DEF Full, Listed
  <2>2. sync'.id = sync.id /\ sync'.prior = sync.prior
    BY <1>26, <2>1, ListsTo DEF ListAll
  <2>3. QED
    BY <1>21, <1>26, <2>2 DEF ListAll, stored
<1>27. CASE ReadRows
  <2>1. sync'.id = sync.id /\ \A e \in Events : sync'.prior[e].owner \in {0, rows[e].owner}
    BY <1>27, PriorType DEF ReadRows, Absent
  <2>2. \A e \in Events : rows[e].owner \in {0, sync.id}
    BY <1>27 DEF ReadRows, Owned
  <2>3. QED
    BY <1>20, <1>27, <2>1, <2>2 DEF ReadRows, stored, Owned
<1>28. ASSUME NEW e \in Events, ApplyLive(e) PROVE Owned'
  <2>1. Steps("mark-error") \/ sync' = [sync EXCEPT !.todo = @ \ {e}]
    BY <1>28, Zenon DEF ApplyLive
  <2>2. sync'.id = sync.id /\ sync'.prior = sync.prior
    BY <2>1, StepsTo, DoneWith DEF Same
  <2>3. \/ rows' = rows
        \/ sync.id = source.id /\ \A d \in Events : rows'[d].owner \in {sync.id, rows[d].owner}
    <3>1. \/ rows' = rows
          \/ rows' = [rows EXCEPT ![e] = rows[e]]
          \/ Mine /\ rows' = [rows EXCEPT ![e] = [owner |-> sync.id, at |-> sync.listed[e].at,
                                                  done |-> rows[e].done]]
      BY <1>28, Zenon DEF ApplyLive
    <3>2. QED
      BY <1>0, <3>1 DEF Mine
  <2>4. QED
    BY <1>20, <1>28, <2>2, <2>3 DEF ApplyLive, Owned
<1>29. ASSUME NEW e \in Events, ApplyCancelled(e) PROVE Owned'
  <2>1. sync'.id = sync.id /\ sync'.prior = sync.prior
    BY <1>29, DoneWith DEF ApplyCancelled, Same
  <2>2. \A d \in Events : rows'[d].owner \in {0, rows[d].owner}
    BY <1>0, <1>29 DEF ApplyCancelled, NoRow
  <2>3. QED
    BY <1>20, <1>29, <2>1, <2>2 DEF ApplyCancelled, Owned
<1>30. CASE RemoveMissing
  <2>1. sync'.id = sync.id /\ sync'.prior = sync.prior
    BY <1>30, StepsTo DEF RemoveMissing, Same
  <2>2. \A d \in Events : rows'[d].owner \in {0, rows[d].owner}
    BY <1>0, <1>30 DEF RemoveMissing, NoRow
  <2>3. QED
    BY <1>20, <1>30, <2>1, <2>2 DEF RemoveMissing, Owned
<1>31. CASE SaveToken
  <2>1. sync'.id = sync.id /\ sync'.prior = sync.prior /\ sync.next # "idle"
    BY <1>31, StepsTo DEF SaveToken, Same
  <2>2. sync.upTo \in Change /\ sync.id # 0
    BY <2>1 DEF TypeOK, Sync, Owned
  <2>3. /\ source'.id = source.id /\ source'.channel = source.channel
        /\ source.id = 0 => source'.token = source.token
    <3>1. CASE kind = "google"
      BY <1>31, <2>2, <3>1, TokenSet DEF SaveToken
    <3>2. CASE kind # "google"
      BY <1>31, <3>2 DEF SaveToken
    <3>3. QED
      BY <3>1, <3>2
  <2>4. QED
    BY <1>20, <1>31, <2>1, <2>3 DEF SaveToken, Owned
<1>32. ASSUME NEW s \in {"active", "error"}, Touch(sync.id, [source EXCEPT !.status = s]),
              NEW t \in {"done", "failed"}, Steps(t), sync.next # "idle",
              UNCHANGED <<removal, rows, watch>>
       PROVE Owned'
  <2>1. sync'.id = sync.id /\ sync'.prior = sync.prior
    BY <1>32, StepsTo DEF Same
  <2>2. source'.id = source.id /\ source'.token = source.token /\ source'.channel = source.channel
    BY <1>32, StatusSet
  <2>3. QED
    BY <1>20, <1>32, <2>1, <2>2 DEF Owned
<1>33. CASE MarkSynced
  BY <1>32, <1>33 DEF MarkSynced
<1>34. CASE MarkError
  BY <1>32, <1>34 DEF MarkError
<1>35. ASSUME NEW retry \in BOOLEAN, EndSync(retry) PROVE Owned'
  BY <1>22, <1>35 DEF EndSync, stored
<1>36. CASE CallFails
  BY <1>21, <1>36, StepsTo DEF CallFails, Same, stored
<1>37. CASE Crash
  <2>1. \A c \in Callers : watch'[c].next = "idle"
    BY <1>0, <1>37, NoWatchType, Zenon DEF Crash
  <2>2. QED
    BY <1>0, <1>37, <2>1, IdleType DEF Crash, stored, Owned, Absent
<1>38. QED
  BY <1>2, <1>3, <1>4, <1>8, <1>9, <1>10, <1>11, <1>12, <1>13, <1>14, <1>16, <1>17, <1>18, <1>19,
     <1>23, <1>24, <1>25, <1>26, <1>27, <1>28, <1>29, <1>30, <1>31, <1>33, <1>34, <1>35, <1>36,
     <1>37 DEF Next, SyncStep, WatchStep

-----------------------------------------------------------------------------
(* What the run of the sync and the callers of ensureWatchChannel leave alone. *)

LEMMA SyncLeaves ==
  ASSUME TypeOK, SyncStep \/ CallFails
  PROVE  /\ source'.id = source.id /\ source'.channel = source.channel
         /\ UNCHANGED <<bound, provider, channel, watch, removal>>
<1>1. 0 \in Change /\ sync.upTo \in Change
  BY BoundsAreNumbers DEF TypeOK, Change, Sync
<1>2. CASE StartSync \/ ListChanges \/ ListAll \/ ReadRows \/ CallFails
  BY <1>2 DEF StartSync, ListChanges, ListAll, ReadRows, CallFails, stored, provider
<1>3. CASE DropToken
  BY <1>1, <1>3, TokenSet DEF DropToken
<1>4. ASSUME NEW e \in Events, ApplyLive(e) \/ ApplyCancelled(e)
      PROVE  UNCHANGED <<source, bound, provider, channel, watch, removal>>
  BY <1>4 DEF ApplyLive, ApplyCancelled
<1>5. CASE RemoveMissing
  BY <1>5 DEF RemoveMissing
<1>6. CASE SaveToken
  <2>1. CASE kind = "google"
    BY <1>1, <1>6, <2>1, TokenSet DEF SaveToken
  <2>2. CASE kind # "google"
    BY <1>6, <2>2 DEF SaveToken
  <2>3. QED
    BY <2>1, <2>2
<1>7. CASE MarkSynced
  BY <1>7, StatusSet DEF MarkSynced
<1>8. CASE MarkError
  BY <1>8, StatusSet DEF MarkError
<1>9. ASSUME NEW retry \in BOOLEAN, EndSync(retry)
      PROVE  UNCHANGED <<source, bound, provider, channel, watch, removal>>
  BY <1>9 DEF EndSync, stored
<1>10. QED
  BY <1>2, <1>3, <1>4, <1>5, <1>6, <1>7, <1>8, <1>9 DEF SyncStep

LEMMA WatchLeaves ==
  ASSUME TypeOK, NEW c \in Callers, WatchStep(c)
  PROVE  /\ source'.id = source.id /\ source'.token = source.token
         /\ UNCHANGED <<bound, provider, rows, sync, removal>>
<1>1. ASSUME NEW n \in Channel, WatchEvents(c, n)
      PROVE  UNCHANGED <<source, bound, provider, rows, sync, removal>>
  BY <1>1 DEF WatchEvents, stored
<1>2. CASE WatchFails(c)
  <2>1. CASE watch[c].lapsed \/ watch[c].old = 0
    BY <1>2, <2>1, StatusSet DEF WatchFails
  <2>2. CASE ~(watch[c].lapsed \/ watch[c].old = 0)
    BY <1>2, <2>2 DEF WatchFails
  <2>3. QED
    BY <2>1, <2>2
<1>3. CASE StoreChannel(c)
  <2>1. watch[c].new \in 0 .. bound.channels
    BY DEF TypeOK, Watch
  <2>2. QED
    BY <1>3, <2>1, ChannelSet DEF StoreChannel
<1>4. CASE MarkRenewed(c)
  BY <1>4, StatusSet DEF MarkRenewed
<1>5. ASSUME NEW answered \in BOOLEAN, StopOld(c, answered)
      PROVE  UNCHANGED <<source, bound, provider, rows, sync, removal>>
  BY <1>5 DEF StopOld, stored
<1>6. QED
  BY <1>1, <1>2, <1>3, <1>4, <1>5 DEF WatchStep

-----------------------------------------------------------------------------
(* Watches *)

LEMMA WatchesKept ==
  ASSUME TypeOK, Owned, Watches, Next
  PROVE  Watches'
<1>0. /\ watch \in [Callers -> Watch] /\ bound \in Scenarios /\ source \in Source
      /\ channel \in [Channel -> {"free", "open", "lapsed", "stopped"}]
      /\ 0 \notin Channel /\ \A c \in Callers : watch[c].next # "idle" => watch[c].id # 0
  BY DEF TypeOK, Channel, Owned
<1>1. bound' = bound /\ Channel' = Channel
  <2>1. bound' = bound
    BY Zenon DEF Next, Ages, CheckOff, ProviderChanges, TokensExpire, ChannelLapses, Webhook, SyncNow,
       EnqueueAfter, SweepFinds, AddFeed, Connect, WatchStep, WatchEvents, WatchFails, StoreChannel,
       MarkRenewed, StopOld, Release, Remove, SyncStep, StartSync, ListChanges, DropToken, ListAll,
       ReadRows, ApplyLive, ApplyCancelled, RemoveMissing, SaveToken, MarkSynced, MarkError, EndSync,
       CallFails, Crash
  <2>2. QED
    BY <2>1, TypesStay, Zenon
\* No channel becomes free, and neither the row's nor a caller's changes.
<1>2. ASSUME \A n \in Channel : channel'[n] = "free" => channel[n] = "free",
             source'.id = source.id, source'.channel = source.channel, watch' = watch
      PROVE  Watches'
  BY <1>1, <1>2 DEF Watches
\* A caller drops what it held, or takes up the row's channel.
<1>3. ASSUME NEW c \in Callers,
             \A n \in Channel : channel'[n] = "free" => channel[n] = "free",
             source'.channel = source.channel,
             source'.id = source.id \/ source.channel = 0,
             \A d \in Callers : d # c => watch'[d] = watch[d],
             \/ watch'[c].next \in {"idle", "enqueue"} /\ watch'[c].old = 0
             \/ /\ watch'[c].next \in {"register", "enqueue"} /\ watch'[c].id = source'.id
                /\ watch'[c].old = source.channel,
             watch'[c].new = 0
      PROVE  Watches'
  <2>1. watch'[c].old \in {0, source.channel} /\ watch'[c].next \in {"idle", "enqueue", "register"}
    BY <1>3
  <2>2. \A n \in Channel : channel'[n] = "free" =>
          n # source'.channel /\ \A d \in Callers : n # watch'[d].old /\ n # watch'[d].new
    BY <1>0, <1>3, <2>1 DEF Watches
  <2>3. \A b \in Callers : watch'[b].next = "store" =>
          /\ watch'[b].new # source'.channel /\ watch'[b].new # 0
          /\ \A d \in Callers : /\ watch'[b].new # watch'[d].old
                                /\ d # b => watch'[b].new # watch'[d].new
    BY <1>3, <2>1 DEF Watches
  <2>4. \A b \in Callers : watch'[b].next \in {"mark-synced", "stop-old"} /\ watch'[b].old # 0 =>
          watch'[b].old # source'.channel
    BY <1>3, <2>1 DEF Watches
  <2>5. \A b \in Callers :
          watch'[b].next \in {"register", "store"} /\ watch'[b].id # source'.id /\ watch'[b].old # 0 =>
            watch'[b].old # source'.channel
    BY <1>3, <2>1 DEF Watches
  <2>6. QED
    BY <1>1, <2>2, <2>3, <2>4, <2>5 DEF Watches
\* No channel is the row's any more, or the row is gone.
<1>4. ASSUME source'.channel = 0, channel' = channel, watch' = watch
      PROVE  Watches'
  BY <1>0, <1>1, <1>4 DEF Watches
<1>5. CASE TokensExpire \/ SyncNow
  BY <1>2, <1>5 DEF TokensExpire, SyncNow, stored, runs
<1>6. ASSUME NEW e \in Events,
             Ages(e) \/ CheckOff(e) \/ \E live \in BOOLEAN : ProviderChanges(e, live)
      PROVE  Watches'
  BY <1>2, <1>6 DEF Ages, CheckOff, ProviderChanges, stored, runs
<1>7. ASSUME NEW n \in Channel, ChannelLapses(n) \/ Webhook(n) PROVE Watches'
  <2>1. \A m \in Channel : channel'[m] = "free" => channel[m] = "free"
    BY <1>0, <1>7 DEF ChannelLapses, Webhook
  <2>2. QED
    BY <1>2, <1>7, <2>1 DEF ChannelLapses, Webhook, stored, runs
<1>8. CASE EnqueueAfter
  <2>1. watch'["callback"] = NoWatch /\ \A d \in Callers : d # "callback" => watch'[d] = watch[d]
    BY <1>0, <1>8 DEF EnqueueAfter, Callers
  <2>2. "callback" \in Callers /\ NoWatch.next = "idle" /\ NoWatch.old = 0 /\ NoWatch.new = 0
    BY <1>0, NoWatchType, Zenon DEF Callers
  <2>3. QED
    BY <1>3, <1>8, <2>1, <2>2 DEF EnqueueAfter, stored
<1>9. CASE SweepFinds
  <2>1. \A d \in Callers : d # "sweep" => watch'[d] = watch[d]
    BY <1>0, <1>9 DEF SweepFinds
  <2>2. /\ "sweep" \in Callers /\ watch'["sweep"].next = "register" /\ watch'["sweep"].id = source.id
        /\ watch'["sweep"].old = source.channel /\ watch'["sweep"].new = 0
    BY <1>0, <1>9, SweepType DEF SweepFinds, Callers
  <2>3. QED
    BY <1>3, <1>9, <2>1, <2>2 DEF SweepFinds, stored
<1>10. ASSUME NEW id \in 1 .. bound.sources, AddFeed(id) PROVE Watches'
  <2>1. /\ \A d \in Callers : d # "callback" => watch'[d] = watch[d]
        /\ watch'["callback"] = [NoWatch EXCEPT !.next = "enqueue", !.id = id]
        /\ "callback" \in Callers
    BY <1>0, <1>10 DEF AddFeed, Callers
  <2>2. id \in 0 .. bound.sources
    BY <1>0, BoundsAreNumbers
  <2>3. watch'["callback"].next = "enqueue" /\ watch'["callback"].old = 0 /\ watch'["callback"].new = 0
    <3>1. NoWatch \in Watch /\ NoWatch.old = 0 /\ NoWatch.new = 0
      BY <1>0, NoWatchType, Zenon
    <3>2. QED
      BY <2>1, <3>1 DEF Watch
  <2>4. source.channel = 0 /\ source'.channel = 0
    BY <1>10 DEF AddFeed, NoSource, Owned
  <2>5. channel' = channel
    BY <1>10 DEF AddFeed
  <2>6. QED
    BY <1>3, <2>1, <2>3, <2>4, <2>5
<1>11. ASSUME NEW id \in 1 .. bound.sources, Connect(id) PROVE Watches'
  <2>1. id \in 0 .. bound.sources
    BY <1>0, BoundsAreNumbers
  <2>2. \A d \in Callers : d # "callback" => watch'[d] = watch[d]
    BY <1>0, <1>11 DEF Connect
  <2>3. /\ "callback" \in Callers /\ watch'["callback"].next \in {"register", "enqueue"}
        /\ watch'["callback"].id = id /\ watch'["callback"].old = source.channel
        /\ watch'["callback"].new = 0
    BY <1>0, <1>11, <2>1, ConnectType, Zenon DEF Connect, Callers
  <2>4. source'.id = id /\ source'.channel = source.channel
    BY <1>0, <1>11 DEF Connect, Source
  <2>5. id = source.id \/ source.channel = 0
    BY <1>11 DEF Connect, Owned
  <2>6. channel' = channel
    BY <1>11 DEF Connect
  <2>7. QED
    BY <1>3, <2>2, <2>3, <2>4, <2>5, <2>6
\* The provider answers with a channel nobody held.
<1>12. ASSUME NEW c \in Callers, NEW n \in Channel, WatchEvents(c, n) PROVE Watches'
  <2>1. /\ watch' = [watch EXCEPT ![c].next = "store", ![c].new = n] /\ watch[c].next = "register"
        /\ channel[n] = "free" /\ source' = source
    BY <1>12 DEF WatchEvents, stored
  <2>2. \A d \in Callers : d # c => watch'[d] = watch[d]
    BY <1>0, <2>1
  <2>3. /\ watch'[c].next = "store" /\ watch'[c].new = n /\ watch'[c].id = watch[c].id
        /\ watch'[c].old = watch[c].old
    BY <1>0, <2>1 DEF Watch
  <2>4. \A m \in Channel : channel'[m] = "free" => channel[m] = "free" /\ m # n
    BY <1>0, <1>12 DEF WatchEvents
  <2>5. n # source.channel /\ n # 0 /\ \A d \in Callers : n # watch[d].old /\ n # watch[d].new
    BY <1>0, <2>1 DEF Watches
  <2>6. \A m \in Channel : channel'[m] = "free" =>
          m # source'.channel /\ \A d \in Callers : m # watch'[d].old /\ m # watch'[d].new
    <3> SUFFICES ASSUME NEW m \in Channel, channel'[m] = "free"
                 PROVE  m # source'.channel /\ \A d \in Callers : m # watch'[d].old /\ m # watch'[d].new
      OBVIOUS
    <3>1. m # n /\ m # source.channel /\ \A d \in Callers : m # watch[d].old /\ m # watch[d].new
      BY <2>4 DEF Watches
    <3>2. ASSUME NEW d \in Callers PROVE m # watch'[d].old /\ m # watch'[d].new
      BY <2>2, <2>3, <3>1
    <3>3. QED
      BY <2>1, <3>1, <3>2
  <2>7. \A b \in Callers : watch'[b].next = "store" =>
          /\ watch'[b].new # source'.channel /\ watch'[b].new # 0
          /\ \A d \in Callers : /\ watch'[b].new # watch'[d].old
                                /\ d # b => watch'[b].new # watch'[d].new
    <3> SUFFICES ASSUME NEW b \in Callers, watch'[b].next = "store"
                 PROVE  /\ watch'[b].new # source'.channel /\ watch'[b].new # 0
                        /\ \A d \in Callers : /\ watch'[b].new # watch'[d].old
                                              /\ d # b => watch'[b].new # watch'[d].new
      OBVIOUS
    <3>1. \A d \in Callers : watch'[d].old = watch[d].old
      BY <2>2, <2>3
    <3>2. CASE b = c
      BY <2>1, <2>2, <2>3, <2>5, <3>1, <3>2, ZenonT(60)
    <3>3. CASE b # c
      <4>1. watch'[b] = watch[b] /\ watch[b].next = "store"
        BY <2>2, <3>3
      <4>2. /\ watch[b].new # source.channel /\ watch[b].new # 0
            /\ \A d \in Callers : /\ watch[b].new # watch[d].old
                                  /\ d # b => watch[b].new # watch[d].new
        BY <4>1 DEF Watches
      <4>3. watch[b].new # n
        BY <2>5
      <4>4. QED
        BY <2>1, <2>2, <2>3, <3>1, <4>1, <4>2, <4>3
    <3>4. QED
      BY <3>2, <3>3
  <2>8. \A b \in Callers : watch'[b].next \in {"mark-synced", "stop-old"} /\ watch'[b].old # 0 =>
          watch'[b].old # source'.channel
    BY <2>1, <2>2, <2>3 DEF Watches
  <2>9. \A b \in Callers :
          watch'[b].next \in {"register", "store"} /\ watch'[b].id # source'.id /\ watch'[b].old # 0 =>
            watch'[b].old # source'.channel
    BY <2>1, <2>2, <2>3, ZenonT(60) DEF Watches
  <2>10. QED
    BY <1>1, <2>6, <2>7, <2>8, <2>9 DEF Watches
<1>13. ASSUME NEW c \in Callers, WatchFails(c) PROVE Watches'
  <2>1. source'.id = source.id /\ source'.channel = source.channel
    <3>1. CASE watch[c].lapsed \/ watch[c].old = 0
      BY <1>13, <3>1, StatusSet DEF WatchFails
    <3>2. CASE ~(watch[c].lapsed \/ watch[c].old = 0)
      BY <1>13, <3>2 DEF WatchFails
    <3>3. QED
      BY <3>1, <3>2
  <2>2. watch' = After(c) /\ channel' = channel
    BY <1>13 DEF WatchFails
  <2>3. QED
    BY <1>3, <2>1, <2>2, AfterType
\* The row's channel is the caller's new one, or it is what it was.
<1>14. ASSUME NEW c \in Callers, StoreChannel(c) PROVE Watches'
  <2>1. watch[c].new \in 0 .. bound.channels /\ watch[c].next = "store"
    BY <1>0, <1>14 DEF Watch, StoreChannel
  <2>2. /\ source'.id = source.id
        /\ source'.channel = IF source.id = watch[c].id THEN watch[c].new ELSE source.channel
    BY <1>14, <2>1, ChannelSet DEF StoreChannel
  <2>3. watch' = Proceeds(c) /\ channel' = channel
    BY <1>14 DEF StoreChannel
  <2>4. /\ \A d \in Callers : d # c => watch'[d] = watch[d]
        /\ \/ watch'[c].next \in {"idle", "enqueue"} /\ watch'[c].old = 0 /\ watch'[c].new = 0
           \/ /\ watch'[c].next \in {"mark-synced", "stop-old"}
              /\ watch'[c].id = watch[c].id /\ watch'[c].old = watch[c].old
              /\ watch'[c].new = watch[c].new
    BY <2>3, ProceedsType
  <2>5. /\ watch'[c].next \notin {"store", "register"}
        /\ watch'[c].old \in {0, watch[c].old} /\ watch'[c].new \in {0, watch[c].new}
    BY <2>4
  <2>6. \A m \in Channel : channel'[m] = "free" =>
          m # source'.channel /\ \A d \in Callers : m # watch'[d].old /\ m # watch'[d].new
    <3>1. \A m \in Channel : channel'[m] = "free" => m # source'.channel
      BY <2>2, <2>3 DEF Watches
    <3>2. \A m \in Channel : channel'[m] = "free" =>
            \A d \in Callers : m # watch'[d].old /\ m # watch'[d].new
      BY <1>0, <2>3, <2>4, <2>5 DEF Watches
    <3>3. QED
      BY <3>1, <3>2
  <2>7. \A b \in Callers : watch'[b].next = "store" =>
          /\ watch'[b].new # source'.channel /\ watch'[b].new # 0
          /\ \A d \in Callers : /\ watch'[b].new # watch'[d].old
                                /\ d # b => watch'[b].new # watch'[d].new
    <3> SUFFICES ASSUME NEW b \in Callers, watch'[b].next = "store"
                 PROVE  /\ watch'[b].new # source'.channel /\ watch'[b].new # 0
                        /\ \A d \in Callers : /\ watch'[b].new # watch'[d].old
                                              /\ d # b => watch'[b].new # watch'[d].new
      OBVIOUS
    <3>1. b # c /\ watch'[b] = watch[b]
      BY <2>4, <2>5
    <3>2. watch[b].new # source'.channel /\ watch[b].new # 0
      BY <2>2, <3>1 DEF Watches
    <3>3. \A d \in Callers : watch[b].new # watch'[d].old
      BY <2>4, <2>5, <3>1, <3>2 DEF Watches
    <3>4. \A d \in Callers : d # b => watch[b].new # watch'[d].new
      BY <2>4, <2>5, <3>1, <3>2 DEF Watches
    <3>5. QED
      BY <3>1, <3>2, <3>3, <3>4
  <2>8. \A b \in Callers : watch'[b].next \in {"mark-synced", "stop-old"} /\ watch'[b].old # 0 =>
          watch'[b].old # source'.channel
    <3>1. watch'[c].old # 0 => watch'[c].old # source'.channel
      BY <2>1, <2>2, <2>5 DEF Watches
    <3>2. \A b \in Callers : b # c /\ watch[b].next \in {"mark-synced", "stop-old"}
            /\ watch[b].old # 0 => watch[b].old # source'.channel
      BY <2>1, <2>2 DEF Watches
    <3>3. QED
      BY <2>4, <3>1, <3>2
  <2>9. \A b \in Callers :
          watch'[b].next \in {"register", "store"} /\ watch'[b].id # source'.id /\ watch'[b].old # 0 =>
            watch'[b].old # source'.channel
    <3>1. \A b \in Callers : b # c /\ watch[b].next \in {"register", "store"}
            /\ watch[b].id # source.id /\ watch[b].old # 0 => watch[b].old # source'.channel
      BY <2>1, <2>2 DEF Watches
    <3>2. QED
      BY <2>2, <2>4, <2>5, <3>1
  <2>10. QED
    BY <1>1, <2>6, <2>7, <2>8, <2>9 DEF Watches
<1>15. ASSUME NEW c \in Callers, MarkRenewed(c) PROVE Watches'
  <2>1. source'.id = source.id /\ source'.channel = source.channel
    BY <1>15, StatusSet DEF MarkRenewed
  <2>2. watch' = Proceeds(c) /\ channel' = channel /\ watch[c].next = "mark-synced"
    BY <1>15 DEF MarkRenewed
  <2>3. /\ \A d \in Callers : d # c => watch'[d] = watch[d]
        /\ \/ watch'[c].next \in {"idle", "enqueue"} /\ watch'[c].old = 0 /\ watch'[c].new = 0
           \/ /\ watch'[c].next \in {"mark-synced", "stop-old"}
              /\ watch'[c].id = watch[c].id /\ watch'[c].old = watch[c].old
              /\ watch'[c].new = watch[c].new
    BY <2>2, ProceedsType
  <2>4. CASE watch'[c].next \in {"idle", "enqueue"} /\ watch'[c].old = 0 /\ watch'[c].new = 0
    BY <1>3, <2>1, <2>2, <2>3, <2>4
  <2>5. CASE /\ watch'[c].next \in {"mark-synced", "stop-old"}
             /\ watch'[c].id = watch[c].id /\ watch'[c].old = watch[c].old
             /\ watch'[c].new = watch[c].new
    <3>1. \A d \in Callers : /\ watch'[d].id = watch[d].id /\ watch'[d].old = watch[d].old
                             /\ watch'[d].new = watch[d].new
      BY <2>3, <2>5
    <3>2. \A d \in Callers : /\ watch'[d].next \in {"register", "store"} => watch'[d].next = watch[d].next
                             /\ watch'[d].next \in {"mark-synced", "stop-old"} =>
                                  watch[d].next \in {"mark-synced", "stop-old"}
      BY <2>2, <2>3, <2>5
    <3>3. QED
      BY <1>1, <2>1, <2>2, <3>1, <3>2 DEF Watches
  <2>6. QED
    BY <2>3, <2>4, <2>5
<1>16. ASSUME NEW c \in Callers, NEW answered \in BOOLEAN, StopOld(c, answered) PROVE Watches'
  <2>1. \A m \in Channel : channel'[m] = "free" => channel[m] = "free"
    BY <1>0, <1>16 DEF StopOld
  <2>2. watch' = After(c) /\ source' = source
    BY <1>16 DEF StopOld, stored
  <2>3. QED
    BY <1>3, <2>1, <2>2, AfterType
<1>17. ASSUME NEW answered \in BOOLEAN, Release(answered) PROVE Watches'
  <2>1. \A m \in Channel : channel'[m] = "free" => channel[m] = "free"
    BY <1>0, <1>17 DEF Release
  <2>2. QED
    BY <1>2, <1>17, <2>1 DEF Release, stored
<1>18. CASE Remove
  <2>1. removal = source.id
    BY <1>18 DEF Remove, Owned
  <2>2. source'.channel = 0
    BY <1>18, <2>1 DEF Remove, Touch, NoSource
  <2>3. QED
    BY <1>4, <1>18, <2>2 DEF Remove
<1>19. CASE SyncStep \/ CallFails
  BY <1>2, <1>19, SyncLeaves
<1>20. CASE Crash
  <2>1. \A c \in Callers : watch'[c].next = "idle" /\ watch'[c].old = 0 /\ watch'[c].new = 0
    BY <1>0, <1>20, NoWatchType, Zenon DEF Crash
  <2>2. source' = source /\ channel' = channel
    BY <1>20 DEF Crash, stored
  <2>3. QED
    BY <1>0, <1>1, <2>1, <2>2 DEF Watches
<1>21. QED
  BY <1>5, <1>6, <1>7, <1>8, <1>9, <1>10, <1>11, <1>12, <1>13, <1>14, <1>15, <1>16, <1>17, <1>18,
     <1>19, <1>20 DEF Next, WatchStep

-----------------------------------------------------------------------------
(* What the steps that are not the sync's leave of what it knows. *)

\* The rows, whatever becomes of their check-off.
RowsKept == \A e \in Events : rows'[e].owner = rows[e].owner /\ rows'[e].at = rows[e].at

\* The provider only goes on, and what is cancelled stays so.
RemoteMoves ==
  /\ clock <= clock'
  /\ \A e \in Events : \/ remote'[e] = remote[e]
                       \/ /\ remote'[e].at > clock /\ remote'[e].at <= clock'
                          /\ remote[e].at = 0 \/ remote[e].live
  /\ aged \subseteq aged'

Outside ==
  \/ \E e \in Events : Ages(e) \/ CheckOff(e) \/ \E live \in BOOLEAN : ProviderChanges(e, live)
  \/ TokensExpire
  \/ \E n \in Channel : ChannelLapses(n) \/ Webhook(n)
  \/ SyncNow \/ EnqueueAfter \/ SweepFinds
  \/ \E c \in Callers : WatchStep(c)
  \/ \E answered \in BOOLEAN : Release(answered)

LEMMA OutsideLeaves ==
  ASSUME TypeOK, Outside
  PROVE  /\ source'.id = source.id /\ source'.token = source.token /\ sync' = sync
         /\ RowsKept /\ RemoteMoves
<1>0. /\ rows \in [Events -> Row] /\ clock \in Nat
      /\ remote \in [Events -> [at : Change, live : BOOLEAN]]
  BY BoundsAreNumbers DEF TypeOK, Change
<1>1. ASSUME UNCHANGED <<remote, aged, clock>> PROVE RemoteMoves
  BY <1>0, <1>1 DEF RemoteMoves
<1>2. ASSUME NEW e \in Events, Ages(e)
      PROVE  UNCHANGED <<source, sync, rows>> /\ RemoteMoves
  BY <1>0, <1>2 DEF Ages, stored, runs, RemoteMoves
<1>3. ASSUME NEW e \in Events, CheckOff(e)
      PROVE  UNCHANGED <<source, sync>> /\ RowsKept /\ RemoteMoves
  <2>1. RowsKept
    BY <1>0, <1>3 DEF CheckOff, Row, RowsKept
  <2>2. QED
    BY <1>1, <1>3, <2>1 DEF CheckOff, provider, runs
<1>4. ASSUME NEW e \in Events, NEW live \in BOOLEAN, ProviderChanges(e, live)
      PROVE  UNCHANGED <<source, sync, rows>> /\ RemoteMoves
  <2>1. \A d \in Events : remote'[d] = IF d = e THEN [at |-> clock + 1, live |-> live] ELSE remote[d]
    BY <1>0, <1>4 DEF ProviderChanges
  <2>2. remote'[e].at = clock + 1
    BY <2>1
  <2>3. remote'[e].at > clock /\ remote'[e].at <= clock' /\ (remote[e].at = 0 \/ remote[e].live) /\ clock' = clock + 1
        /\ aged' = aged
    BY <1>0, <1>4, <2>2 DEF ProviderChanges
  <2>4. RemoteMoves
    BY <1>0, <2>1, <2>3 DEF RemoteMoves
  <2>5. QED
    BY <1>4, <2>4 DEF ProviderChanges, stored, runs
<1>5. ASSUME \/ TokensExpire \/ SyncNow \/ EnqueueAfter \/ SweepFinds
             \/ \E n \in Channel : ChannelLapses(n) \/ Webhook(n)
             \/ \E answered \in BOOLEAN : Release(answered)
      PROVE  UNCHANGED <<source, sync, rows>> /\ RemoteMoves
  <2>1. UNCHANGED <<source, sync, rows, remote, aged, clock>>
    BY <1>5 DEF TokensExpire, SyncNow, EnqueueAfter, SweepFinds, ChannelLapses, Webhook, Release,
       provider, stored, runs
  <2>2. QED
    BY <1>1, <2>1
<1>6. ASSUME NEW c \in Callers, WatchStep(c)
      PROVE  source'.id = source.id /\ source'.token = source.token
             /\ UNCHANGED <<sync, rows>> /\ RemoteMoves
  <2>1. /\ source'.id = source.id /\ source'.token = source.token
        /\ UNCHANGED <<sync, rows, remote, aged, clock>>
    BY <1>6, WatchLeaves DEF provider
  <2>2. QED
    BY <1>1, <2>1
<1>7. ASSUME UNCHANGED rows PROVE RowsKept
  BY <1>7 DEF RowsKept
<1>8. QED
  BY <1>2, <1>3, <1>4, <1>5, <1>6, <1>7 DEF Outside

\* A source that is new: nothing is stored under its id.
LEMMA NewSource ==
  ASSUME TypeOK, Owned, NEW id \in 1 .. bound.sources, AddFeed(id) \/ Connect(id)
  PROVE  /\ UNCHANGED <<clock, remote, aged, rows, sync>>
         /\ source'.id = id /\ id # 0
         /\ source'.token = source.token
         /\ id = source.id \/ (source.id = 0 /\ source.token = 0 /\ sync.id # id)
<1>1. id # 0
  BY BoundsAreNumbers DEF TypeOK
<1>2. CASE AddFeed(id)
  BY <1>1, <1>2 DEF AddFeed, NoSource, Owned, provider, Ids
<1>3. CASE Connect(id)
  <2>1. source'.id = id /\ source'.token = source.token
    BY <1>3 DEF Connect, TypeOK, Source
  <2>2. QED
    BY <1>1, <1>3, <2>1 DEF Connect, Owned, provider, Ids
<1>4. QED
  BY <1>2, <1>3

\* The source is gone, and every row of the feed with it.
LEMMA Removed ==
  ASSUME TypeOK, Owned, Remove
  PROVE  /\ source'.id = 0 /\ source'.token = 0
         /\ \A e \in Events : rows'[e].owner = 0
         /\ UNCHANGED <<clock, remote, aged, sync>>
<1>1. removal = source.id /\ source.id # 0
  BY DEF Remove, Owned
<1>2. source' = NoSource
  BY <1>1 DEF Remove, Touch
<1>3. \A e \in Events : rows'[e].owner = 0
  BY <1>1 DEF Remove, Owned, NoRow, TypeOK
<1>4. QED
  BY <1>2, <1>3 DEF Remove, NoSource, provider

LEMMA NextIs ==
  Next <=> \/ Outside \/ SyncStep \/ CallFails \/ Remove \/ Crash
           \/ \E id \in 1 .. bound.sources : AddFeed(id) \/ Connect(id)
BY DEF Next, Outside

-----------------------------------------------------------------------------
(* Stamps *)

LEMMA Numbers ==
  ASSUME TypeOK
  PROVE  /\ clock \in Nat /\ source.token \in Nat /\ sync.upTo \in Nat /\ sync.token \in Nat
         /\ \A e \in Events : /\ remote[e].at \in Nat /\ rows[e].at \in Nat
                              /\ sync.listed[e].at \in Nat /\ sync.prior[e].at \in Nat
<1>1. Change \subseteq Nat
  BY BoundsAreNumbers DEF TypeOK, Change
<1>2. QED
  BY <1>1 DEF TypeOK, Source, Sync, Row

\* What one listed event leaves of the rows, and of the run.
LEMMA LiveApplied ==
  ASSUME TypeOK, Owned, NEW e \in Events, ApplyLive(e)
  PROVE  /\ \A d \in Events : d # e => rows'[d] = rows[d]
         /\ rows'[e].done = rows[e].done
         /\ source' = source /\ remote' = remote /\ aged' = aged /\ clock' = clock
         /\ sync' \in Sync /\ Same
         /\ \/ rows' = rows /\ sync'.next = "mark-error" /\ sync'.todo = sync.todo
            \/ /\ sync'.next = "apply" /\ sync'.todo = sync.todo \ {e}
               /\ \/ Mine /\ rows'[e].owner = sync.id /\ rows'[e].at = sync.listed[e].at
                  \/ rows' = rows /\ sync.prior[e].owner # 0 /\ (Skipped(e) \/ ~Found(e))
<1> DEFINE writes == sync.prior[e].owner = 0 \/ (~Skipped(e) /\ Found(e))
<1>1. rows \in [Events -> Row]
  BY DEF TypeOK
<1>2. source' = source /\ remote' = remote /\ aged' = aged /\ clock' = clock
  BY DEF ApplyLive, provider
<1>3. CASE writes /\ ~Mine
  <2>1. Steps("mark-error") /\ rows' = rows
    BY <1>3, Zenon DEF ApplyLive
  <2>2. sync' \in Sync /\ sync'.next = "mark-error" /\ Same /\ sync'.todo = sync.todo
    BY <2>1, StepsTo
  <2>3. QED
    BY <1>2, <2>1, <2>2
<1>4. CASE ~(writes /\ ~Mine)
  <2>1. sync' = [sync EXCEPT !.todo = @ \ {e}] /\ sync.next = "apply"
    BY <1>4, Zenon DEF ApplyLive
  <2>2. sync' \in Sync /\ sync'.next = "apply" /\ Same /\ sync'.todo = sync.todo \ {e}
    BY <2>1, DoneWith
  <2>3. CASE writes
    <3> DEFINE r == [owner |-> sync.id, at |-> sync.listed[e].at, done |-> rows[e].done]
    <3>1. rows' = [rows EXCEPT ![e] = r] /\ Mine
      BY <1>4, <2>3, Zenon DEF ApplyLive
    <3>2. r.owner = sync.id /\ r.at = sync.listed[e].at /\ r.done = rows[e].done
      OBVIOUS
    <3> HIDE DEF r
    <3>3. rows'[e] = r /\ \A d \in Events : d # e => rows'[d] = rows[d]
      BY <1>1, <3>1
    <3>4. QED
      BY <1>2, <2>2, <3>1, <3>2, <3>3, Zenon
  <2>4. CASE ~writes
    <3>1. rows' = [rows EXCEPT ![e] = rows[e]]
      BY <1>4, <2>4, Zenon DEF ApplyLive
    <3>2. rows' = rows
      BY <1>1, <3>1
    <3>3. QED
      BY <1>2, <2>2, <2>4, <3>2
  <2>5. QED
    BY <2>3, <2>4
<1>5. QED
  BY <1>3, <1>4

LEMMA CancelledApplied ==
  ASSUME TypeOK, Owned, NEW e \in Events, ApplyCancelled(e)
  PROVE  /\ \A d \in Events : d # e => rows'[d] = rows[d]
         /\ Found(e) => rows'[e] = NoRow
         /\ ~Found(e) => rows'[e] = rows[e]
         /\ source' = source /\ remote' = remote /\ aged' = aged /\ clock' = clock
         /\ sync' \in Sync /\ Same /\ sync'.next = "apply" /\ sync'.todo = sync.todo \ {e}
         /\ e \in sync.todo /\ ~sync.listed[e].live /\ sync.next = "apply"
<1>1. sync' \in Sync /\ Same /\ sync'.next = "apply" /\ sync'.todo = sync.todo \ {e}
  BY DoneWith DEF ApplyCancelled
<1>2. \A d \in Events : rows'[d] = IF d = e THEN IF Found(e) THEN NoRow ELSE rows[e] ELSE rows[d]
  BY DEF ApplyCancelled, TypeOK
<1>3. QED
  BY <1>1, <1>2 DEF ApplyCancelled, provider

LEMMA MissingRemoved ==
  ASSUME TypeOK, RemoveMissing
  PROVE  /\ \A d \in Events :
              rows'[d] = IF sync.full /\ rows[d].owner = sync.id /\ ~sync.listed[d].live
                         THEN NoRow ELSE rows[d]
         /\ source' = source /\ remote' = remote /\ aged' = aged /\ clock' = clock
         /\ sync' \in Sync /\ Same /\ sync'.next = "save-token" /\ sync'.todo = sync.todo
         /\ sync.next = "apply" /\ sync.todo = {}
<1>1. sync' \in Sync /\ Same /\ sync'.next = "save-token" /\ sync'.todo = sync.todo
  BY StepsTo DEF RemoveMissing
<1>2. QED
  BY <1>1 DEF RemoveMissing, provider

LEMMA StampsKept ==
  ASSUME TypeOK, TypeOK', Owned, Stamps, SyncKnown, Next
  PROVE  Stamps'
<1>0. /\ clock \in Nat /\ source.token \in Nat /\ sync.upTo \in Nat
      /\ \A e \in Events : /\ remote[e].at \in Nat /\ rows[e].at \in Nat
                           /\ sync.listed[e].at \in Nat
  BY Numbers
<1>1. clock' \in Nat /\ \A e \in Events : remote'[e].at \in Nat /\ rows'[e].at \in Nat
  <2>1. bound' \in Scenarios
    BY DEF TypeOK
  <2>2. Change' \subseteq Nat
    BY <2>1, CalendarAssumption DEF Change
  <2>3. QED
    BY <2>2 DEF TypeOK, Row
\* The provider goes on; no row is written.
<1>2. ASSUME RemoteMoves, source'.token \in {0, source.token}, sync' = sync,
             \A e \in Events : rows'[e].owner # 0 => rows'[e].at = rows[e].at /\ rows[e].owner # 0
      PROVE  Stamps'
  <2>1. source'.token <= clock' /\ sync'.upTo <= clock'
    BY <1>0, <1>1, <1>2 DEF Stamps, RemoteMoves
  <2>2. ASSUME NEW e \in Events
        PROVE  remote'[e].at <= clock' /\ remote[e].at <= remote'[e].at
    BY <1>0, <1>1, <1>2 DEF Stamps, RemoteMoves
  <2>3. ASSUME NEW e \in Events, rows'[e].owner # 0
        PROVE  rows'[e].at \in 1 .. remote'[e].at
    <3>1. rows'[e].at = rows[e].at /\ rows[e].at \in 1 .. remote[e].at
      BY <1>2, <2>3 DEF Stamps
    <3>2. QED
      BY <1>0, <1>1, <2>2, <3>1
  <2>4. QED
    BY <2>1, <2>2, <2>3 DEF Stamps
\* The provider stands still.
<1>3. ASSUME clock' = clock, remote' = remote, source'.token \in {0, source.token, sync.upTo},
             sync'.upTo \in {0, sync.upTo, clock},
             \A e \in Events : \/ rows'[e] = rows[e]
                               \/ rows'[e].owner = 0
                               \/ rows'[e].at \in 1 .. remote[e].at
      PROVE  Stamps'
  BY <1>0, <1>3 DEF Stamps
<1>4. CASE Outside
  BY <1>2, <1>4, OutsideLeaves DEF RowsKept
<1>5. ASSUME NEW id \in 1 .. bound.sources, AddFeed(id) \/ Connect(id) PROVE Stamps'
  BY <1>3, <1>5, NewSource
<1>6. CASE Remove
  BY <1>3, <1>6, Removed
<1>7. CASE Crash
  BY <1>3, <1>7, IdleType DEF Crash, stored, provider, TypeOK
<1>8. CASE CallFails
  BY <1>3, <1>8, StepsTo DEF CallFails, stored, provider, Same
<1>9. CASE StartSync
  BY <1>3, <1>9, StartsTo DEF StartSync, stored, provider
<1>10. CASE ListChanges
  <2>1. Listed(sync.token) \in SUBSET Events
    BY DEF Listed
  <2>2. sync'.upTo \in {sync.upTo, clock}
    <3>1. CASE sync.token < horizon
      BY <1>10, <3>1, StepsTo DEF ListChanges, Same
    <3>2. CASE ~(sync.token < horizon)
      BY <1>10, <2>1, <3>2, ListsTo DEF ListChanges
    <3>3. QED
      BY <3>1, <3>2
  <2>3. QED
    BY <1>3, <1>10, <2>2 DEF ListChanges, stored, provider
<1>11. CASE DropToken
  <2>1. 0 \in Change
    BY BoundsAreNumbers DEF Change, TypeOK
  <2>2. source'.token \in {0, source.token} /\ sync'.upTo = sync.upTo
    BY <1>11, <2>1, TokenSet, StepsTo DEF DropToken, Same
  <2>3. QED
    BY <1>3, <1>11, <2>2 DEF DropToken, provider
<1>12. CASE ListAll
  <2>1. Full \in SUBSET Events
    BY DEF Full, Listed
  <2>2. sync'.upTo = clock
    BY <1>12, <2>1, ListsTo DEF ListAll
  <2>3. QED
    BY <1>3, <1>12, <2>2 DEF ListAll, stored, provider
<1>13. CASE ReadRows
  BY <1>3, <1>13, PriorType DEF ReadRows, stored, provider
\* A list is never ahead of the provider.
<1>14. ASSUME NEW e \in Events, ApplyLive(e) PROVE Stamps'
  <2>1. sync.listed[e].at \in 1 .. remote[e].at
    BY <1>0, <1>14 DEF ApplyLive, SyncKnown, Listing, ListKnown
  <2>2. \A d \in Events : rows'[d] = rows[d] \/ rows'[d].at \in 1 .. remote[d].at
    BY <1>14, <2>1, LiveApplied
  <2>3. source' = source /\ remote' = remote /\ clock' = clock /\ sync'.upTo = sync.upTo
    BY <1>14, LiveApplied DEF Same
  <2>4. QED
    BY <1>3, <2>2, <2>3
<1>15. ASSUME NEW e \in Events, ApplyCancelled(e) PROVE Stamps'
  <2>1. \A d \in Events : rows'[d] = rows[d] \/ rows'[d].owner = 0
    BY <1>15, CancelledApplied DEF NoRow
  <2>2. source' = source /\ remote' = remote /\ clock' = clock /\ sync'.upTo = sync.upTo
    BY <1>15, CancelledApplied DEF Same
  <2>3. QED
    BY <1>3, <2>1, <2>2
<1>16. CASE RemoveMissing
  <2>1. \A d \in Events : rows'[d] = rows[d] \/ rows'[d].owner = 0
    BY <1>16, MissingRemoved DEF NoRow
  <2>2. source' = source /\ remote' = remote /\ clock' = clock /\ sync'.upTo = sync.upTo
    BY <1>16, MissingRemoved DEF Same
  <2>3. QED
    BY <1>3, <2>1, <2>2
<1>17. CASE SaveToken
  <2>1. sync.upTo \in Change
    BY DEF TypeOK, Sync
  <2>2. source'.token \in {source.token, sync.upTo}
    <3>1. CASE kind = "google"
      BY <1>17, <2>1, <3>1, TokenSet DEF SaveToken
    <3>2. CASE kind # "google"
      BY <1>17, <3>2 DEF SaveToken
    <3>3. QED
      BY <3>1, <3>2
  <2>3. sync'.upTo = sync.upTo
    BY <1>17, StepsTo DEF SaveToken, Same
  <2>4. QED
    BY <1>3, <1>17, <2>2, <2>3 DEF SaveToken, provider
<1>18. CASE MarkSynced
  BY <1>3, <1>18, StatusSet, StepsTo DEF MarkSynced, Same, provider
<1>19. CASE MarkError
  BY <1>3, <1>19, StatusSet, StepsTo DEF MarkError, Same, provider
<1>20. ASSUME NEW retry \in BOOLEAN, EndSync(retry) PROVE Stamps'
  BY <1>3, <1>20, IdleType DEF EndSync, stored, provider, TypeOK
<1>21. QED
  BY <1>4, <1>5, <1>6, <1>7, <1>8, <1>9, <1>10, <1>11, <1>12, <1>13, <1>14, <1>15, <1>16, <1>17,
     <1>18, <1>19, <1>20, NextIs DEF SyncStep

-----------------------------------------------------------------------------
(* TokenKnown *)

\* What is caught stays so: the provider's next change comes after upTo.
LEMMA CaughtStays ==
  ASSUME TypeOK, Stamps, NEW upTo \in Nat, upTo <= clock, Caught(upTo),
         RemoteMoves, RowsKept, source'.id = source.id
  PROVE  \A e \in Events \ aged' : remote'[e].at \in 1 .. upTo => Matches(e)'
<1> SUFFICES ASSUME NEW e \in Events \ aged', remote'[e].at \in 1 .. upTo PROVE Matches(e)'
  OBVIOUS
<1>1. clock \in Nat /\ e \in Events \ aged /\ remote'[e].at <= upTo /\ remote'[e].at \in Nat
  BY Numbers DEF RemoteMoves
<1>2. remote'[e] = remote[e]
  BY <1>1 DEF RemoteMoves
<1>3. Matches(e)
  BY <1>1, <1>2 DEF Caught
<1>4. rows'[e].owner = rows[e].owner /\ rows'[e].at = rows[e].at
  BY DEF RowsKept
<1>5. QED
  BY <1>2, <1>3, <1>4 DEF Matches

LEMMA TokenKept ==
  ASSUME TypeOK, Owned, Stamps, SyncKnown, TokenKnown, Next
  PROVE  TokenKnown'
<1>0. /\ clock \in Nat /\ source.token \in Nat /\ sync.upTo \in Nat /\ sync.token \in Nat
      /\ \A e \in Events : /\ remote[e].at \in Nat /\ rows[e].at \in Nat
                           /\ sync.listed[e].at \in Nat
  BY Numbers
\* No event that the token covers is written.
<1>1. ASSUME source' = source, remote' = remote, aged' = aged,
             \A e \in Events : \/ rows'[e] = rows[e]
                               \/ source.token # 0 => remote[e].at \notin 1 .. source.token
      PROVE  TokenKnown'
  <2> SUFFICES ASSUME source.token # 0, NEW e \in Events \ aged, remote[e].at \in 1 .. source.token
               PROVE  Matches(e)'
    BY <1>1 DEF TokenKnown, Caught
  <2>1. Matches(e) /\ rows'[e] = rows[e]
    BY <1>1 DEF TokenKnown, Caught
  <2>2. QED
    BY <1>1, <2>1 DEF Matches
<1>2. ASSUME source'.id = source.id, source'.token \in {0, source.token}, remote' = remote,
             aged' = aged, rows' = rows
      PROVE  TokenKnown'
  BY <1>2 DEF TokenKnown, Caught, Matches
<1>3. ASSUME source'.token = 0 PROVE TokenKnown'
  BY <1>3 DEF TokenKnown
<1>4. CASE Outside
  <2>1. /\ source'.id = source.id /\ source'.token = source.token
        /\ RowsKept /\ RemoteMoves
    BY <1>4, OutsideLeaves
  <2>2. CASE source.token = 0
    BY <1>3, <2>1, <2>2
  <2>3. CASE source.token # 0
    <3>1. Caught(source.token) /\ source.token <= clock
      BY <2>3 DEF TokenKnown, Stamps
    <3>2. PICK n \in Nat : n = source.token
      BY <1>0
    <3>3. \A e \in Events \ aged' : remote'[e].at \in 1 .. n => Matches(e)'
      BY <2>1, <3>1, <3>2, CaughtStays
    <3>4. QED
      BY <2>1, <3>2, <3>3 DEF TokenKnown, Caught
  <2>4. QED
    BY <2>2, <2>3
<1>5. ASSUME NEW id \in 1 .. bound.sources, AddFeed(id) \/ Connect(id) PROVE TokenKnown'
  <2>1. /\ UNCHANGED <<clock, remote, aged, rows, sync>>
        /\ source'.id = id /\ source'.token = source.token
        /\ id = source.id \/ (source.id = 0 /\ source.token = 0)
    BY <1>5, NewSource
  <2>2. QED
    BY <1>2, <1>3, <2>1
<1>6. CASE Remove
  BY <1>3, <1>6, Removed
<1>7. CASE Crash
  BY <1>2, <1>7 DEF Crash, stored, provider
<1>8. CASE StartSync \/ ListChanges \/ ListAll \/ ReadRows \/ CallFails
  BY <1>2, <1>8 DEF StartSync, ListChanges, ListAll, ReadRows, CallFails, stored, provider
<1>9. CASE DropToken
  <2>1. 0 \in Change
    BY BoundsAreNumbers DEF Change, TypeOK
  <2>2. source'.token \in {0, source.token} /\ source'.id = source.id
    BY <1>9, <2>1, TokenSet DEF DropToken
  <2>3. QED
    BY <1>2, <1>9, <2>2 DEF DropToken, provider
\* A listed event has changed since the token, or the run has no token left.
<1>10. ASSUME NEW e \in Events, e \in sync.todo, sync.next = "apply", Mine
       PROVE  source.token # 0 => remote[e].at \notin 1 .. source.token
  <2>1. /\ sync.listed[e].at <= remote[e].at /\ sync.listed[e].at # 0
        /\ ~sync.full => sync.listed[e].at > sync.token
    BY <1>10 DEF SyncKnown, Listing, ListKnown
  <2>2. source.token = IF sync.full THEN 0 ELSE sync.token
    BY <1>10 DEF SyncKnown, Listing, Progress
  <2>3. QED
    BY <1>0, <2>1, <2>2
<1>11. ASSUME NEW e \in Events, ApplyLive(e) PROVE TokenKnown'
  <2>1. \A d \in Events : rows'[d] = rows[d] \/ (d = e /\ Mine)
    BY <1>11, LiveApplied
  <2>2. e \in sync.todo /\ sync.next = "apply"
    BY <1>11 DEF ApplyLive
  <2>3. source' = source /\ remote' = remote /\ aged' = aged
    BY <1>11, LiveApplied
  <2>4. QED
    BY <1>1, <1>10, <2>1, <2>2, <2>3
<1>12. ASSUME NEW e \in Events, ApplyCancelled(e) PROVE TokenKnown'
  <2>1. e \in sync.todo /\ sync.next = "apply"
    BY <1>12, CancelledApplied
  <2>2. \A d \in Events : rows'[d] = rows[d] \/ (d = e /\ Found(e))
    BY <1>12, CancelledApplied
  <2>3. Found(e) => Mine
    BY <2>1 DEF Found, Owned, Mine
  <2>4. source' = source /\ remote' = remote /\ aged' = aged
    BY <1>12, CancelledApplied
  <2>5. QED
    BY <1>1, <1>10, <2>1, <2>2, <2>3, <2>4
<1>13. CASE RemoveMissing
  <2>1. /\ source' = source /\ remote' = remote /\ aged' = aged /\ sync.next = "apply"
        /\ \A d \in Events : rows'[d] = rows[d] \/ (sync.full /\ rows[d].owner = sync.id)
    BY <1>13, MissingRemoved
  <2>2. CASE Mine /\ sync.full
    <3>1. source.token = 0
      BY <2>1, <2>2 DEF SyncKnown, Listing, Progress
    <3>2. QED
      BY <1>3, <2>1, <3>1
  <2>3. CASE ~(Mine /\ sync.full)
    <3>1. \A d \in Events : rows'[d] = rows[d]
      BY <2>1, <2>3 DEF Owned, Mine
    <3>2. QED
      BY <1>1, <2>1, <3>1
  <2>4. QED
    BY <2>2, <2>3
\* The token is what the run's list reached, and the rows hold that.
<1>14. CASE SaveToken
  <2>1. UNCHANGED <<remote, aged, rows>> /\ sync.next = "save-token"
    BY <1>14 DEF SaveToken, provider
  <2>2. sync.upTo \in Change
    BY DEF TypeOK, Sync
  <2>3. CASE kind = "google" /\ source.id = sync.id
    <3>1. source'.id = source.id /\ source'.token = sync.upTo
      BY <1>14, <2>2, <2>3, TokenSet DEF SaveToken
    <3>2. Caught(sync.upTo)
      BY <2>1, <2>3 DEF SyncKnown, Progress, Mine
    <3>3. QED
      BY <2>1, <3>1, <3>2 DEF TokenKnown, Caught, Matches
  <2>4. CASE ~(kind = "google" /\ source.id = sync.id)
    <3>1. source' = source
      BY <1>14, <2>4 DEF SaveToken, Touch
    <3>2. QED
      BY <1>2, <2>1, <3>1
  <2>5. QED
    BY <2>3, <2>4
<1>15. CASE MarkSynced
  BY <1>2, <1>15, StatusSet DEF MarkSynced, provider
<1>16. CASE MarkError
  BY <1>2, <1>16, StatusSet DEF MarkError, provider
<1>17. ASSUME NEW retry \in BOOLEAN, EndSync(retry) PROVE TokenKnown'
  BY <1>2, <1>17 DEF EndSync, stored, provider
<1>18. QED
  BY <1>4, <1>5, <1>6, <1>7, <1>8, <1>9, <1>11, <1>12, <1>13, <1>14, <1>15, <1>16, <1>17, NextIs
     DEF SyncStep

-----------------------------------------------------------------------------
(* SyncKnown *)

\* A list stays true of a provider that goes on and rows nobody writes.
LEMMA ListStays ==
  ASSUME TypeOK, TypeOK', Stamps, ListKnown, RemoteMoves, sync' = sync,
         \A e \in Events : rows'[e].owner \in {0, rows[e].owner}, sync.id # 0
  PROVE  ListKnown'
<1>0. /\ clock \in Nat /\ sync.upTo \in Nat /\ sync.token \in Nat
      /\ \A e \in Events : remote[e].at \in Nat /\ sync.listed[e].at \in Nat
  BY Numbers
<1> SUFFICES ASSUME NEW e \in Events
             PROVE  /\ sync.listed[e].at <= remote'[e].at
                    /\ sync.listed[e].at # 0 /\ ~sync.listed[e].live => ~remote'[e].live
                    /\ e \notin aged' /\ remote'[e].at \in 1 .. sync.upTo
                         /\ (sync.full \/ remote'[e].at > sync.token) => sync.listed[e] = remote'[e]
                    /\ ~sync.full /\ sync.listed[e].at # 0 => sync.listed[e].at > sync.token
                    /\ sync.full /\ rows'[e].owner = sync.id /\ sync.listed[e].at = 0 => e \in aged'
                    /\ e \in sync.todo => sync.listed[e].at # 0
  BY DEF ListKnown
<1>1. /\ ~sync.full /\ sync.listed[e].at # 0 => sync.listed[e].at > sync.token
      /\ e \in sync.todo => sync.listed[e].at # 0
  BY DEF ListKnown
<1>2. sync.full /\ rows'[e].owner = sync.id /\ sync.listed[e].at = 0 => e \in aged'
  BY DEF ListKnown, RemoteMoves
<1>3. CASE remote'[e] = remote[e]
  BY <1>1, <1>2, <1>3 DEF ListKnown, RemoteMoves
<1>4. CASE /\ remote'[e].at > clock /\ remote'[e].at <= clock'
           /\ remote[e].at = 0 \/ remote[e].live
  <2>1. remote[e].at <= clock /\ sync.listed[e].at <= remote[e].at /\ sync.upTo <= clock
    BY DEF Stamps, ListKnown
  <2>2. remote'[e].at \notin 1 .. sync.upTo
    BY <1>0, <1>4, <2>1
  <2>3. sync.listed[e].at <= remote'[e].at
    <3>1. bound' \in Scenarios /\ remote'[e].at \in Change'
      BY DEF TypeOK
    <3>2. remote'[e].at \in Nat
      BY <3>1, CalendarAssumption DEF Change
    <3>3. QED
      BY <1>0, <1>4, <2>1, <3>2
  <2>4. sync.listed[e].at # 0 /\ ~sync.listed[e].live => FALSE
    BY <1>0, <1>4, <2>1 DEF ListKnown
  <2>5. QED
    BY <1>1, <1>2, <2>2, <2>3, <2>4
<1>5. QED
  BY <1>3, <1>4 DEF RemoteMoves

\* And so does what the run has done of it.
LEMMA ProgressStays ==
  ASSUME TypeOK, Stamps, Progress, RemoteMoves, sync' = sync, RowsKept,
         source'.id = source.id, source'.token = source.token
  PROVE  Progress'
<1>1. /\ sync.next = "list" => source'.token = sync.token
      /\ sync.next = "list-all" => source'.token = 0
      /\ sync.next \in Listing => source'.token = IF sync.full THEN 0 ELSE sync.token
  BY DEF Progress
<1>2. sync.next \in {"read-rows", "apply"} =>
        \A e \in sync.todo : rows'[e].owner # 0 => rows'[e].at <= sync.listed[e].at
  BY DEF Progress, RowsKept, TypeOK, Sync
<1>3. ASSUME sync.next = "apply", NEW e \in Events, sync.listed[e].at # 0
      PROVE  IF e \in sync.todo
             THEN sync.prior[e].owner = rows'[e].owner /\ sync.prior[e].at = rows'[e].at
             ELSE Applied(e)'
  BY <1>3 DEF Progress, RowsKept, Applied
<1>4. ASSUME sync.next = "save-token", NEW e \in Events \ aged', remote'[e].at \in 1 .. sync.upTo
      PROVE  Matches(e)'
  <2>1. Caught(sync.upTo) /\ sync.upTo <= clock
    BY <1>4 DEF Progress, Stamps
  <2>2. PICK n \in Nat : n = sync.upTo
    BY Numbers
  <2>3. \A d \in Events \ aged' : remote'[d].at \in 1 .. n => Matches(d)'
    BY <2>1, <2>2, CaughtStays
  <2>4. QED
    BY <1>4, <2>2, <2>3
<1>5. sync.next = "save-token" => Caught(sync.upTo)'
  BY <1>4 DEF Caught
<1>6. QED
  BY <1>1, <1>2, <1>3, <1>5 DEF Progress

\* What a list holds when it is taken.
LEMMA ListsKnown ==
  ASSUME TypeOK, Owned, Stamps, NEW batch \in SUBSET Events, NEW full \in BOOLEAN,
         Lists(batch, full), UNCHANGED <<remote, aged, rows, clock>>, sync.next # "idle",
         \A e \in batch : remote[e].at # 0 /\ (~full => remote[e].at > sync.token),
         \A e \in Events \ (batch \cup aged) : remote[e].at # 0 =>
           ~full /\ remote[e].at <= sync.token
  PROVE  ListKnown' /\ \A e \in Events : sync'.listed[e].at # 0 => e \in batch
<1>0. /\ clock \in Nat /\ sync.token \in Nat
      /\ \A e \in Events : remote[e].at \in Nat /\ rows[e].at \in Nat
  BY Numbers
<1>1. /\ sync'.upTo = clock /\ sync'.full = full /\ sync'.todo = batch /\ sync'.token = sync.token
      /\ sync'.id = sync.id /\ sync.id # 0
      /\ \A e \in Events : sync'.listed[e] = IF e \in batch THEN remote[e] ELSE Unknown
  BY ListsTo DEF Owned
<1>2. Unknown.at = 0
  BY DEF Unknown
<1>3. ASSUME NEW e \in Events
      PROVE  /\ sync'.listed[e].at <= remote[e].at
             /\ sync'.listed[e].at # 0 /\ ~sync'.listed[e].live => ~remote[e].live
             /\ e \notin aged /\ remote[e].at \in 1 .. clock /\ (full \/ remote[e].at > sync.token) =>
                  sync'.listed[e] = remote[e]
             /\ ~full /\ sync'.listed[e].at # 0 => sync'.listed[e].at > sync.token
             /\ full /\ rows[e].owner = sync.id /\ sync'.listed[e].at = 0 => e \in aged
             /\ e \in batch => sync'.listed[e].at # 0
             /\ sync'.listed[e].at # 0 => e \in batch
  <2>1. CASE e \in batch
    <3>1. sync'.listed[e] = remote[e]
      BY <1>1, <2>1
    <3>2. QED
      BY <1>0, <2>1, <3>1
  <2>2. CASE e \notin batch
    <3>1. sync'.listed[e].at = 0
      BY <1>1, <1>2, <2>2
    <3>2. e \notin aged /\ remote[e].at # 0 => ~full /\ remote[e].at <= sync.token
      BY <2>2
    <3>3. rows[e].owner # 0 => remote[e].at # 0
      BY <1>0 DEF Stamps
    <3>4. QED
      BY <1>0, <1>1, <2>2, <3>1, <3>2, <3>3
  <2>3. QED
    BY <2>1, <2>2
<1>4. QED
  BY <1>1, <1>3 DEF ListKnown

LEMMA SyncKept ==
  ASSUME TypeOK, TypeOK', Owned, Stamps, SyncKnown, TokenKnown, Next
  PROVE  SyncKnown'
<1>0. /\ clock \in Nat /\ source.token \in Nat /\ sync.upTo \in Nat /\ sync.token \in Nat
      /\ \A e \in Events : /\ remote[e].at \in Nat /\ rows[e].at \in Nat
                           /\ sync.listed[e].at \in Nat /\ sync.prior[e].at \in Nat
  BY Numbers
<1> DEFINE Facts == /\ sync.next = "list" => sync.token # 0
                    /\ sync.next \in Listing /\ ~sync.full => sync.token # 0
                    /\ sync.next = "read-rows" =>
                         \A e \in Events : sync.listed[e].at # 0 => e \in sync.todo
<1>1. Facts
  BY DEF SyncKnown
\* The run stands still.
<1>2. ASSUME sync' = sync, RemoteMoves,
             \A e \in Events : rows'[e].owner \in {0, rows[e].owner},
             sync.next # "idle" /\ Mine' => Progress'
      PROVE  SyncKnown'
  <2>1. sync.next \in Listing => sync.id # 0
    BY DEF Owned, Listing
  <2>2. sync'.next \in Listing => ListKnown'
    BY <1>2, <2>1, ListStays DEF SyncKnown
  <2>3. QED
    BY <1>1, <1>2, <2>2 DEF SyncKnown
<1>3. CASE Outside
  <2>1. /\ source'.id = source.id /\ source'.token = source.token /\ sync' = sync
        /\ RowsKept /\ RemoteMoves
    BY <1>3, OutsideLeaves
  <2>2. Mine' <=> Mine
    BY <2>1 DEF Mine
  <2>3. sync.next # "idle" /\ Mine => Progress'
    BY <2>1, ProgressStays DEF SyncKnown
  <2>4. QED
    BY <1>2, <2>1, <2>2, <2>3 DEF RowsKept
<1>4. ASSUME NEW id \in 1 .. bound.sources, AddFeed(id) \/ Connect(id) PROVE SyncKnown'
  <2>1. /\ UNCHANGED <<clock, remote, aged, rows, sync>>
        /\ source'.id = id /\ id # 0
        /\ source'.token = source.token
        /\ id = source.id \/ (source.id = 0 /\ source.token = 0 /\ sync.id # id)
    BY <1>4, NewSource
  <2>2. RemoteMoves /\ RowsKept
    BY <1>0, <2>1 DEF RemoteMoves, RowsKept
  <2>3. Mine' => Mine /\ source'.id = source.id
    BY <2>1 DEF Mine
  <2>4. sync.next # "idle" /\ Mine' => Progress'
    BY <2>1, <2>2, <2>3, ProgressStays DEF SyncKnown
  <2>5. QED
    BY <1>2, <2>1, <2>2, <2>4
<1>5. CASE Remove
  <2>1. /\ source'.id = 0 /\ UNCHANGED <<clock, remote, aged, sync>>
        /\ \A e \in Events : rows'[e].owner = 0
    BY <1>5, Removed
  <2>2. RemoteMoves
    BY <1>0, <2>1 DEF RemoteMoves
  <2>3. sync.next # "idle" => ~Mine'
    BY <2>1 DEF Mine, Owned
  <2>4. QED
    BY <1>2, <2>1, <2>2, <2>3
\* The run has no list, and no token it counts on.
<1>6. ASSUME sync'.next \notin Listing \cup {"list", "list-all"} PROVE SyncKnown'
  BY <1>6 DEF SyncKnown, Progress, Listing
<1>7. CASE Crash
  BY <1>6, <1>7, IdleType DEF Crash, TypeOK, Listing
<1>8. CASE CallFails
  BY <1>6, <1>8, StepsTo DEF CallFails, Listing
<1>9. CASE MarkSynced
  BY <1>6, <1>9, StepsTo DEF MarkSynced, Listing
<1>10. CASE MarkError
  BY <1>6, <1>10, StepsTo DEF MarkError, Listing
<1>11. CASE SaveToken
  BY <1>6, <1>11, StepsTo DEF SaveToken, Listing
<1>12. ASSUME NEW retry \in BOOLEAN, EndSync(retry) PROVE SyncKnown'
  BY <1>6, <1>12, IdleType DEF EndSync, TypeOK, Listing
<1>13. CASE StartSync
  <2>1. CASE source.id = 0
    <3>1. UNCHANGED <<sync, source, rows, remote, aged>>
      BY <1>13, <2>1 DEF StartSync, stored, provider
    <3>2. QED
      BY <3>1 DEF SyncKnown, ListKnown, Progress, Mine, Caught, Matches, Applied
  <2>2. CASE source.id # 0
    <3>1. /\ sync'.next = IF source.token = 0 THEN "list-all" ELSE "list"
          /\ sync'.token = source.token /\ source' = source
      BY <1>13, <2>2, StartsTo DEF StartSync, stored
    <3>2. sync'.next \notin {"read-rows", "apply", "save-token"}
      BY <3>1
    <3>3. QED
      BY <3>1, <3>2 DEF SyncKnown, Progress, Listing
  <2>3. QED
    BY <2>1, <2>2
\* The list is all that changed since the token, or all there is.
<1>14. ASSUME NEW batch \in SUBSET Events, NEW full \in BOOLEAN, Lists(batch, full),
              UNCHANGED <<remote, aged, rows, clock, source>>, ListKnown',
              \A e \in Events : sync'.listed[e].at # 0 => e \in batch,
              ~full => sync.token # 0,
              Mine => source.token = IF full THEN 0 ELSE sync.token
       PROVE  SyncKnown'
  <2>1. /\ sync'.next = "read-rows" /\ sync'.full = full /\ sync'.todo = batch
        /\ sync'.token = sync.token /\ sync'.id = sync.id
        /\ \A e \in Events : sync'.listed[e] = IF e \in batch THEN remote[e] ELSE Unknown
    BY <1>14, ListsTo
  <2>2. Mine' <=> Mine
    BY <1>14, <2>1 DEF Mine
  <2>3. ASSUME NEW e \in batch, rows[e].owner # 0 PROVE rows[e].at <= sync'.listed[e].at
    <3>1. sync'.listed[e] = remote[e] /\ rows[e].at \in 1 .. remote[e].at
      BY <2>1, <2>3 DEF Stamps
    <3>2. QED
      BY <1>0, <3>1
  <2>4. sync'.next \notin {"list", "list-all", "apply", "save-token"}
    BY <2>1
  <2>5. Mine => Progress'
    BY <1>14, <2>1, <2>3, <2>4 DEF Progress
  <2>6. QED
    BY <1>14, <2>1, <2>2, <2>4, <2>5 DEF SyncKnown
<1>15. CASE ListChanges
  <2>1. CASE sync.token < horizon
    BY <1>6, <1>15, <2>1, StepsTo DEF ListChanges, Listing
  <2>2. CASE ~(sync.token < horizon)
    <3>1. /\ Lists(Listed(sync.token), FALSE) /\ sync.next = "list"
          /\ UNCHANGED <<remote, aged, rows, clock, source>>
      BY <1>15, <2>2 DEF ListChanges, stored, provider
    <3>2. PICK B \in SUBSET Events : B = Listed(sync.token)
      BY DEF Listed
    <3>3. \A e \in Events : e \in B <=> remote[e].at > sync.token
      BY <3>2 DEF Listed
    <3>4. \A e \in B : remote[e].at # 0 /\ remote[e].at > sync.token
      BY <1>0, <3>3
    <3>5. \A e \in Events \ (B \cup aged) : remote[e].at <= sync.token
      BY <1>0, <3>3
    <3>6. Lists(B, FALSE)
      BY <3>1, <3>2
    <3>7. ListKnown' /\ \A e \in Events : sync'.listed[e].at # 0 => e \in B
      BY <3>1, <3>4, <3>5, <3>6, ListsKnown
    <3>8. sync.token # 0 /\ (Mine => source.token = sync.token)
      BY <3>1 DEF SyncKnown, Progress
    <3>9. QED
      BY <1>14, <3>1, <3>6, <3>7, <3>8
  <2>3. QED
    BY <2>1, <2>2
<1>16. CASE ListAll
  <2>1. /\ Lists(Full, TRUE) /\ sync.next = "list-all"
        /\ UNCHANGED <<remote, aged, rows, clock, source>>
    BY <1>16 DEF ListAll, stored, provider
  <2>2. PICK B \in SUBSET Events : B = Full
    BY DEF Full, Listed
  <2>3. \A e \in B : remote[e].at # 0
    BY <1>0, <2>2 DEF Full, Listed
  <2>4. \A e \in Events \ (B \cup aged) : remote[e].at = 0
    BY <1>0, <2>2 DEF Full, Listed
  <2>5. Lists(B, TRUE)
    BY <2>1, <2>2
  <2>6. ListKnown' /\ \A e \in Events : sync'.listed[e].at # 0 => e \in B
    BY <2>1, <2>3, <2>4, <2>5, ListsKnown
  <2>7. Mine => source.token = 0
    BY <2>1 DEF SyncKnown, Progress
  <2>8. QED
    BY <1>14, <2>1, <2>5, <2>6, <2>7
\* The token is gone before the next list.
<1>17. CASE DropToken
  <2>1. 0 \in Change
    BY BoundsAreNumbers DEF Change, TypeOK
  <2>2. /\ source'.id = source.id /\ sync'.next = "list-all" /\ sync'.id = sync.id
        /\ source'.token = IF source.id = sync.id THEN 0 ELSE source.token
    BY <1>17, <2>1, TokenSet, StepsTo DEF DropToken, Same
  <2>3. sync'.next \notin Listing \cup {"list"}
    BY <2>2 DEF Listing
  <2>4. Mine' => source'.token = 0
    BY <2>2 DEF Mine
  <2>5. QED
    BY <2>2, <2>3, <2>4 DEF SyncKnown, Progress, Listing
<1>18. CASE ReadRows
  <2>1. /\ sync'.next = "apply" /\ sync'.id = sync.id /\ sync'.token = sync.token
        /\ sync'.upTo = sync.upTo /\ sync'.full = sync.full /\ sync'.todo = sync.todo
        /\ sync'.listed = sync.listed
        /\ \A e \in Events : sync'.prior[e] = IF e \in sync.todo
                             THEN [owner |-> rows[e].owner, at |-> rows[e].at] ELSE Absent
    BY <1>18, PriorType DEF ReadRows
  <2>2. UNCHANGED <<source, rows, remote, aged>> /\ sync.next = "read-rows"
    BY <1>18 DEF ReadRows, stored, provider
  <2>3. ListKnown /\ (~sync.full => sync.token # 0)
        /\ \A e \in Events : sync.listed[e].at # 0 => e \in sync.todo
    BY <2>2 DEF SyncKnown, Listing
  <2>4. ListKnown'
    BY <2>1, <2>2, <2>3 DEF ListKnown
  <2>5. Mine' => Mine
    BY <2>1, <2>2 DEF Mine
  <2>6. ASSUME Progress PROVE Progress'
    <3>1. \A e \in Events : sync'.listed[e].at # 0 =>
            /\ e \in sync'.todo
            /\ sync'.prior[e].owner = rows'[e].owner /\ sync'.prior[e].at = rows'[e].at
      <4> SUFFICES ASSUME NEW e \in Events, sync'.listed[e].at # 0
                   PROVE  /\ e \in sync'.todo
                          /\ sync'.prior[e].owner = rows'[e].owner
                          /\ sync'.prior[e].at = rows'[e].at
        OBVIOUS
      <4>1. e \in sync.todo /\ e \in sync'.todo
        BY <2>1, <2>3
      <4>2. sync'.prior[e] = [owner |-> rows[e].owner, at |-> rows[e].at]
        BY <2>1, <4>1
      <4>3. QED
        BY <2>2, <4>1, <4>2
    <3>2. /\ source'.token = IF sync'.full THEN 0 ELSE sync'.token
          /\ \A e \in sync'.todo : rows'[e].owner # 0 => rows'[e].at <= sync'.listed[e].at
      BY <2>1, <2>2, <2>6 DEF Progress, Listing
    <3>3. sync'.next \notin {"list", "list-all", "save-token"}
      BY <2>1
    <3>4. QED
      BY <3>1, <3>2, <3>3 DEF Progress
  <2>7. QED
    BY <2>1, <2>2, <2>3, <2>4, <2>5, <2>6 DEF SyncKnown, Listing
\* One listed event is done with: its row is what the list held.
<1>19. ASSUME NEW e \in Events, sync.next = "apply", e \in sync.todo,
              UNCHANGED <<source, remote, aged>>, Same, sync'.next = "apply",
              sync'.todo = sync.todo \ {e},
              \A d \in Events : d # e => rows'[d] = rows[d],
              Mine /\ Progress => Applied(e)'
       PROVE  SyncKnown'
  <2>1. ListKnown /\ (~sync.full => sync.token # 0)
    BY <1>19 DEF SyncKnown, Listing
  <2>2. sync.listed[e].at # 0
    BY <1>19, <2>1 DEF ListKnown
  <2>3. ListKnown'
    <3> SUFFICES ASSUME NEW d \in Events
                 PROVE  /\ sync.listed[d].at <= remote[d].at
                        /\ sync.listed[d].at # 0 /\ ~sync.listed[d].live => ~remote[d].live
                        /\ d \notin aged /\ remote[d].at \in 1 .. sync.upTo
                             /\ (sync.full \/ remote[d].at > sync.token) => sync.listed[d] = remote[d]
                        /\ ~sync.full /\ sync.listed[d].at # 0 => sync.listed[d].at > sync.token
                        /\ sync.full /\ rows'[d].owner = sync.id /\ sync.listed[d].at = 0 => d \in aged
                        /\ d \in sync'.todo => sync.listed[d].at # 0
      BY <1>19 DEF ListKnown, Same
    <3>1. CASE d = e
      BY <1>19, <2>1, <2>2, <3>1 DEF ListKnown
    <3>2. CASE d # e
      <4>1. rows'[d] = rows[d] /\ (d \in sync'.todo => d \in sync.todo)
        BY <1>19, <3>2
      <4>2. QED
        BY <2>1, <4>1 DEF ListKnown
    <3>3. QED
      BY <3>1, <3>2
  <2>4. Mine' => Mine
    BY <1>19 DEF Mine, Same
  <2>5. ASSUME Progress, Mine PROVE Progress'
    <3>1. Applied(e)'
      BY <1>19, <2>5
    <3>2. ASSUME NEW d \in Events, sync.listed[d].at # 0
          PROVE  IF d \in sync'.todo
                 THEN sync.prior[d].owner = rows'[d].owner /\ sync.prior[d].at = rows'[d].at
                 ELSE Applied(d)'
      <4>1. CASE d = e
        BY <1>19, <3>1, <4>1
      <4>2. CASE d # e
        <5>1. rows'[d] = rows[d] /\ (d \in sync'.todo <=> d \in sync.todo)
          BY <1>19, <4>2
        <5>2. IF d \in sync.todo
              THEN sync.prior[d].owner = rows[d].owner /\ sync.prior[d].at = rows[d].at
              ELSE Applied(d)
          BY <1>19, <2>5, <3>2 DEF Progress
        <5>3. QED
          BY <1>19, <5>1, <5>2 DEF Applied, Same
      <4>3. QED
        BY <4>1, <4>2
    <3>3. \A d \in sync'.todo : rows'[d].owner # 0 => rows'[d].at <= sync.listed[d].at
      <4> SUFFICES ASSUME NEW d \in sync'.todo PROVE rows'[d].owner # 0 => rows'[d].at <= sync.listed[d].at
        OBVIOUS
      <4>1. d \in sync.todo /\ d # e /\ d \in Events
        BY <1>19 DEF TypeOK, Sync
      <4>2. QED
        BY <1>19, <2>5, <4>1 DEF Progress
    <3>4. source'.token = IF sync.full THEN 0 ELSE sync.token
      BY <1>19, <2>5 DEF Progress, Listing
    <3>5. sync'.next \notin {"list", "list-all", "save-token"}
      BY <1>19
    <3>6. QED
      BY <1>19, <3>2, <3>3, <3>4, <3>5 DEF Progress, Same
  <2>6. QED
    BY <1>19, <2>1, <2>3, <2>4, <2>5 DEF SyncKnown, Listing, Same
<1>20. ASSUME NEW e \in Events, ApplyLive(e) PROVE SyncKnown'
  <2>1. sync.next = "apply" /\ e \in sync.todo /\ sync.listed[e].live
    BY <1>20 DEF ApplyLive
  <2>2. CASE sync'.next = "mark-error"
    BY <1>6, <2>2 DEF Listing
  <2>3. CASE sync'.next # "mark-error"
    <3>1. /\ \A d \in Events : d # e => rows'[d] = rows[d]
          /\ source' = source /\ remote' = remote /\ aged' = aged /\ Same
          /\ sync'.next = "apply" /\ sync'.todo = sync.todo \ {e}
          /\ \/ Mine /\ rows'[e].owner = sync.id /\ rows'[e].at = sync.listed[e].at
             \/ rows' = rows /\ sync.prior[e].owner # 0 /\ (Skipped(e) \/ ~Found(e))
      BY <1>20, <2>3, LiveApplied
    <3>2. ASSUME Mine, Progress PROVE Applied(e)'
      <4>1. sync.listed[e].at # 0
        BY <2>1 DEF SyncKnown, Listing, ListKnown
      <4>2. /\ sync.prior[e].owner = rows[e].owner /\ sync.prior[e].at = rows[e].at
            /\ rows[e].owner # 0 => rows[e].at <= sync.listed[e].at
        BY <2>1, <3>2, <4>1 DEF Progress
      <4>3. rows'[e].owner = source.id /\ rows'[e].at = sync.listed[e].at
        <5>1. CASE rows'[e].owner = sync.id /\ rows'[e].at = sync.listed[e].at
          BY <3>2, <5>1 DEF Mine
        <5>2. CASE rows' = rows /\ sync.prior[e].owner # 0 /\ (Skipped(e) \/ ~Found(e))
          <6>1. rows[e].owner = source.id /\ Found(e)
            BY <4>2, <5>2 DEF Owned, Found
          <6>2. rows[e].at >= sync.listed[e].at
            BY <4>2, <5>2, <6>1 DEF Skipped
          <6>3. rows[e].at = sync.listed[e].at
            BY <1>0, <4>2, <5>2, <6>2
          <6>4. QED
            BY <5>2, <6>1, <6>3
        <5>3. QED
          BY <3>1, <5>1, <5>2
      <4>4. QED
        BY <2>1, <3>1, <4>3 DEF Applied, Same
    <3>3. QED
      BY <1>19, <2>1, <3>1, <3>2
  <2>4. QED
    BY <2>2, <2>3
<1>21. ASSUME NEW e \in Events, ApplyCancelled(e) PROVE SyncKnown'
  <2>1. /\ \A d \in Events : d # e => rows'[d] = rows[d]
        /\ Found(e) => rows'[e] = NoRow
        /\ ~Found(e) => rows'[e] = rows[e]
        /\ source' = source /\ remote' = remote /\ aged' = aged
        /\ Same /\ sync'.next = "apply" /\ sync'.todo = sync.todo \ {e}
        /\ e \in sync.todo /\ ~sync.listed[e].live /\ sync.next = "apply"
    BY <1>21, CancelledApplied
  <2>2. ASSUME Mine, Progress PROVE Applied(e)'
    <3>1. sync.listed[e].at # 0
      BY <2>1 DEF SyncKnown, Listing, ListKnown
    <3>2. sync.prior[e].owner = rows[e].owner
      BY <2>1, <2>2, <3>1 DEF Progress
    <3>3. rows'[e].owner = 0
      <4>1. CASE Found(e)
        BY <2>1, <4>1 DEF NoRow
      <4>2. CASE ~Found(e)
        BY <2>1, <3>2, <4>2 DEF Found
      <4>3. QED
        BY <4>1, <4>2
    <3>4. QED
      BY <2>1, <3>3 DEF Applied, Same
  <2>3. QED
    BY <1>19, <2>1, <2>2
\* All of it is done with: the rows hold what the list reached.
<1>22. CASE RemoveMissing
  <2>1. /\ \A d \in Events :
             rows'[d] = IF sync.full /\ rows[d].owner = sync.id /\ ~sync.listed[d].live
                        THEN NoRow ELSE rows[d]
        /\ source' = source /\ remote' = remote /\ aged' = aged
        /\ Same /\ sync'.next = "save-token" /\ sync'.todo = sync.todo
        /\ sync.next = "apply" /\ sync.todo = {}
    BY <1>22, MissingRemoved
  <2>2. ListKnown /\ (~sync.full => sync.token # 0) /\ sync.id # 0
    BY <2>1 DEF SyncKnown, Listing, Owned
  <2>3. ListKnown'
    <3>1. \A d \in Events : rows'[d].owner = sync.id => rows[d].owner = sync.id
      BY <2>1, <2>2 DEF NoRow
    <3>2. QED
      BY <2>1, <2>2, <3>1 DEF ListKnown, Same
  <2>4. Mine' => Mine
    BY <2>1 DEF Mine, Same
  <2>5. ASSUME Mine, Progress, NEW e \in Events \ aged, remote[e].at \in 1 .. sync.upTo
        PROVE  Matches(e)'
    <3>1. source.id = sync.id /\ source.token = IF sync.full THEN 0 ELSE sync.token
      BY <2>1, <2>5 DEF Mine, Progress, Listing
    <3>2. CASE sync.full \/ remote[e].at > sync.token
      <4>1. sync.listed[e] = remote[e]
        BY <2>2, <2>5, <3>2 DEF ListKnown
      <4>2. sync.listed[e].at # 0
        BY <2>5, <4>1
      <4>3. Applied(e)
        BY <2>1, <2>5, <4>2 DEF Progress
      <4>4. CASE remote[e].live
        <5>1. rows'[e] = rows[e]
          BY <2>1, <4>1, <4>4
        <5>2. rows[e].owner = source.id /\ rows[e].at = remote[e].at
          BY <4>1, <4>3, <4>4 DEF Applied
        <5>3. QED
          BY <2>1, <4>4, <5>1, <5>2 DEF Matches
      <4>5. CASE ~remote[e].live
        <5>1. rows[e].owner = 0
          BY <4>1, <4>3, <4>5 DEF Applied
        <5>2. rows'[e] = rows[e]
          BY <2>1, <2>2, <5>1
        <5>3. QED
          BY <2>1, <4>5, <5>1, <5>2 DEF Matches
      <4>6. QED
        BY <4>4, <4>5
    <3>3. CASE ~sync.full /\ ~(remote[e].at > sync.token)
      <4>1. rows'[e] = rows[e]
        BY <2>1, <3>3
      <4>2. source.token # 0 /\ remote[e].at \in 1 .. source.token
        BY <1>0, <2>2, <2>5, <3>1, <3>3
      <4>3. Matches(e)
        BY <2>5, <4>2 DEF TokenKnown, Caught
      <4>4. QED
        BY <2>1, <4>1, <4>3 DEF Matches
    <3>4. QED
      BY <3>2, <3>3
  <2>6. ASSUME Mine, Progress PROVE Progress'
    <3>1. Caught(sync.upTo)'
      BY <2>1, <2>5, <2>6 DEF Caught, Same
    <3>2. source'.token = IF sync'.full THEN 0 ELSE sync'.token
      BY <2>1, <2>6 DEF Progress, Listing, Same
    <3>3. sync'.next \notin {"list", "list-all", "read-rows", "apply"}
      BY <2>1
    <3>4. QED
      BY <3>1, <3>2, <3>3 DEF Progress
  <2>7. QED
    BY <2>1, <2>2, <2>3, <2>4, <2>6 DEF SyncKnown, Listing, Same
<1>23. QED
  BY <1>3, <1>4, <1>5, <1>7, <1>8, <1>9, <1>10, <1>11, <1>12, <1>13, <1>15, <1>16, <1>17, <1>18,
     <1>20, <1>21, <1>22, NextIs DEF SyncStep

-----------------------------------------------------------------------------
(* The theorems. *)

LEMMA InitHolds ==
  ASSUME Init
  PROVE  IInv
<1>1. TypeOK
  BY InitTypes
<1>2. /\ Idle.next = "idle" /\ Idle.id = 0 /\ Idle.upTo = 0
      /\ \A e \in Events : Idle.prior[e] = Absent
      /\ NoWatch.next = "idle" /\ NoWatch.old = 0 /\ NoWatch.new = 0
  BY IdleType, NoWatchType, Zenon DEF Init
<1>3. /\ source.id = 0 /\ source.token = 0 /\ source.channel = 0 /\ removal = 0 /\ clock = 1
      /\ \A e \in Events : rows[e].owner = 0 /\ remote[e].at = 0
  BY DEF Init, NoSource, NoRow, Unknown
<1>4. sync.next = "idle" /\ sync.id = 0 /\ sync.upTo = 0
      /\ \A e \in Events : sync.prior[e].owner = 0
  BY <1>2 DEF Init, Absent
<1>5. \A c \in Callers : watch[c].next = "idle" /\ watch[c].old = 0 /\ watch[c].new = 0
  BY <1>2 DEF Init
<1>6. Owned
  BY <1>3, <1>4, <1>5 DEF Owned
<1>7. Stamps
  BY <1>3, <1>4 DEF Stamps
<1>8. SyncKnown /\ TokenKnown
  BY <1>3, <1>4 DEF SyncKnown, TokenKnown, Listing
<1>9. Watches
  BY <1>3, <1>5 DEF Watches, Channel
<1>10. QED
  BY <1>1, <1>6, <1>7, <1>8, <1>9 DEF IInv

LEMMA InvariantKept ==
  ASSUME IInv, [Next]_vars
  PROVE  IInv'
<1>1. CASE Next
  <2>1. TypeOK'
    BY TypesKept DEF IInv
  <2>2. Owned' /\ Watches'
    BY <1>1, OwnedKept, WatchesKept DEF IInv
  <2>3. Stamps' /\ SyncKnown' /\ TokenKnown'
    BY <1>1, <2>1, StampsKept, SyncKept, TokenKept DEF IInv
  <2>4. QED
    BY <2>1, <2>2, <2>3 DEF IInv
<1>2. CASE UNCHANGED vars
  <2>1. TypeOK'
    BY TypesKept DEF IInv
  <2>2. Owned' /\ Watches'
    BY <1>2, TypesStay DEF IInv, vars, Owned, Watches
  <2>3. Stamps' /\ SyncKnown' /\ TokenKnown'
    BY <1>2 DEF IInv, vars, Stamps, SyncKnown, TokenKnown, ListKnown, Progress, Mine, Caught,
       Matches, Applied
  <2>4. QED
    BY <2>1, <2>2, <2>3 DEF IInv
<1>3. QED
  BY <1>1, <1>2

\* Whatever the calendar, the student, a removal, a crash and the other callers do
\* between two awaits of a sync, it knows what it counts on (sync.ts, google-sync.ts).
THEOREM CalendarInvariant ==
  Spec => []IInv
<1>1. Init => IInv
  BY InitHolds
<1>2. IInv /\ [Next]_vars => IInv'
  BY InvariantKept
<1>3. QED
  BY <1>1, <1>2, PTL DEF Spec

\* Every state has the types of the tables and of the handlers' variables.
THEOREM CalendarTypesCorrect ==
  Spec => []TypeOK
<1>1. IInv => TypeOK
  BY DEF IInv
<1>2. QED
  BY <1>1, CalendarInvariant, PTL

\* The sync token never overtakes the events: what the next delta will not list is
\* in schedule_items already (google-sync.ts:38-40).
THEOREM TokenIsTrue ==
  Spec => []TokenMatchesRows
<1>1. IInv => TokenMatchesRows
  BY DEF IInv, TokenKnown, Caught, Matches, TokenMatchesRows
<1>2. QED
  BY <1>1, CalendarInvariant, PTL

\* No sync takes back what the student checked off (sync.ts:9-11).
THEOREM CheckOffKept ==
  Spec => CheckOffSurvives
<1> DEFINE Kept == \A e \in Events : rows[e].done /\ ~rows'[e].done =>
                     \/ CheckOff(e) \/ Remove
                     \/ ~remote[e].live
                     \/ e \in aged /\ sync.full
<1>1. IInv /\ [Next]_vars => [Kept]_vars
  <2> SUFFICES ASSUME IInv, Next, NEW e \in Events, rows[e].done, ~rows'[e].done
               PROVE  \/ CheckOff(e) \/ Remove \/ ~remote[e].live \/ (e \in aged /\ sync.full)
    OBVIOUS
  <2>0. TypeOK /\ Owned /\ SyncKnown /\ rows \in [Events -> Row] /\ rows' # rows
    BY DEF IInv, TypeOK
  <2>1. ASSUME NEW d \in Events, CheckOff(d) PROVE CheckOff(e)
    <3>1. d = e
      BY <2>0, <2>1 DEF CheckOff
    <3>2. QED
      BY <2>1, <3>1
  <2>2. ASSUME NEW d \in Events, Ages(d) \/ \E live \in BOOLEAN : ProviderChanges(d, live)
        PROVE  FALSE
    BY <2>0, <2>2 DEF Ages, ProviderChanges, stored
  <2>3. ASSUME \/ TokensExpire \/ SyncNow \/ EnqueueAfter \/ SweepFinds \/ Crash \/ CallFails
               \/ \E n \in Channel : ChannelLapses(n) \/ Webhook(n)
               \/ \E answered \in BOOLEAN : Release(answered)
        PROVE  FALSE
    BY <2>0, <2>3 DEF TokensExpire, SyncNow, EnqueueAfter, SweepFinds, Crash, CallFails,
       ChannelLapses, Webhook, Release, stored
  <2>4. ASSUME NEW id \in 1 .. bound.sources, AddFeed(id) \/ Connect(id) PROVE FALSE
    BY <2>0, <2>4 DEF AddFeed, Connect
  <2>5. ASSUME NEW c \in Callers, WatchStep(c) PROVE FALSE
    BY <2>0, <2>5, WatchLeaves
  <2>6. ASSUME \/ StartSync \/ ListChanges \/ DropToken \/ ListAll \/ ReadRows
               \/ SaveToken \/ MarkSynced \/ MarkError
               \/ \E retry \in BOOLEAN : EndSync(retry)
        PROVE  FALSE
    BY <2>0, <2>6 DEF StartSync, ListChanges, DropToken, ListAll, ReadRows, SaveToken, MarkSynced,
       MarkError, EndSync, stored
  <2>7. ASSUME NEW d \in Events, ApplyLive(d) PROVE FALSE
    <3>1. rows'[e].done = rows[e].done
      BY <2>0, <2>7, LiveApplied
    <3>2. QED
      BY <3>1
  <2>8. ASSUME NEW d \in Events, ApplyCancelled(d) PROVE ~remote[e].live
    <3>1. /\ d = e \/ rows'[e] = rows[e]
          /\ d \in sync.todo /\ ~sync.listed[d].live /\ sync.next = "apply"
      BY <2>0, <2>8, CancelledApplied
    <3>2. d = e
      BY <3>1
    <3>3. sync.listed[e].at # 0 /\ ~sync.listed[e].live => ~remote[e].live
      BY <2>0, <3>1 DEF SyncKnown, Listing, ListKnown
    <3>4. sync.listed[e].at # 0
      BY <2>0, <3>1, <3>2 DEF SyncKnown, Listing, ListKnown
    <3>5. QED
      BY <3>1, <3>2, <3>3, <3>4
  <2>9. CASE RemoveMissing
    <3>1. /\ rows'[e] = IF sync.full /\ rows[e].owner = sync.id /\ ~sync.listed[e].live
                        THEN NoRow ELSE rows[e]
          /\ sync.next = "apply"
      BY <2>0, <2>9, MissingRemoved
    <3>2. sync.full /\ rows[e].owner = sync.id /\ ~sync.listed[e].live
      BY <3>1
    <3>3. ListKnown
      BY <2>0, <3>1 DEF SyncKnown, Listing
    <3>4. sync.listed[e].at # 0 => ~remote[e].live
      BY <3>2, <3>3 DEF ListKnown
    <3>5. sync.listed[e].at = 0 => e \in aged
      BY <3>2, <3>3 DEF ListKnown
    <3>6. QED
      BY <3>2, <3>4, <3>5
  <2>10. QED
    BY <2>1, <2>2, <2>3, <2>4, <2>5, <2>6, <2>7, <2>8, <2>9, Zenon DEF Next, SyncStep
<1>2. QED
  BY <1>1, CalendarInvariant, PTL DEF Spec, CheckOffSurvives

\* No renewal stops the channel the row listens on (google-sync.ts:128-135).
THEOREM ListensKept ==
  Spec => ListensOn
<1> DEFINE Kept == \A n \in Channel : channel[n] # "stopped" /\ channel'[n] = "stopped" =>
                     n # source.channel \/ removal' = source.id
<1>1. IInv /\ [Next]_vars => [Kept]_vars
  <2> SUFFICES ASSUME IInv, Next, NEW n \in Channel, channel[n] # "stopped", channel'[n] = "stopped"
               PROVE  n # source.channel \/ removal' = source.id
    OBVIOUS
  <2>0. /\ TypeOK /\ Watches /\ channel' # channel /\ n # 0
        /\ channel \in [Channel -> {"free", "open", "lapsed", "stopped"}]
    <3>1. n # 0
      BY BoundsAreNumbers DEF IInv, TypeOK, Channel
    <3>2. channel' # channel
      OBVIOUS
    <3>3. QED
      BY <3>1, <3>2 DEF IInv, TypeOK
  <2>1. ASSUME NEW answered \in BOOLEAN, Release(answered) PROVE removal' = source.id
    BY <2>1 DEF Release
  <2>2. ASSUME NEW c \in Callers, NEW answered \in BOOLEAN, StopOld(c, answered)
        PROVE  n # source.channel
    <3> DEFINE k == watch[c].old
               v == IF answered /\ channel[k] = "open" THEN "stopped" ELSE channel[k]
    <3>0. channel' = [channel EXCEPT ![k] = v]
      BY <2>2, Zenon DEF StopOld
    <3> HIDE DEF k, v
    <3>a. n = k
      BY <2>0, <3>0
    <3>1. n = watch[c].old
      BY <3>a DEF k
    <3>2. watch[c].next = "stop-old"
      BY <2>2 DEF StopOld
    <3>3. QED
      BY <2>0, <3>1, <3>2 DEF Watches
  <2>3. ASSUME NEW c \in Callers, NEW m \in Channel, WatchEvents(c, m) PROVE FALSE
    BY <2>0, <2>3 DEF WatchEvents
  <2>4. ASSUME NEW c \in Callers, WatchFails(c) \/ StoreChannel(c) \/ MarkRenewed(c) PROVE FALSE
    BY <2>0, <2>4 DEF WatchFails, StoreChannel, MarkRenewed
  <2>5. ASSUME NEW m \in Channel, ChannelLapses(m) \/ Webhook(m) PROVE FALSE
    BY <2>0, <2>5 DEF ChannelLapses, Webhook
  <2>6. ASSUME NEW e \in Events,
               Ages(e) \/ CheckOff(e) \/ \E live \in BOOLEAN : ProviderChanges(e, live)
        PROVE  FALSE
    BY <2>0, <2>6 DEF Ages, CheckOff, ProviderChanges
  <2>7. ASSUME TokensExpire \/ SyncNow \/ EnqueueAfter \/ SweepFinds \/ Crash \/ Remove PROVE FALSE
    BY <2>0, <2>7 DEF TokensExpire, SyncNow, EnqueueAfter, SweepFinds, Crash, Remove
  <2>8. ASSUME NEW id \in 1 .. bound.sources, AddFeed(id) \/ Connect(id) PROVE FALSE
    BY <2>0, <2>8 DEF AddFeed, Connect
  <2>9. ASSUME SyncStep \/ CallFails PROVE FALSE
    BY <2>0, <2>9, SyncLeaves
  <2>10. QED
    BY <2>1, <2>2, <2>3, <2>4, <2>5, <2>6, <2>7, <2>8, <2>9 DEF Next, WatchStep
<1>2. QED
  BY <1>1, CalendarInvariant, PTL DEF Spec, ListensOn
=============================================================================
