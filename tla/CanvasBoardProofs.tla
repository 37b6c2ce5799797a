--------------------------- MODULE CanvasBoardProofs ---------------------------
(***************************************************************************)
(* Proofs about CanvasBoard, for any pages, strokes, notes and scenarios.  *)
(* PageSound says what one page can count on, in its board, its save and   *)
(* its question, while the other pages, the tutor and the server go on;    *)
(* ChatInv relates the chat's snapshot and its log to the canvas's row.    *)
(***************************************************************************)
EXTENDS CanvasBoard, SetLemmas, SequenceTheorems

-----------------------------------------------------------------------------
(* The inductive invariant. *)

\* now is as far as was, on every element.
Reaches(now, was) == \A e \in Elements : was[e] <= now[e]

Placed  == {n \in Notes : notes[n] # "unplaced"}
Applied == {n \in Notes : notes[n] = "applied"}

\* A page that was not opened yet, or was closed, waits for nothing.
Resting(pg) ==
  pg.at \notin {"open", "left"} =>
    /\ pg.timer = "none" /\ pg.again = FALSE /\ pg.conflict = FALSE
    /\ pg.taken = {} /\ pg.unsaved = {} /\ pg.given = {} /\ pg.wire = {}
    /\ pg.ask = "no" /\ pg.sync = "none"
    /\ pg.at # "closed" => pg.save = NoSave /\ pg.reply = "none"

\* What a page took is acknowledged or will be, and is on its board, or was; what is on
\* its way to it and new is not.
NotesSound(pg) ==
  /\ pg.unsaved \subseteq pg.taken
  /\ pg.taken \cup pg.given \cup pg.wire \subseteq Placed
  /\ pg.taken \ pg.unsaved \subseteq Applied
  /\ \A n \in Notes \ (Applied \cup pg.taken) : pg.board[n] = 0
  /\ \A n \in (pg.given \cup pg.wire) \ pg.taken : pg.board[n] = 0

\* A save acknowledges the notes it carries, and has when it succeeded.
AcksSound(s) ==
  /\ s.acks \subseteq Placed
  /\ s.at = "ok" => s.acks \subseteq Applied
  /\ \A n \in Notes \ (Applied \cup s.acks) : s.board[n] = 0

\* Whoever has the version that is saved has a board that is as far.
BoardSound(pg) ==
  pg.at \in {"loading", "open", "left"} =>
    /\ pg.version <= saved.version
    /\ pg.version = saved.version => Reaches(pg.board, saved.board)

SaveSound(s) ==
  s.at # "none" =>
    /\ s.expected <= saved.version
    /\ s.at \in {"sent", "checked"} /\ s.expected = saved.version => Reaches(s.board, saved.board)
    /\ s.at \in {"ok", "stale"} => s.expected < saved.version

\* The save in flight is of what the page had before, and its outcome is not known yet.
FlightSound(pg) ==
  pg.at \in {"open", "left"} /\ pg.save.at # "none" =>
    /\ pg.save.expected = pg.version /\ Reaches(pg.board, pg.save.board)
    /\ pg.save.at = "ok" /\ saved.version = pg.version + 1 => Reaches(pg.save.board, saved.board)

\* Once told of a conflict the page stays behind, and no save of it succeeds.
ConflictSound(pg) ==
  /\ pg.conflict = TRUE => pg.version < saved.version /\ pg.save.at # "ok"
  /\ pg.timer = "mute" => pg.conflict = TRUE
  /\ pg.again = TRUE => pg.save.at # "none"
  /\ NoFault => pg.save.at # "failed"

\* A page whose save was the last one written knows the version, or will.
AuthorSound(p, pg) ==
  /\ pg.at \in {"unopened", "loading"} => saved.by # p
  /\ NoFault /\ pg.at \in {"open", "left"} /\ saved.by = p =>
       /\ pg.conflict = FALSE
       /\ pg.save.at = "ok" => saved.version = pg.version + 1
       /\ pg.save.at # "ok" => saved.version = pg.version

\* What was there when the student asked is still there, and is saved once the question
\* is posted.
AskSound(pg) ==
  /\ pg.at = "loading" => Reaches(saved.board, pg.board)
  /\ NoFault /\ pg.at \in {"open", "left"} /\ pg.conflict = FALSE =>
       /\ pg.ask = "flushing" => Reaches(pg.board, pg.asked)
       /\ pg.ask = "posting" => Reaches(saved.board, pg.asked)

\* Where a board is, or will be, that no further save will see to.
Stored(pg, b) ==
  /\ pg.save.at \in {"none", "ok"} => Reaches(saved.board, b)
  /\ pg.save.at \in {"sent", "checked"} => Reaches(pg.save.board, b)

\* With no timer and no further save to come, what the student sees is saved, or about
\* to be; so is what the student asked about.
StoredSound(pg) ==
  NoFault /\ pg.at \in {"open", "left"} /\ pg.conflict = FALSE /\ pg.again = FALSE =>
    /\ pg.timer = "none" => Stored(pg, pg.board)
    /\ pg.ask = "flushing" => Stored(pg, pg.asked)

Sound(p, pg) ==
  /\ Resting(pg) /\ NotesSound(pg) /\ AcksSound(pg.save)
  /\ BoardSound(pg) /\ SaveSound(pg.save) /\ FlightSound(pg)
  /\ ConflictSound(pg) /\ AuthorSound(p, pg) /\ AskSound(pg)

PageSound(p, pg) == Sound(p, pg) /\ StoredSound(pg)

Saved == [version : Nat \ {0}, board : Board, by : Pages \cup {Nobody}]

\* No note is on the saved board before its acknowledgement.
PagesInv ==
  /\ saved \in Saved /\ notes \in [Notes -> {"unplaced", "pending", "applied"}]
  /\ page \in [Pages -> Page] /\ bound \in Scenario /\ bound.faults <= bound.hadFaults
  /\ \A n \in Notes \ Applied : saved.board[n] = 0
  /\ \A p \in Pages : PageSound(p, page[p])

Entry == [of : Elements, before : 0 .. 2, after : 0 .. 2]
Chat  == [there : BOOLEAN, version : Nat, board : [Elements -> 0 .. 2], shown : Board,
          log : Seq(Entry)]

\* The snapshot is of a board that was saved; the log is told up to it.
ChatInv ==
  /\ chat \in Chat /\ chat.version <= saved.version
  /\ chat.there = TRUE <=> chat.version # 0
  /\ chat.there = TRUE /\ chat.version = saved.version => chat.board = Told(saved.board)
  /\ LogTellsEachChange

IInv == PagesInv /\ ChatInv

-----------------------------------------------------------------------------
(* What the handlers leave of a page. *)

\* What saving, drawing and taking notes look at.
SameCore(new, pg) ==
  /\ new.at = pg.at /\ new.board = pg.board /\ new.version = pg.version
  /\ new.timer = pg.timer /\ new.again = pg.again /\ new.save = pg.save
  /\ new.conflict = pg.conflict /\ new.taken = pg.taken /\ new.unsaved = pg.unsaved

SameAsk(new, pg) == new.ask = pg.ask /\ new.asked = pg.asked

SameNotes(new, pg) ==
  /\ new.taken = pg.taken /\ new.unsaved = pg.unsaved
  /\ new.given = pg.given /\ new.wire = pg.wire

SameSync(new, pg) ==
  /\ new.hasChat = pg.hasChat /\ new.sync = pg.sync /\ new.syncAgain = pg.syncAgain
  /\ new.reply = pg.reply

LEMMA BlankIsBoard == Blank \in Board /\ \A e \in Elements : Blank[e] = 0
BY DEF Blank, Board

LEMMA SyncingLeaves ==
  ASSUME NEW pg \in Page
  PROVE  /\ Syncing(pg) \in Page
         /\ SameCore(Syncing(pg), pg) /\ SameAsk(Syncing(pg), pg)
         /\ SameNotes(Syncing(pg), pg) /\ Syncing(pg).reply = pg.reply
<1>1. CASE pg.hasChat = "no"
  BY <1>1 DEF Syncing, SameCore, SameAsk, SameNotes
<1>2. CASE pg.hasChat # "no" /\ pg.sync # "none"
  <2>1. Syncing(pg) = [pg EXCEPT !.syncAgain = TRUE]
    BY <1>2 DEF Syncing
  <2>2. QED
    BY <2>1 DEF SameCore, SameAsk, SameNotes, Page
<1>3. CASE pg.hasChat # "no" /\ pg.sync = "none"
  <2>1. Syncing(pg) = [pg EXCEPT !.sync = "asked"]
    BY <1>3 DEF Syncing
  <2>2. QED
    BY <2>1 DEF SameCore, SameAsk, SameNotes, Page
<1>4. QED
  BY <1>1, <1>2, <1>3

LEMMA SyncOverLeaves ==
  ASSUME NEW pg \in Page
  PROVE  /\ SyncOver(pg) \in Page
         /\ SameCore(SyncOver(pg), pg) /\ SameAsk(SyncOver(pg), pg)
         /\ SyncOver(pg).given = {} /\ SyncOver(pg).wire = pg.wire
<1> DEFINE over == [pg EXCEPT !.sync = "none", !.given = {}, !.syncAgain = FALSE]
<1>1. over \in Page /\ SameCore(over, pg) /\ SameAsk(over, pg)
      /\ over.given = {} /\ over.wire = pg.wire
  BY DEF SameCore, SameAsk, Page
<1>2. SyncOver(pg) = IF pg.syncAgain THEN Syncing(over) ELSE over
  BY DEF SyncOver
<1> HIDE DEF over
<1>3. Syncing(over) \in Page /\ SameCore(Syncing(over), over) /\ SameAsk(Syncing(over), over)
      /\ SameNotes(Syncing(over), over)
  BY <1>1, SyncingLeaves
<1>4. QED
  BY <1>1, <1>2, <1>3 DEF SameCore, SameAsk, SameNotes

LEMMA AskOverLeaves ==
  ASSUME NEW pg \in Page
  PROVE  /\ AskOver(pg) \in Page /\ SameCore(AskOver(pg), pg)
         /\ AskOver(pg).ask = "no" /\ AskOver(pg).asked = Blank
         /\ AskOver(pg).given = pg.given /\ AskOver(pg).wire = {}
<1> DEFINE over == [pg EXCEPT !.ask = "no", !.asked = Blank, !.wire = {}]
<1>0. Blank \in Board
  BY BlankIsBoard
<1>1. over \in Page /\ SameCore(over, pg) /\ over.ask = "no" /\ over.asked = Blank
      /\ over.given = pg.given /\ over.wire = {}
  BY <1>0 DEF SameCore, Page
<1>2. AskOver(pg) = Syncing(over)
  BY DEF AskOver
<1> HIDE DEF over
<1>3. Syncing(over) \in Page /\ SameCore(Syncing(over), over) /\ SameAsk(Syncing(over), over)
      /\ SameNotes(Syncing(over), over)
  BY <1>1, SyncingLeaves
<1>4. QED
  BY <1>1, <1>2, <1>3 DEF SameCore, SameAsk, SameNotes

\* A save of what is on the page now.
Fresh(pg) == [at |-> "sent", board |-> pg.board, expected |-> pg.version, acks |-> pg.unsaved]

LEMMA SentLeaves ==
  ASSUME NEW pg \in Page
  PROVE  /\ Sent(pg) \in Page /\ Sent(pg).save = Fresh(pg)
         /\ Sent(pg).at = pg.at /\ Sent(pg).board = pg.board /\ Sent(pg).version = pg.version
         /\ Sent(pg).timer = pg.timer /\ Sent(pg).again = pg.again
         /\ Sent(pg).conflict = pg.conflict
         /\ SameNotes(Sent(pg), pg) /\ SameAsk(Sent(pg), pg) /\ SameSync(Sent(pg), pg)
<1>1. Fresh(pg) \in Save
  BY DEF Fresh, Save, Page
<1>2. Sent(pg) = [pg EXCEPT !.save = Fresh(pg)]
  BY DEF Sent, Fresh
<1> HIDE DEF Sent, Fresh
<1>3. QED
  BY <1>1, <1>2 DEF SameNotes, SameAsk, SameSync, Page

\* The save in flight, or a new one, and whether another is to follow.
LEMMA RequestedLeaves ==
  ASSUME NEW pg \in Page
  PROVE  /\ Requested(pg) \in Page /\ Requested(pg).timer = "none"
         /\ Requested(pg).at = pg.at /\ Requested(pg).board = pg.board
         /\ Requested(pg).version = pg.version /\ Requested(pg).conflict = pg.conflict
         /\ pg.save.at = "none" =>
              Requested(pg).save = Fresh(pg) /\ Requested(pg).again = pg.again
         /\ pg.save.at # "none" =>
              Requested(pg).save = pg.save /\ Requested(pg).again = TRUE
         /\ SameNotes(Requested(pg), pg) /\ SameAsk(Requested(pg), pg)
         /\ SameSync(Requested(pg), pg)
<1>1. CASE pg.save.at # "none"
  <2>1. Requested(pg) = [pg EXCEPT !.timer = "none", !.again = TRUE]
    BY <1>1 DEF Requested
  <2>2. QED
    BY <1>1, <2>1 DEF SameNotes, SameAsk, SameSync, Page
<1>2. CASE pg.save.at = "none"
  <2> DEFINE off == [pg EXCEPT !.timer = "none"]
  <2>1. /\ off \in Page /\ off.timer = "none" /\ off.again = pg.again
        /\ off.at = pg.at /\ off.board = pg.board /\ off.version = pg.version
        /\ off.conflict = pg.conflict /\ SameNotes(off, pg) /\ SameAsk(off, pg)
        /\ SameSync(off, pg)
    BY DEF SameNotes, SameAsk, SameSync, Page
  <2>2. Requested(pg) = Sent(off)
    BY <1>2 DEF Requested
  <2> HIDE DEF off
  <2>3. /\ Sent(off) \in Page /\ Sent(off).save = Fresh(off)
        /\ Sent(off).at = off.at /\ Sent(off).board = off.board /\ Sent(off).version = off.version
        /\ Sent(off).timer = off.timer /\ Sent(off).again = off.again
        /\ Sent(off).conflict = off.conflict
        /\ SameNotes(Sent(off), off) /\ SameAsk(Sent(off), off) /\ SameSync(Sent(off), off)
    BY <2>1, SentLeaves
  <2>4. Fresh(off) = Fresh(pg)
    BY <2>1 DEF Fresh, SameNotes
  <2>5. QED
    BY <1>2, <2>1, <2>2, <2>3, <2>4 DEF SameNotes, SameAsk, SameSync
<1>3. QED
  BY <1>1, <1>2

LEMMA ScheduledLeaves ==
  ASSUME NEW pg \in Page
  PROVE  /\ Scheduled(pg) \in Page
         /\ pg.conflict = TRUE => Scheduled(pg).timer = "mute"
         /\ pg.conflict = FALSE => Scheduled(pg).timer = "armed"
         /\ Scheduled(pg).at = pg.at /\ Scheduled(pg).board = pg.board
         /\ Scheduled(pg).version = pg.version /\ Scheduled(pg).again = pg.again
         /\ Scheduled(pg).save = pg.save /\ Scheduled(pg).conflict = pg.conflict
         /\ SameNotes(Scheduled(pg), pg) /\ SameAsk(Scheduled(pg), pg)
         /\ SameSync(Scheduled(pg), pg)
<1>1. pg.conflict \in BOOLEAN
  BY DEF Page
<1>2. CASE pg.conflict = TRUE
  <2>1. Scheduled(pg) = [pg EXCEPT !.timer = "mute"]
    BY <1>2 DEF Scheduled
  <2>2. QED
    BY <1>2, <2>1 DEF SameNotes, SameAsk, SameSync, Page
<1>3. CASE pg.conflict = FALSE
  <2>1. Scheduled(pg) = [pg EXCEPT !.timer = "armed"]
    BY <1>3 DEF Scheduled
  <2>2. QED
    BY <1>3, <2>1 DEF SameNotes, SameAsk, SameSync, Page
<1>4. QED
  BY <1>1, <1>2, <1>3

LEMMA ConfirmedLeaves ==
  ASSUME NEW pg \in Page
  PROVE  LET new == Confirmed(pg) IN
         /\ new \in Page
         /\ new.version = pg.save.expected + 1 /\ new.unsaved = pg.unsaved \ pg.save.acks
         /\ new.conflict = FALSE
         /\ new.at = pg.at /\ new.board = pg.board /\ new.timer = pg.timer
         /\ new.again = pg.again /\ new.save = pg.save /\ new.taken = pg.taken
         /\ new.given = pg.given /\ new.wire = pg.wire /\ SameAsk(new, pg)
<1> DEFINE up == pg.save.expected + 1
           kept == pg.unsaved \ pg.save.acks
           now == [pg EXCEPT !.version = up, !.unsaved = kept, !.conflict = FALSE]
<1>1. up \in Nat /\ kept \subseteq Notes
  BY DEF Page, Save
<1>2. Confirmed(pg) = IF now.timer = "none" THEN Syncing(now) ELSE now
  BY DEF Confirmed
<1> HIDE DEF up, kept
<1>3. /\ now \in Page /\ now.version = up /\ now.unsaved = kept /\ now.conflict = FALSE
      /\ now.at = pg.at /\ now.board = pg.board /\ now.timer = pg.timer
      /\ now.again = pg.again /\ now.save = pg.save /\ now.taken = pg.taken
      /\ now.given = pg.given /\ now.wire = pg.wire /\ SameAsk(now, pg)
  BY <1>1 DEF SameAsk, Page
<1> HIDE DEF now
<1>4. /\ Syncing(now) \in Page
      /\ SameCore(Syncing(now), now) /\ SameAsk(Syncing(now), now) /\ SameNotes(Syncing(now), now)
  BY <1>3, SyncingLeaves
<1>5. Confirmed(pg) \in {now, Syncing(now)}
  BY <1>2
<1>6. QED
  BY <1>3, <1>4, <1>5 DEF SameCore, SameAsk, SameNotes, up, kept

\* The notes of S that the page did not take yet, and those it puts on its board.
New(pg, S)   == S \ pg.taken
Added(pg, S) == New(pg, S) \ OnBoard(pg.board)

LEMMA TakingLeaves ==
  ASSUME NEW pg \in Page, NEW S \in SUBSET Notes
  PROVE  LET new == Taking(pg, S) IN
         /\ new \in Page
         /\ new.board = [e \in Elements |-> IF e \in Added(pg, S) THEN 1 ELSE pg.board[e]]
         /\ new.taken = pg.taken \cup New(pg, S) /\ new.unsaved = pg.unsaved \cup New(pg, S)
         /\ Added(pg, S) = {} => new.timer = pg.timer
         /\ Added(pg, S) # {} => /\ pg.conflict = TRUE => new.timer = "mute"
                                 /\ pg.conflict = FALSE => new.timer = "armed"
         /\ new.at = pg.at /\ new.version = pg.version /\ new.again = pg.again
         /\ new.save = pg.save /\ new.conflict = pg.conflict
         /\ new.given = pg.given /\ new.wire = pg.wire /\ SameAsk(new, pg) /\ SameSync(new, pg)
<1> DEFINE fresh == New(pg, S)
           added == Added(pg, S)
           took == pg.taken \cup fresh
           unsaved == pg.unsaved \cup fresh
           board == [e \in Elements |-> IF e \in added THEN 1 ELSE pg.board[e]]
           now == [pg EXCEPT !.taken = took, !.unsaved = unsaved, !.board = board]
<1>1. took \subseteq Notes /\ unsaved \subseteq Notes
  BY DEF New, Page
<1>2. board \in Board
  <2>1. pg.board \in [Elements -> 0 .. 3]
    BY DEF Page, Board
  <2>2. QED
    BY <2>1 DEF Board
<1>3. Taking(pg, S) = IF added = {} THEN now ELSE Scheduled(now)
  BY DEF Taking, New, Added
<1> HIDE DEF board, took, unsaved
<1>4. /\ now \in Page /\ now.board = board /\ now.taken = took /\ now.unsaved = unsaved
      /\ now.timer = pg.timer
      /\ now.at = pg.at /\ now.version = pg.version /\ now.again = pg.again
      /\ now.save = pg.save /\ now.conflict = pg.conflict
      /\ now.given = pg.given /\ now.wire = pg.wire /\ SameAsk(now, pg) /\ SameSync(now, pg)
  BY <1>1, <1>2 DEF SameAsk, SameSync, Page
<1> HIDE DEF now
<1>5. CASE added = {}
  <2>1. Taking(pg, S) = now
    BY <1>3, <1>5
  <2>2. QED
    BY <1>4, <1>5, <2>1 DEF board, took, unsaved
<1>6. CASE added # {}
  <2>1. Taking(pg, S) = Scheduled(now)
    BY <1>3, <1>6
  <2>2. /\ Scheduled(now) \in Page
        /\ now.conflict = TRUE => Scheduled(now).timer = "mute"
        /\ now.conflict = FALSE => Scheduled(now).timer = "armed"
        /\ Scheduled(now).at = now.at /\ Scheduled(now).board = now.board
        /\ Scheduled(now).version = now.version /\ Scheduled(now).again = now.again
        /\ Scheduled(now).save = now.save /\ Scheduled(now).conflict = now.conflict
        /\ SameNotes(Scheduled(now), now) /\ SameAsk(Scheduled(now), now)
        /\ SameSync(Scheduled(now), now)
    BY <1>4, ScheduledLeaves
  <2>3. QED
    BY <1>4, <1>6, <2>1, <2>2 DEF board, took, unsaved, SameNotes, SameAsk, SameSync
<1>7. QED
  BY <1>5, <1>6

LEMMA FlushingLeaves ==
  ASSUME NEW pg \in Page
  PROVE  /\ pg.timer = "none" => Flushing(pg) = pg
         /\ pg.timer # "none" /\ pg.conflict = FALSE => Flushing(pg) = Requested(pg)
         /\ pg.timer # "none" /\ pg.conflict = TRUE =>
              Flushing(pg) = [pg EXCEPT !.timer = "none"]
BY DEF Flushing, Page

-----------------------------------------------------------------------------
(* Boards. *)

LEMMA ReachesIsOrder ==
  ASSUME NEW a \in Board, NEW b \in Board, NEW c \in Board
  PROVE  /\ Reaches(a, a)
         /\ Reaches(a, b) /\ Reaches(b, c) => Reaches(a, c)
BY DEF Board, Reaches

\* A note goes on the board once it was not there.
LEMMA AddedReaches ==
  ASSUME NEW b \in Board, NEW S \in SUBSET Elements, \A e \in S : b[e] = 0
  PROVE  LET c == [e \in Elements |-> IF e \in S THEN 1 ELSE b[e]]
         IN  c \in Board /\ Reaches(c, b)
BY DEF Board, Reaches

-----------------------------------------------------------------------------
(* What a page's own steps keep. *)

\* The board grows, and the timer is set.
LEMMA GrowsSound ==
  ASSUME NEW p \in Pages, NEW pg \in Page, NEW new \in Page, PageSound(p, pg),
         pg.at \in {"open", "left"}, saved \in Saved,
         new.at = pg.at, new.version = pg.version, new.again = pg.again, new.save = pg.save,
         new.conflict = pg.conflict, SameAsk(new, pg), Reaches(new.board, pg.board),
         pg.conflict = TRUE => new.timer = "mute", pg.conflict = FALSE => new.timer = "armed",
         NotesSound(new)
  PROVE  PageSound(p, new)
<1>1. /\ pg.board \in Board /\ new.board \in Board /\ pg.save.board \in Board
      /\ pg.asked \in Board /\ saved.board \in Board
      /\ pg.conflict \in BOOLEAN
  BY DEF Page, Save, Saved
<1>2. Sound(p, pg)
  BY DEF PageSound
<1>3. Resting(new) /\ NotesSound(new) /\ AcksSound(new.save) /\ SaveSound(new.save)
  BY <1>2 DEF Sound, Resting
<1>4. BoardSound(new)
  BY <1>1, <1>2, ReachesIsOrder DEF Sound, BoardSound
<1>5. FlightSound(new)
  BY <1>1, <1>2, ReachesIsOrder DEF Sound, FlightSound
<1>6. ConflictSound(new)
  BY <1>1, <1>2 DEF Sound, ConflictSound
<1>7. AuthorSound(p, new)
  BY <1>2 DEF Sound, AuthorSound
<1>8. AskSound(new)
  BY <1>1, <1>2, ReachesIsOrder DEF Sound, AskSound, SameAsk
<1>9. StoredSound(new)
  <2>1. new.conflict = FALSE => new.timer # "none"
    OBVIOUS
  <2>2. StoredSound(pg)
    BY DEF PageSound
  <2>3. QED
    BY <2>1, <2>2 DEF StoredSound, Stored, SameAsk
<1>10. QED
  BY <1>3, <1>4, <1>5, <1>6, <1>7, <1>8, <1>9 DEF PageSound, Sound

\* A save goes out, of the board as it is.
LEMMA SentSound ==
  ASSUME NEW p \in Pages, NEW pg \in Page, NEW new \in Page, Sound(p, pg),
         pg.at \in {"open", "left"}, saved \in Saved,
         pg.save.at = "none", pg.again = FALSE, new.at \in {"open", "left"},
         new.timer \in {pg.timer, "none"}, new.board = pg.board, new.version = pg.version,
         new.conflict = pg.conflict, new.save = Fresh(pg), new.again = FALSE,
         SameNotes(new, pg), SameAsk(new, pg)
  PROVE  PageSound(p, new)
<1>1. /\ pg.board \in Board /\ pg.asked \in Board /\ saved.board \in Board
      /\ pg.conflict \in BOOLEAN /\ saved.version \in Nat /\ pg.version \in Nat
  BY DEF Page, Saved
<1>2. /\ new.save.at = "sent" /\ new.save.board = pg.board
      /\ new.save.expected = pg.version /\ new.save.acks = pg.unsaved
  BY DEF Fresh
<1>3. Resting(new) /\ NotesSound(new)
  BY <1>1 DEF Sound, Resting, NotesSound, SameNotes
<1>4. AcksSound(new.save)
  BY <1>2 DEF Sound, AcksSound, NotesSound
<1>5. BoardSound(new)
  BY DEF Sound, BoardSound
<1>6. SaveSound(new.save)
  BY <1>2 DEF Sound, SaveSound, BoardSound
<1>7. FlightSound(new)
  BY <1>1, <1>2, ReachesIsOrder DEF FlightSound
<1>8. ConflictSound(new)
  BY <1>2 DEF Sound, ConflictSound
<1>9. AuthorSound(p, new)
  BY <1>2 DEF Sound, AuthorSound
<1>10. AskSound(new)
  BY DEF Sound, AskSound, SameAsk
<1>11. StoredSound(new)
  BY <1>1, <1>2, ReachesIsOrder DEF Sound, StoredSound, Stored, AskSound, SameAsk
<1>12. QED
  BY <1>3, <1>4, <1>5, <1>6, <1>7, <1>8, <1>9, <1>10, <1>11 DEF PageSound, Sound

\* requestSaveNow, from a timer, from a page that is hidden or left, or for a question.
LEMMA RequestedSound ==
  ASSUME NEW p \in Pages, NEW pg \in Page, NEW new \in Page, Sound(p, pg),
         pg.at \in {"open", "left"}, saved \in Saved, new.at \in {"open", "left"},
         new.timer = "none", new.board = pg.board, new.version = pg.version,
         new.conflict = pg.conflict, SameNotes(new, pg), SameAsk(new, pg),
         pg.save.at = "none" => new.save = Fresh(pg) /\ new.again = pg.again,
         pg.save.at # "none" => new.save = pg.save /\ new.again = TRUE
  PROVE  PageSound(p, new)
<1>1. CASE pg.save.at = "none"
  <2>1. pg.again = FALSE
    <3>1. pg.again \in BOOLEAN
      BY DEF Page
    <3>2. QED
      BY <1>1, <3>1 DEF Sound, ConflictSound
  <2>2. QED
    BY <1>1, <2>1, SentSound
<1>2. CASE pg.save.at # "none"
  <2>1. new.save = pg.save /\ new.again = TRUE
    BY <1>2
  <2>2. Resting(new) /\ NotesSound(new) /\ AcksSound(new.save) /\ SaveSound(new.save)
    BY <2>1 DEF Sound, Resting, NotesSound, SameNotes
  <2>3. BoardSound(new) /\ FlightSound(new)
    BY <1>2, <2>1 DEF Sound, BoardSound, FlightSound
  <2>4. ConflictSound(new)
    BY <1>2, <2>1 DEF Sound, ConflictSound
  <2>5. AuthorSound(p, new)
    BY <2>1 DEF Sound, AuthorSound
  <2>6. AskSound(new)
    BY DEF Sound, AskSound, SameAsk
  <2>7. StoredSound(new)
    BY <2>1 DEF StoredSound
  <2>8. QED
    BY <2>2, <2>3, <2>4, <2>5, <2>6, <2>7 DEF PageSound, Sound
<1>3. QED
  BY <1>1, <1>2

\* A step beside the saves: the question it leaves, if any, is sound.
LEMMA SideSound ==
  ASSUME NEW p \in Pages, NEW pg \in Page, NEW new \in Page, PageSound(p, pg),
         SameCore(new, pg), Resting(new), NotesSound(new),
         \/ SameAsk(new, pg)
         \/ new.ask \notin {"flushing", "posting"}
  PROVE  PageSound(p, new)
<1>1. Sound(p, pg) /\ StoredSound(pg)
  BY DEF PageSound
<1>2. AcksSound(new.save) /\ BoardSound(new) /\ SaveSound(new.save) /\ FlightSound(new)
  BY <1>1 DEF Sound, SameCore, BoardSound, FlightSound
<1>3. ConflictSound(new) /\ AuthorSound(p, new)
  BY <1>1 DEF Sound, SameCore, ConflictSound, AuthorSound
<1>4. AskSound(new)
  BY <1>1 DEF Sound, SameCore, AskSound, SameAsk
<1>5. StoredSound(new)
  BY <1>1 DEF SameCore, StoredSound, Stored, SameAsk
<1>6. QED
  BY <1>2, <1>3, <1>4, <1>5 DEF PageSound, Sound

\* Taking notes that were placed and, if new to the page, are not on its board.
LEMMA TakingSound ==
  ASSUME NEW p \in Pages, NEW pg \in Page, PageSound(p, pg), saved \in Saved,
         pg.at \in {"open", "left"}, NEW S \in SUBSET Placed,
         \A n \in S \ pg.taken : pg.board[n] = 0
  PROVE  Taking(pg, S) \in Page /\ PageSound(p, Taking(pg, S))
<1> DEFINE new == Taking(pg, S)
<1>1. S \in SUBSET Notes
  BY DEF Placed
<1>2. /\ new \in Page
      /\ new.board = [e \in Elements |-> IF e \in Added(pg, S) THEN 1 ELSE pg.board[e]]
      /\ new.taken = pg.taken \cup New(pg, S) /\ new.unsaved = pg.unsaved \cup New(pg, S)
      /\ Added(pg, S) = {} => new.timer = pg.timer
      /\ Added(pg, S) # {} => /\ pg.conflict = TRUE => new.timer = "mute"
                              /\ pg.conflict = FALSE => new.timer = "armed"
      /\ new.at = pg.at /\ new.version = pg.version /\ new.again = pg.again
      /\ new.save = pg.save /\ new.conflict = pg.conflict
      /\ new.given = pg.given /\ new.wire = pg.wire /\ SameAsk(new, pg) /\ SameSync(new, pg)
  BY <1>1, TakingLeaves
<1> HIDE DEF new
<1>3. pg.board \in Board /\ NotesSound(pg) /\ Resting(pg)
  BY DEF PageSound, Sound, Page
<1>4. Added(pg, S) = New(pg, S) /\ \A n \in New(pg, S) : pg.board[n] = 0
  <2>1. \A n \in New(pg, S) : n \in S \ pg.taken /\ pg.board[n] = 0
    BY DEF New
  <2>2. \A n \in New(pg, S) : n \notin OnBoard(pg.board)
    BY <2>1 DEF OnBoard
  <2>3. QED
    BY <2>1, <2>2 DEF Added
<1>5. New(pg, S) \in SUBSET Elements
  BY <1>1 DEF New, Elements
<1>6. new.board \in Board /\ Reaches(new.board, pg.board)
  BY <1>2, <1>3, <1>4, <1>5, AddedReaches
<1>7. \A n \in Notes : n \notin New(pg, S) => new.board[n] = pg.board[n]
  BY <1>2, <1>4 DEF Elements
<1>8. NotesSound(new)
  <2>1. new.unsaved \subseteq new.taken
    BY <1>2, <1>3 DEF NotesSound
  <2>2. new.taken \cup new.given \cup new.wire \subseteq Placed
    BY <1>2, <1>3 DEF NotesSound, New
  <2>3. new.taken \ new.unsaved \subseteq Applied
    BY <1>2, <1>3 DEF NotesSound
  <2>4. ASSUME NEW n \in Notes \ (Applied \cup new.taken) PROVE new.board[n] = 0
    BY <1>2, <1>3, <1>7 DEF NotesSound
  <2>5. ASSUME NEW n \in (new.given \cup new.wire) \ new.taken PROVE new.board[n] = 0
    <3>1. n \in Notes
      BY <1>2, <1>3 DEF NotesSound, Placed
    <3>2. QED
      BY <1>2, <1>3, <1>7, <3>1 DEF NotesSound
  <2>6. QED
    BY <2>1, <2>2, <2>3, <2>4, <2>5 DEF NotesSound
<1>9. CASE New(pg, S) = {}
  <2>1. new.board = pg.board
    BY <1>2, <1>3, <1>4, <1>9 DEF Board
  <2>2. SameCore(new, pg)
    BY <1>2, <1>4, <1>9, <2>1 DEF SameCore
  <2>3. Resting(new)
    BY <1>2 DEF Resting
  <2>4. QED
    BY <1>2, <1>8, <2>2, <2>3, SideSound DEF new
<1>10. CASE New(pg, S) # {}
  <2>1. /\ pg.conflict = TRUE => new.timer = "mute"
        /\ pg.conflict = FALSE => new.timer = "armed"
    BY <1>2, <1>4, <1>10
  <2>2. PageSound(p, new)
    BY <1>2, <1>6, <1>8, <2>1, GrowsSound
  <2>3. QED
    BY <1>2, <2>2 DEF new
<1>11. QED
  BY <1>9, <1>10

\* performSave is over: no save in flight, and the one that waited goes out.
LEMMA OverSound ==
  ASSUME NEW p \in Pages, NEW pg \in Page, NEW now \in Page, saved \in Saved,
         pg.at \in {"open", "left"}, now.at = pg.at, now.again = pg.again,
         NEW over \in Page, over.save = NoSave, over.again = FALSE,
         over.at = now.at, over.board = now.board, over.version = now.version,
         over.timer = now.timer, over.conflict = now.conflict,
         SameNotes(over, now), SameAsk(over, now),
         Sound(p, over), pg.again = FALSE => StoredSound(over)
  PROVE  PageSound(p, IF pg.again THEN Sent(over) ELSE over)
<1>1. pg.again \in BOOLEAN
  BY DEF Page
<1>2. CASE pg.again = TRUE
  <2>1. /\ Sent(over) \in Page /\ Sent(over).save = Fresh(over)
        /\ Sent(over).at = over.at /\ Sent(over).board = over.board
        /\ Sent(over).version = over.version
        /\ Sent(over).timer = over.timer /\ Sent(over).again = over.again
        /\ Sent(over).conflict = over.conflict
        /\ SameNotes(Sent(over), over) /\ SameAsk(Sent(over), over)
    BY SentLeaves
  <2>2. over.save.at = "none"
    BY DEF NoSave
  <2>3. PageSound(p, Sent(over))
    BY <2>1, <2>2, SentSound
  <2>4. QED
    BY <1>2, <2>3
<1>3. CASE pg.again = FALSE
  BY <1>3 DEF PageSound
<1>4. QED
  BY <1>1, <1>2, <1>3

-----------------------------------------------------------------------------
(* What the steps of others leave of a page. *)

\* Nothing it looks at changed.
LEMMA QuietKeeps ==
  ASSUME NEW p \in Pages, NEW pg \in Page, PageSound(p, pg),
         UNCHANGED <<saved, notes>>, NoFault' => NoFault
  PROVE  PageSound(p, pg)'
<1>1. Applied' = Applied /\ Placed' = Placed
  BY DEF Applied, Placed
<1>2. NotesSound(pg)' /\ AcksSound(pg.save)' /\ Resting(pg)'
  BY <1>1 DEF PageSound, Sound, NotesSound, AcksSound, Resting
<1>3. BoardSound(pg)' /\ SaveSound(pg.save)' /\ FlightSound(pg)'
  BY DEF PageSound, Sound, BoardSound, SaveSound, FlightSound, Reaches
<1>4. ConflictSound(pg)'
  BY DEF PageSound, Sound, ConflictSound
<1>5. AuthorSound(p, pg)'
  BY DEF PageSound, Sound, AuthorSound
<1>6. AskSound(pg)'
  BY DEF PageSound, Sound, AskSound, Reaches
<1>7. StoredSound(pg)'
  BY DEF PageSound, StoredSound, Stored, Reaches
<1>8. QED
  BY <1>2, <1>3, <1>4, <1>5, <1>6, <1>7 DEF PageSound, Sound

\* A note was placed.
LEMMA PlacedKeeps ==
  ASSUME NEW p \in Pages, NEW pg \in Page, PageSound(p, pg), UNCHANGED saved, NoFault' => NoFault,
         Applied' = Applied, Placed \subseteq Placed'
  PROVE  PageSound(p, pg)'
<1>2. NotesSound(pg)' /\ AcksSound(pg.save)' /\ Resting(pg)'
  BY DEF PageSound, Sound, NotesSound, AcksSound, Resting
<1>3. BoardSound(pg)' /\ SaveSound(pg.save)' /\ FlightSound(pg)'
  BY DEF PageSound, Sound, BoardSound, SaveSound, FlightSound, Reaches
<1>4. ConflictSound(pg)' /\ AuthorSound(p, pg)'
  BY DEF PageSound, Sound, ConflictSound, AuthorSound
<1>6. AskSound(pg)' /\ StoredSound(pg)'
  BY DEF PageSound, Sound, AskSound, StoredSound, Stored, Reaches
<1>7. QED
  BY <1>2, <1>3, <1>4, <1>6 DEF PageSound, Sound

\* Another page's save was written.
LEMMA WrittenKeeps ==
  ASSUME NEW p \in Pages, NEW pg \in Page, PageSound(p, pg), saved \in Saved, saved' \in Saved,
         saved'.version = saved.version + 1, saved'.by # p, Reaches(saved'.board, saved.board),
         Placed' = Placed, Applied \subseteq Applied', UNCHANGED bound
  PROVE  PageSound(p, pg)'
<1>1. /\ saved.board \in Board /\ saved'.board \in Board /\ pg.board \in Board
      /\ pg.save.board \in Board /\ pg.asked \in Board
      /\ saved.version \in Nat /\ saved'.version \in Nat /\ pg.version \in Nat
      /\ pg.save.expected \in Nat
  BY DEF Saved, Page, Save
<1>2. NotesSound(pg)' /\ AcksSound(pg.save)' /\ Resting(pg)'
  BY DEF PageSound, Sound, NotesSound, AcksSound, Resting
<1>3. BoardSound(pg)'
  BY <1>1 DEF PageSound, Sound, BoardSound
<1>4. SaveSound(pg.save)'
  BY <1>1 DEF PageSound, Sound, SaveSound
<1>5. FlightSound(pg)'
  BY <1>1 DEF PageSound, Sound, SaveSound, FlightSound, Reaches
<1>6. NoFault' => NoFault
  BY DEF NoFault
<1>7. ConflictSound(pg)'
  BY <1>1, <1>6 DEF PageSound, Sound, ConflictSound
<1>8. AuthorSound(p, pg)'
  BY DEF PageSound, Sound, AuthorSound
<1>9. \A b \in Board : Reaches(saved.board, b) => Reaches(saved'.board, b)
  BY <1>1, ReachesIsOrder
<1>10. AskSound(pg)'
  BY <1>1, <1>6, <1>9 DEF PageSound, Sound, AskSound, Reaches
<1>11. StoredSound(pg)'
  BY <1>1, <1>6, <1>9 DEF PageSound, StoredSound, Stored, Reaches
<1>12. QED
  BY <1>2, <1>3, <1>4, <1>5, <1>7, <1>8, <1>10, <1>11 DEF PageSound, Sound

-----------------------------------------------------------------------------
(* One page steps. *)

LEMMA PageMoves ==
  ASSUME page \in [Pages -> Page], NEW p \in Pages, NEW new \in Page, PageBecomes(p, new),
         PageSound(p, new)',
         \A q \in Pages \ {p}, pg \in Page : pg = page[q] => PageSound(q, pg)'
  PROVE  /\ page' \in [Pages -> Page] /\ page'[p] = new
         /\ \A q \in Pages : PageSound(q, page[q])'
<1>1. page' = [page EXCEPT ![p] = new]
  BY DEF PageBecomes
<1>2. page' \in [Pages -> Page] /\ page'[p] = new /\ \A q \in Pages \ {p} : page'[q] = page[q]
  BY <1>1
<1>3. ASSUME NEW q \in Pages PROVE PageSound(q, page[q])'
  <2>1. CASE q = p
    <3>1. page'[q] = new
      BY <1>2, <2>1
    <3>2. QED
      BY <2>1, <3>1 DEF PageSound, Sound, Resting, NotesSound, AcksSound, BoardSound, SaveSound,
         FlightSound, ConflictSound, AuthorSound, AskSound, StoredSound, Stored
  <2>2. CASE q # p
    <3>1. PICK pg \in Page : pg = page[q]
      OBVIOUS
    <3>2. page'[q] = pg
      BY <1>2, <2>2, <3>1
    <3>3. PageSound(q, pg)'
      BY <2>2, <3>1
    <3>4. QED
      BY <3>2, <3>3 DEF PageSound, Sound, Resting, NotesSound, AcksSound, BoardSound, SaveSound,
         FlightSound, ConflictSound, AuthorSound, AskSound, StoredSound, Stored
  <2>3. QED
    BY <2>1, <2>2
<1>4. QED
  BY <1>2, <1>3

\* A bound may only be used up; a lost request is remembered.
BoundMoves == bound' \in Scenario /\ bound'.faults <= bound'.hadFaults /\ (NoFault' => NoFault)

LEMMA SpendMoves ==
  ASSUME bound \in Scenario, bound.faults <= bound.hadFaults,
         NEW b \in {"gestures", "asks", "hides", "leaves", "faults"}, Spend(b)
  PROVE  BoundMoves /\ (b = "faults" => ~NoFault')
<1> DEFINE left == bound[b] - 1
<1>1. bound' = [bound EXCEPT ![b] = left] /\ bound[b] > 0
  BY DEF Spend
<1>2. bound[b] \in Nat
  BY DEF Scenario
<1>3. left \in Nat /\ left < bound[b]
  BY <1>1, <1>2
<1> HIDE DEF left
<1>4. bound' \in Scenario
  <2>1. CASE b = "gestures"  BY <1>1, <1>3, <2>1 DEF Scenario
  <2>2. CASE b = "asks"      BY <1>1, <1>3, <2>2 DEF Scenario
  <2>3. CASE b = "hides"     BY <1>1, <1>3, <2>3 DEF Scenario
  <2>4. CASE b = "leaves"    BY <1>1, <1>3, <2>4 DEF Scenario
  <2>5. CASE b = "faults"    BY <1>1, <1>3, <2>5 DEF Scenario
  <2>6. QED
    BY <2>1, <2>2, <2>3, <2>4, <2>5
<1>5. bound'.hadFaults = bound.hadFaults /\ bound'.faults = IF b = "faults" THEN left ELSE bound.faults
  BY <1>1 DEF Scenario
<1>6. bound.faults \in Nat /\ bound.hadFaults \in Nat
  BY DEF Scenario
<1>7. QED
  BY <1>3, <1>4, <1>5, <1>6 DEF BoundMoves, NoFault

LEMMA StillMoves ==
  ASSUME bound \in Scenario, bound.faults <= bound.hadFaults, UNCHANGED bound
  PROVE  BoundMoves
BY DEF BoundMoves, NoFault

\* Most steps are of one page, beside what is stored.
LEMMA QuietStep ==
  ASSUME PagesInv, NEW p \in Pages, NEW new \in Page, PageBecomes(p, new),
         UNCHANGED <<saved, notes>>, BoundMoves, PageSound(p, new)
  PROVE  PagesInv' /\ page'[p] = new
<1>1. NoFault' => NoFault
  BY DEF BoundMoves
<1>2. PageSound(p, new)'
  BY <1>1, QuietKeeps
<1>3. ASSUME NEW q \in Pages \ {p}, NEW pg \in Page, pg = page[q] PROVE PageSound(q, pg)'
  <2>1. PageSound(q, pg)
    BY <1>3 DEF PagesInv
  <2>2. QED
    BY <1>1, <2>1, QuietKeeps
<1>4. page \in [Pages -> Page]
  BY DEF PagesInv
<1>5. page' \in [Pages -> Page] /\ page'[p] = new /\ \A q \in Pages : PageSound(q, page[q])'
  BY <1>2, <1>3, <1>4, PageMoves
<1>6. Applied' = Applied
  BY DEF Applied
<1>7. saved' = saved /\ notes' = notes
  OBVIOUS
<1>8. QED
  BY <1>5, <1>6, <1>7 DEF PagesInv, BoundMoves

LEMMA PageNow ==
  ASSUME PagesInv, NEW p \in Pages
  PROVE  /\ page[p] \in Page /\ PageSound(p, page[p]) /\ Sound(p, page[p])
         /\ saved \in Saved /\ bound \in Scenario /\ bound.faults <= bound.hadFaults
         /\ notes \in [Notes -> {"unplaced", "pending", "applied"}]
BY DEF PagesInv, PageSound

\* A timer that was set after a conflict saves nothing.
LEMMA MutedSound ==
  ASSUME NEW p \in Pages, NEW pg \in Page, Sound(p, pg), pg.at \in {"open", "left"},
         pg.conflict = TRUE
  PROVE  LET new == [pg EXCEPT !.timer = "none"] IN new \in Page /\ PageSound(p, new)
<1> DEFINE new == [pg EXCEPT !.timer = "none"]
<1>1. /\ new \in Page /\ new.timer = "none" /\ new.at = pg.at /\ new.board = pg.board
      /\ new.version = pg.version /\ new.again = pg.again /\ new.save = pg.save
      /\ new.conflict = pg.conflict /\ SameNotes(new, pg) /\ SameAsk(new, pg)
  BY DEF Page, SameNotes, SameAsk
<1> HIDE DEF new
<1>2. Resting(new) /\ NotesSound(new) /\ AcksSound(new.save) /\ SaveSound(new.save)
  BY <1>1 DEF Sound, Resting, NotesSound, SameNotes
<1>3. BoardSound(new) /\ FlightSound(new) /\ ConflictSound(new) /\ AuthorSound(p, new)
  BY <1>1 DEF Sound, BoardSound, FlightSound, ConflictSound, AuthorSound
<1>4. AskSound(new) /\ StoredSound(new)
  BY <1>1 DEF Sound, AskSound, StoredSound
<1>5. QED
  BY <1>1, <1>2, <1>3, <1>4 DEF PageSound, Sound, new

LEMMA TimerFiresKeeps ==
  ASSUME PagesInv, NEW p \in Pages, TimerFires(p)
  PROVE  PagesInv'
<1>1. PICK pg \in Page : pg = page[p] /\ PageSound(p, pg) /\ Sound(p, pg)
  BY PageNow
<1>2. saved \in Saved /\ BoundMoves /\ UNCHANGED <<saved, notes>>
  BY PageNow, StillMoves DEF TimerFires
<1>3. pg.at \in {"open", "left"} /\ pg.timer # "none"
  BY <1>1 DEF TimerFires, Alive
<1>4. CASE pg.timer = "armed"
  <2>1. PageBecomes(p, Requested(pg))
    BY <1>1, <1>4 DEF TimerFires
  <2>2. Requested(pg) \in Page /\ PageSound(p, Requested(pg))
    BY <1>1, <1>2, <1>3, RequestedLeaves, RequestedSound
  <2>3. QED
    BY <1>2, <2>1, <2>2, QuietStep
<1>5. CASE pg.timer = "mute"
  <2>1. PageBecomes(p, [pg EXCEPT !.timer = "none"])
    BY <1>1, <1>5 DEF TimerFires
  <2>2. pg.conflict = TRUE
    BY <1>1, <1>5 DEF Sound, ConflictSound
  <2>3. [pg EXCEPT !.timer = "none"] \in Page /\ PageSound(p, [pg EXCEPT !.timer = "none"])
    BY <1>1, <1>3, <2>2, MutedSound
  <2>4. QED
    BY <1>2, <2>1, <2>3, QuietStep
<1>6. QED
  BY <1>3, <1>4, <1>5 DEF Page

Got(pg, x) == [pg EXCEPT !.save.at = x]

\* The save in flight gets to x; nothing else of the page changes.
LEMMA SaveMoves ==
  ASSUME NEW pg \in Page, NEW x \in {"sent", "checked", "ok", "stale", "failed"}
  PROVE  LET new == Got(pg, x) IN
         /\ new \in Page
         /\ new.save.at = x /\ new.save.board = pg.save.board
         /\ new.save.expected = pg.save.expected /\ new.save.acks = pg.save.acks
         /\ new.at = pg.at /\ new.board = pg.board /\ new.version = pg.version
         /\ new.timer = pg.timer /\ new.again = pg.again /\ new.conflict = pg.conflict
         /\ SameNotes(new, pg) /\ SameAsk(new, pg) /\ SameSync(new, pg)
<1> DEFINE s == [pg.save EXCEPT !.at = x]
<1>1. /\ s \in Save /\ s.at = x /\ s.board = pg.save.board /\ s.expected = pg.save.expected
      /\ s.acks = pg.save.acks
  BY DEF Page, Save
<1>2. Got(pg, x) = [pg EXCEPT !.save = s]
  BY DEF Got
<1> HIDE DEF s
<1>3. QED
  BY <1>1, <1>2 DEF Page, SameNotes, SameAsk, SameSync

LEMMA CheckVersionKeeps ==
  ASSUME PagesInv, NEW p \in Pages, CheckVersion(p)
  PROVE  PagesInv'
<1>1. PICK pg \in Page : pg = page[p] /\ PageSound(p, pg) /\ Sound(p, pg)
  BY PageNow
<1>2. saved \in Saved /\ BoundMoves /\ UNCHANGED <<saved, notes>>
  BY PageNow, StillMoves DEF CheckVersion
<1>3. PICK x \in {"checked", "stale"} :
        /\ PageBecomes(p, Got(pg, x))
        /\ x = "checked" <=> saved.version = pg.save.expected
  <2>1. CASE saved.version = pg.save.expected
    BY <1>1, <2>1 DEF CheckVersion, Got
  <2>2. CASE saved.version # pg.save.expected
    BY <1>1, <2>2 DEF CheckVersion, Got
  <2>3. QED
    BY <2>1, <2>2
<1>4. pg.save.at = "sent"
  BY <1>1 DEF CheckVersion
<1>5. PICK new \in Page :
        /\ new = Got(pg, x)
        /\ new.save.at = x /\ new.save.board = pg.save.board
        /\ new.save.expected = pg.save.expected /\ new.save.acks = pg.save.acks
        /\ new.at = pg.at /\ new.board = pg.board /\ new.version = pg.version
        /\ new.timer = pg.timer /\ new.again = pg.again /\ new.conflict = pg.conflict
        /\ SameNotes(new, pg) /\ SameAsk(new, pg) /\ SameSync(new, pg)
  BY SaveMoves
<1>6. pg.save.expected \in Nat /\ saved.version \in Nat /\ pg.version \in Nat
  BY <1>2 DEF Page, Save, Saved
<1>7. Resting(new)
  BY <1>1, <1>4, <1>5 DEF Sound, Resting, SameNotes, SameAsk, SameSync, NoSave
<1>8. NotesSound(new) /\ AcksSound(new.save)
  BY <1>1, <1>4, <1>5 DEF Sound, NotesSound, AcksSound, SameNotes
<1>9. BoardSound(new)
  BY <1>1, <1>5 DEF Sound, BoardSound
<1>10. SaveSound(new.save)
  BY <1>1, <1>3, <1>4, <1>5, <1>6 DEF Sound, SaveSound
<1>11. FlightSound(new)
  BY <1>1, <1>4, <1>5 DEF Sound, FlightSound
<1>12. ConflictSound(new)
  BY <1>1, <1>4, <1>5 DEF Sound, ConflictSound
<1>13. AuthorSound(p, new)
  BY <1>1, <1>4, <1>5 DEF Sound, AuthorSound
<1>14. AskSound(new)
  BY <1>1, <1>5 DEF Sound, AskSound, SameAsk
<1>15. StoredSound(new)
  BY <1>1, <1>4, <1>5 DEF PageSound, StoredSound, Stored, SameAsk
<1>16. PageSound(p, new)
  BY <1>7, <1>8, <1>9, <1>10, <1>11, <1>12, <1>13, <1>14, <1>15 DEF PageSound, Sound
<1>17. QED
  BY <1>2, <1>3, <1>5, <1>16, QuietStep

\* A lost request is one NoFault knows of.
LEMMA SaveFailsKeeps ==
  ASSUME PagesInv, NEW p \in Pages, SaveFails(p)
  PROVE  PagesInv'
<1>1. PICK pg \in Page : pg = page[p] /\ PageSound(p, pg) /\ Sound(p, pg)
  BY PageNow
<1>2. saved \in Saved /\ BoundMoves /\ ~NoFault' /\ UNCHANGED <<saved, notes>>
  BY PageNow, SpendMoves DEF SaveFails
<1>3. PICK new \in Page :
        /\ new = Got(pg, "failed")
        /\ new.save.at = "failed" /\ new.save.board = pg.save.board
        /\ new.save.expected = pg.save.expected /\ new.save.acks = pg.save.acks
        /\ new.at = pg.at /\ new.board = pg.board /\ new.version = pg.version
        /\ new.timer = pg.timer /\ new.again = pg.again /\ new.conflict = pg.conflict
        /\ SameNotes(new, pg) /\ SameAsk(new, pg) /\ SameSync(new, pg)
  BY SaveMoves
<1>4. PageBecomes(p, new) /\ pg.save.at \in {"sent", "checked", "ok"}
  BY <1>1, <1>3 DEF SaveFails, Got
<1>5. PageSound(p, pg)'
  BY <1>1, <1>2, QuietKeeps DEF BoundMoves
<1>6. Resting(new)' /\ NotesSound(new)' /\ AcksSound(new.save)'
  BY <1>3, <1>4, <1>5
     DEF PageSound, Sound, Resting, NotesSound, AcksSound, SameNotes, SameAsk, SameSync, NoSave
<1>7. BoardSound(new)' /\ SaveSound(new.save)' /\ FlightSound(new)'
  BY <1>3, <1>4, <1>5 DEF PageSound, Sound, BoardSound, SaveSound, FlightSound
<1>8. ConflictSound(new)' /\ AuthorSound(p, new)' /\ AskSound(new)' /\ StoredSound(new)'
  BY <1>2, <1>3, <1>4, <1>5
     DEF PageSound, Sound, ConflictSound, AuthorSound, AskSound, StoredSound
<1>9. PageSound(p, new)'
  BY <1>6, <1>7, <1>8 DEF PageSound, Sound
<1>10. ASSUME NEW q \in Pages \ {p}, NEW old \in Page, old = page[q] PROVE PageSound(q, old)'
  BY <1>2, <1>10, QuietKeeps DEF BoundMoves, PagesInv
<1>11. page' \in [Pages -> Page] /\ \A q \in Pages : PageSound(q, page[q])'
  BY <1>4, <1>9, <1>10, PageMoves DEF PagesInv
<1>12. Applied' = Applied
  BY <1>2 DEF Applied
<1>13. QED
  BY <1>2, <1>11, <1>12 DEF PagesInv, BoundMoves

LEMMA WriteLostKeeps ==
  ASSUME PagesInv, NEW p \in Pages, WriteBoard(p), ~Wins(page[p].save)
  PROVE  PagesInv'
<1>1. PICK pg \in Page : pg = page[p] /\ PageSound(p, pg) /\ Sound(p, pg)
  BY PageNow
<1>2. saved \in Saved /\ BoundMoves /\ UNCHANGED <<saved, notes>>
  BY PageNow, StillMoves DEF WriteBoard
<1>3. pg.save.at = "checked" /\ saved.version # pg.save.expected
  BY <1>1 DEF WriteBoard, Wins
<1>4. PageBecomes(p, Got(pg, "stale"))
  BY <1>1 DEF WriteBoard, Got
<1>5. PICK new \in Page :
        /\ new = Got(pg, "stale")
        /\ new.save.at = "stale" /\ new.save.board = pg.save.board
        /\ new.save.expected = pg.save.expected /\ new.save.acks = pg.save.acks
        /\ new.at = pg.at /\ new.board = pg.board /\ new.version = pg.version
        /\ new.timer = pg.timer /\ new.again = pg.again /\ new.conflict = pg.conflict
        /\ SameNotes(new, pg) /\ SameAsk(new, pg) /\ SameSync(new, pg)
  BY SaveMoves
<1>6. pg.save.expected \in Nat /\ saved.version \in Nat
  BY <1>2 DEF Page, Save, Saved
<1>7. Resting(new) /\ NotesSound(new) /\ AcksSound(new.save)
  BY <1>1, <1>3, <1>5
     DEF Sound, Resting, NotesSound, AcksSound, SameNotes, SameAsk, SameSync, NoSave
<1>8. BoardSound(new) /\ FlightSound(new)
  BY <1>1, <1>3, <1>5 DEF Sound, BoardSound, FlightSound
<1>9. SaveSound(new.save)
  BY <1>1, <1>3, <1>5, <1>6 DEF Sound, SaveSound
<1>10. ConflictSound(new) /\ AuthorSound(p, new)
  BY <1>1, <1>3, <1>5 DEF Sound, ConflictSound, AuthorSound
<1>11. AskSound(new) /\ StoredSound(new)
  BY <1>1, <1>3, <1>5 DEF PageSound, Sound, AskSound, StoredSound, Stored, SameAsk
<1>12. PageSound(p, new)
  BY <1>7, <1>8, <1>9, <1>10, <1>11 DEF PageSound, Sound
<1>13. QED
  BY <1>2, <1>4, <1>5, <1>12, QuietStep

\* What the transaction of a save that wins leaves stored.
LEMMA WriteStores ==
  ASSUME PagesInv, NEW p \in Pages, WriteBoard(p), Wins(page[p].save)
  PROVE  /\ saved' \in Saved /\ saved'.version = saved.version + 1
         /\ saved'.board = page[p].save.board /\ saved'.by = p
         /\ Reaches(saved'.board, saved.board)
         /\ notes' \in [Notes -> {"unplaced", "pending", "applied"}]
         /\ Placed' = Placed /\ Applied \subseteq Applied' /\ page[p].save.acks \subseteq Applied'
         /\ UNCHANGED <<bound, chat>>
<1>1. PICK pg \in Page : pg = page[p] /\ Sound(p, pg)
  BY PageNow
<1>2. saved \in Saved /\ notes \in [Notes -> {"unplaced", "pending", "applied"}]
  BY PageNow
<1>3. pg.save.at = "checked" /\ saved.version = pg.save.expected
  BY <1>1 DEF Wins
<1>4. pg.save.board \in Board /\ pg.save.expected \in Nat
  BY DEF Page, Save
<1>5. saved' = [version |-> pg.save.expected + 1, board |-> pg.save.board, by |-> p]
  BY <1>1 DEF WriteBoard
<1>6. /\ saved' \in Saved /\ saved'.version = saved.version + 1
      /\ saved'.board = pg.save.board /\ saved'.by = p
  BY <1>3, <1>4, <1>5 DEF Saved
<1>7. Reaches(pg.save.board, saved.board)
  BY <1>1, <1>3 DEF Sound, SaveSound
<1>8. notes' = [n \in Notes |->
        IF n \in Pending \cap Acknowledged(pg.save) THEN "applied" ELSE notes[n]]
  BY <1>1 DEF WriteBoard
<1>9. \A n \in Notes :
        /\ n \in Pending \cap Acknowledged(pg.save) => notes'[n] = "applied"
        /\ n \notin Pending \cap Acknowledged(pg.save) => notes'[n] = notes[n]
  BY <1>8
<1>10. notes' \in [Notes -> {"unplaced", "pending", "applied"}]
  BY <1>2, <1>8
<1>11. \A n \in Pending : n \in Placed
  BY DEF Pending, Placed
<1>12. \A n \in Notes : n \in Pending <=> notes[n] = "pending"
  BY DEF Pending
<1>13. Placed' = Placed
  <2>1. \A n \in Notes : notes'[n] # "unplaced" <=> notes[n] # "unplaced"
    BY <1>9, <1>12
  <2>2. QED
    BY <2>1 DEF Placed
<1>14. Applied \subseteq Applied'
  <2>1. \A n \in Notes : notes[n] = "applied" => notes'[n] = "applied"
    BY <1>9
  <2>2. QED
    BY <2>1 DEF Applied
<1>15. pg.save.acks \subseteq Applied'
  <2>1. ASSUME NEW n \in pg.save.acks PROVE n \in Notes /\ notes'[n] = "applied"
    <3>1. n \in Notes /\ notes[n] # "unplaced"
      BY <1>1 DEF Sound, AcksSound, Placed
    <3>2. n \in Acknowledged(pg.save)
      BY DEF Acknowledged
    <3>3. notes[n] \in {"pending", "applied"}
      BY <1>2, <3>1
    <3>4. QED
      BY <1>9, <1>12, <3>1, <3>2, <3>3
  <2>2. QED
    BY <2>1 DEF Applied
<1>16. UNCHANGED <<bound, chat>>
  BY DEF WriteBoard
<1>17. QED
  BY <1>1, <1>6, <1>7, <1>10, <1>13, <1>14, <1>15, <1>16

LEMMA WriteWinsKeeps ==
  ASSUME PagesInv, NEW p \in Pages, WriteBoard(p), Wins(page[p].save)
  PROVE  PagesInv'
<1>1. PICK pg \in Page : pg = page[p] /\ PageSound(p, pg) /\ Sound(p, pg)
  BY PageNow
<1>2. /\ saved' \in Saved /\ saved'.version = saved.version + 1
      /\ saved'.board = pg.save.board /\ saved'.by = p
      /\ Reaches(saved'.board, saved.board)
      /\ notes' \in [Notes -> {"unplaced", "pending", "applied"}]
      /\ Placed' = Placed /\ Applied \subseteq Applied' /\ pg.save.acks \subseteq Applied'
      /\ UNCHANGED <<bound, chat>>
  BY <1>1, WriteStores
<1>3. pg.save.at = "checked" /\ saved.version = pg.save.expected
  BY <1>1 DEF Wins
<1>4. PageBecomes(p, Got(pg, "ok"))
  BY <1>1 DEF WriteBoard, Got
<1>5. PICK new \in Page :
        /\ new = Got(pg, "ok")
        /\ new.save.at = "ok" /\ new.save.board = pg.save.board
        /\ new.save.expected = pg.save.expected /\ new.save.acks = pg.save.acks
        /\ new.at = pg.at /\ new.board = pg.board /\ new.version = pg.version
        /\ new.timer = pg.timer /\ new.again = pg.again /\ new.conflict = pg.conflict
        /\ SameNotes(new, pg) /\ SameAsk(new, pg) /\ SameSync(new, pg)
  BY SaveMoves
<1>6. saved \in Saved /\ bound \in Scenario /\ bound.faults <= bound.hadFaults
  BY PageNow
<1>7. /\ saved.board \in Board /\ saved'.board \in Board /\ pg.board \in Board
      /\ pg.save.board \in Board /\ pg.asked \in Board
      /\ saved.version \in Nat /\ saved'.version \in Nat /\ pg.version \in Nat
      /\ pg.conflict \in BOOLEAN
  BY <1>2, <1>6 DEF Saved, Page, Save
<1>8. NoFault' = NoFault
  BY <1>2 DEF NoFault
<1>9. Resting(new)' /\ NotesSound(new)'
  BY <1>1, <1>2, <1>3, <1>5
     DEF Sound, Resting, NotesSound, SameNotes, SameAsk, SameSync, NoSave
<1>10. AcksSound(new.save)'
  BY <1>1, <1>2, <1>5 DEF Sound, AcksSound
<1>11. BoardSound(new)' /\ SaveSound(new.save)'
  BY <1>1, <1>2, <1>3, <1>5, <1>7 DEF Sound, BoardSound, SaveSound
<1>12. FlightSound(new)'
  BY <1>1, <1>2, <1>3, <1>5, <1>7, ReachesIsOrder DEF Sound, FlightSound
<1>13. ConflictSound(new)'
  <2>1. new.at \in {"open", "left"} => pg.version = saved.version
    BY <1>1, <1>3, <1>5 DEF Sound, FlightSound
  <2>2. new.conflict = FALSE
    BY <1>1, <1>5, <1>7, <2>1 DEF Sound, ConflictSound, Resting
  <2>3. QED
    BY <1>1, <1>3, <1>5, <1>8, <2>2 DEF Sound, ConflictSound
<1>14. AuthorSound(p, new)'
  <2>1. new.at \notin {"unopened", "loading"}
    BY <1>1, <1>3, <1>5 DEF Sound, Resting, NoSave
  <2>2. new.at \in {"open", "left"} => pg.version = saved.version
    BY <1>1, <1>3, <1>5 DEF Sound, FlightSound
  <2>3. new.at \in {"open", "left"} => new.conflict = FALSE
    BY <1>1, <1>5, <1>7, <2>2 DEF Sound, ConflictSound
  <2>4. QED
    BY <1>2, <1>5, <2>1, <2>2, <2>3 DEF AuthorSound
<1>15. AskSound(new)'
  <2>1. \A b \in Board : Reaches(saved.board, b) => Reaches(saved'.board, b)
    BY <1>2, <1>7, ReachesIsOrder
  <2>2. QED
    BY <1>1, <1>5, <1>7, <1>8, <2>1 DEF Sound, AskSound, SameAsk, Reaches
<1>16. StoredSound(new)'
  BY <1>1, <1>2, <1>3, <1>5, <1>8 DEF PageSound, StoredSound, Stored, SameAsk, Reaches
<1>17. PageSound(p, new)'
  BY <1>9, <1>10, <1>11, <1>12, <1>13, <1>14, <1>15, <1>16 DEF PageSound, Sound
<1>18. ASSUME NEW q \in Pages \ {p}, NEW old \in Page, old = page[q] PROVE PageSound(q, old)'
  BY <1>2, <1>6, <1>18, WrittenKeeps DEF PagesInv
<1>19. page' \in [Pages -> Page] /\ \A q \in Pages : PageSound(q, page[q])'
  BY <1>4, <1>5, <1>17, <1>18, PageMoves DEF PagesInv
<1>20. \A n \in Notes \ Applied' : saved'.board[n] = 0
  BY <1>1, <1>2 DEF Sound, AcksSound
<1>21. QED
  BY <1>2, <1>6, <1>19, <1>20 DEF PagesInv

LEMMA NoSaveIsSave == NoSave \in Save
BY BlankIsBoard DEF NoSave, Save

Over(now) == [now EXCEPT !.save = NoSave, !.again = FALSE]

LEMMA OverLeaves ==
  ASSUME NEW now \in Page
  PROVE  /\ Over(now) \in Page /\ Over(now).save = NoSave /\ Over(now).again = FALSE
         /\ Over(now).at = now.at /\ Over(now).board = now.board /\ Over(now).version = now.version
         /\ Over(now).timer = now.timer /\ Over(now).conflict = now.conflict
         /\ SameNotes(Over(now), now) /\ SameAsk(Over(now), now)
BY NoSaveIsSave DEF Over, Page, SameNotes, SameAsk

\* The answer of a save that was written.
LEMMA SavedAnswer ==
  ASSUME PagesInv, NEW p \in Pages, NEW pg \in Page, pg = page[p], Answered(p),
         pg.save.at = "ok", NEW over \in Page, over = Over(Confirmed(pg))
  PROVE  Sound(p, over) /\ (pg.again = FALSE => StoredSound(over))
<1>1. PageSound(p, pg) /\ Sound(p, pg) /\ saved \in Saved
  BY PageNow
<1>2. pg.at \in {"open", "left"}
  BY DEF Answered, Alive
<1>3. PICK now \in Page :
        /\ now = Confirmed(pg)
        /\ now.version = pg.save.expected + 1 /\ now.unsaved = pg.unsaved \ pg.save.acks
        /\ now.conflict = FALSE
        /\ now.at = pg.at /\ now.board = pg.board /\ now.timer = pg.timer
        /\ now.again = pg.again /\ now.save = pg.save /\ now.taken = pg.taken
        /\ now.given = pg.given /\ now.wire = pg.wire /\ SameAsk(now, pg)
  BY ConfirmedLeaves
<1>4. /\ over.save = NoSave /\ over.again = FALSE
      /\ over.at = now.at /\ over.board = now.board /\ over.version = now.version
      /\ over.timer = now.timer /\ over.conflict = now.conflict
      /\ SameNotes(over, now) /\ SameAsk(over, now)
  BY <1>3, OverLeaves
<1>5. /\ over.version = pg.version + 1 /\ pg.version < saved.version
      /\ saved.version = pg.version + 1 => Reaches(pg.save.board, saved.board)
      /\ Reaches(pg.board, pg.save.board)
  BY <1>1, <1>2, <1>3, <1>4 DEF Sound, FlightSound, SaveSound
<1>6. /\ saved.board \in Board /\ pg.board \in Board /\ pg.save.board \in Board
      /\ saved.version \in Nat /\ pg.version \in Nat /\ pg.conflict \in BOOLEAN
  BY <1>1 DEF Saved, Page, Save
<1>7. over.save.at = "none" /\ over.save.acks = {} /\ over.save.board = Blank
  BY <1>4 DEF NoSave
<1>8. pg.conflict = FALSE /\ pg.timer # "mute"
  BY <1>1, <1>6 DEF Sound, ConflictSound
<1>9. Resting(over)
  BY <1>2, <1>3, <1>4 DEF Resting
<1>10. NotesSound(over)
  BY <1>1, <1>3, <1>4 DEF Sound, NotesSound, AcksSound, SameNotes
<1>11. AcksSound(over.save)
  BY <1>7, BlankIsBoard DEF AcksSound, Elements
<1>12. BoardSound(over)
  BY <1>3, <1>4, <1>5, <1>6, ReachesIsOrder DEF BoardSound
<1>13. SaveSound(over.save) /\ FlightSound(over)
  BY <1>7 DEF SaveSound, FlightSound
<1>14. ConflictSound(over)
  BY <1>3, <1>4, <1>7, <1>8 DEF ConflictSound
<1>15. AuthorSound(p, over)
  BY <1>1, <1>2, <1>3, <1>4, <1>5, <1>7 DEF Sound, AuthorSound
<1>16. AskSound(over)
  BY <1>1, <1>2, <1>3, <1>4, <1>8 DEF Sound, AskSound, SameAsk
<1>17. pg.again = FALSE => StoredSound(over)
  BY <1>1, <1>2, <1>3, <1>4, <1>7, <1>8 DEF PageSound, StoredSound, Stored, SameAsk
<1>18. QED
  BY <1>9, <1>10, <1>11, <1>12, <1>13, <1>14, <1>15, <1>16, <1>17 DEF Sound

\* The answer of a save that was not: now is the page with the conflict it was told of.
LEMMA UnsavedAnswer ==
  ASSUME PagesInv, NEW p \in Pages, NEW pg \in Page, pg = page[p], Answered(p),
         NEW now \in Page,
         now.at = pg.at, now.board = pg.board, now.version = pg.version, now.timer = pg.timer,
         now.save = pg.save, SameNotes(now, pg), SameAsk(now, pg),
         \/ pg.save.at = "stale" /\ now.conflict = TRUE
         \/ pg.save.at = "failed" /\ now.conflict = pg.conflict,
         NEW over \in Page, over = Over(now)
  PROVE  Sound(p, over) /\ StoredSound(over)
<1>1. PageSound(p, pg) /\ Sound(p, pg) /\ saved \in Saved
  BY PageNow
<1>2. pg.at \in {"open", "left"}
  BY DEF Answered, Alive
<1>3. /\ over.save = NoSave /\ over.again = FALSE
      /\ over.at = now.at /\ over.board = now.board /\ over.version = now.version
      /\ over.timer = now.timer /\ over.conflict = now.conflict
      /\ SameNotes(over, now) /\ SameAsk(over, now)
  BY OverLeaves
<1>4. saved.version \in Nat /\ pg.version \in Nat /\ pg.conflict \in BOOLEAN
  BY <1>1 DEF Saved, Page
<1>5. over.save.at = "none" /\ over.save.acks = {} /\ over.save.board = Blank
  BY <1>3 DEF NoSave
<1>6. pg.save.at = "stale" => pg.version < saved.version
  BY <1>1, <1>2 DEF Sound, FlightSound, SaveSound
<1>7. pg.save.at = "failed" => ~NoFault
  BY <1>1 DEF Sound, ConflictSound
<1>8. Resting(over) /\ NotesSound(over)
  BY <1>1, <1>2, <1>3 DEF Sound, Resting, NotesSound, SameNotes
<1>9. AcksSound(over.save)
  BY <1>5, BlankIsBoard DEF AcksSound, Elements
<1>10. BoardSound(over) /\ SaveSound(over.save) /\ FlightSound(over)
  BY <1>1, <1>2, <1>3, <1>5 DEF Sound, BoardSound, SaveSound, FlightSound
<1>11. ConflictSound(over)
  BY <1>1, <1>3, <1>4, <1>5, <1>6 DEF Sound, ConflictSound
<1>12. AuthorSound(p, over)
  BY <1>1, <1>2, <1>3, <1>4, <1>5, <1>6, <1>7 DEF Sound, AuthorSound
<1>13. AskSound(over)
  BY <1>1, <1>2, <1>3, <1>7 DEF Sound, AskSound
<1>14. StoredSound(over)
  BY <1>3, <1>7 DEF StoredSound
<1>15. QED
  BY <1>8, <1>9, <1>10, <1>11, <1>12, <1>13, <1>14 DEF Sound

LEMMA AnsweredKeeps ==
  ASSUME PagesInv, NEW p \in Pages, Answered(p)
  PROVE  PagesInv'
<1>1. PICK pg \in Page : pg = page[p] /\ PageSound(p, pg) /\ Sound(p, pg)
  BY PageNow
<1>2. saved \in Saved /\ BoundMoves /\ UNCHANGED <<saved, notes>>
  BY PageNow, StillMoves DEF Answered
<1>3. pg.at \in {"open", "left"} /\ pg.save.at \in {"ok", "stale", "failed"}
  BY <1>1 DEF Answered, Alive
<1> DEFINE warned == [pg EXCEPT !.conflict = TRUE]
<1>4. PICK now \in Page :
        /\ \/ pg.save.at = "ok" /\ now = Confirmed(pg)
           \/ pg.save.at = "stale" /\ now = warned
           \/ pg.save.at = "failed" /\ now = pg
        /\ now.at = pg.at /\ now.again = pg.again
        /\ PageBecomes(p, IF pg.again THEN Sent(Over(now)) ELSE Over(now))
  <2>1. CASE pg.save.at = "ok"
    <3>1. Confirmed(pg) \in Page /\ Confirmed(pg).at = pg.at /\ Confirmed(pg).again = pg.again
      BY ConfirmedLeaves
    <3>2. PageBecomes(p, IF pg.again THEN Sent(Over(Confirmed(pg))) ELSE Over(Confirmed(pg)))
      BY <1>1, <2>1 DEF Answered, Over
    <3>3. QED
      BY <2>1, <3>1, <3>2
  <2>2. CASE pg.save.at = "stale"
    <3>1. warned \in Page /\ warned.at = pg.at /\ warned.again = pg.again
      BY DEF Page
    <3>2. PageBecomes(p, IF pg.again THEN Sent(Over(warned)) ELSE Over(warned))
      BY <1>1, <2>2 DEF Answered, Over
    <3>3. QED
      BY <2>2, <3>1, <3>2
  <2>3. CASE pg.save.at = "failed"
    <3>1. PageBecomes(p, IF pg.again THEN Sent(Over(pg)) ELSE Over(pg))
      BY <1>1, <2>3 DEF Answered, Over
    <3>2. QED
      BY <2>3, <3>1
  <2>4. QED
    BY <1>3, <2>1, <2>2, <2>3
<1>5. PICK over \in Page :
        /\ over = Over(now) /\ over.save = NoSave /\ over.again = FALSE
        /\ over.at = now.at /\ over.board = now.board /\ over.version = now.version
        /\ over.timer = now.timer /\ over.conflict = now.conflict
        /\ SameNotes(over, now) /\ SameAsk(over, now)
  BY OverLeaves
<1>6. Sound(p, over) /\ (pg.again = FALSE => StoredSound(over))
  <2>1. CASE pg.save.at = "ok"
    BY <1>1, <1>4, <1>5, <2>1, SavedAnswer
  <2>2. CASE pg.save.at = "stale"
    <3>1. /\ now.at = pg.at /\ now.board = pg.board /\ now.version = pg.version
          /\ now.timer = pg.timer /\ now.save = pg.save /\ now.conflict = TRUE
          /\ SameNotes(now, pg) /\ SameAsk(now, pg)
      BY <1>4, <2>2 DEF Page, SameNotes, SameAsk
    <3>2. QED
      BY <1>1, <1>5, <2>2, <3>1, UnsavedAnswer
  <2>3. CASE pg.save.at = "failed"
    BY <1>1, <1>4, <1>5, <2>3, UnsavedAnswer DEF SameNotes, SameAsk
  <2>4. QED
    BY <1>3, <2>1, <2>2, <2>3
<1>7. PICK new : new = IF pg.again THEN Sent(over) ELSE over
  OBVIOUS
<1>8. new \in Page
  BY <1>5, <1>7, SentLeaves
<1>9. PageSound(p, new)
  BY <1>2, <1>3, <1>4, <1>5, <1>6, <1>7, OverSound
<1>10. PageBecomes(p, new)
  BY <1>4, <1>5, <1>7
<1>11. QED
  BY <1>2, <1>8, <1>9, <1>10, QuietStep

-----------------------------------------------------------------------------
(* Opening a page, drawing on it, and leaving it. *)

LEMMA UnopenedIsPage ==
  /\ Unopened \in Page /\ Unopened.at = "unopened" /\ Unopened.board = Blank
  /\ Unopened.timer = "none" /\ Unopened.again = FALSE /\ Unopened.conflict = FALSE
  /\ Unopened.save = NoSave /\ Unopened.reply = "none"
  /\ Unopened.taken = {} /\ Unopened.unsaved = {} /\ Unopened.given = {} /\ Unopened.wire = {}
  /\ Unopened.ask = "no" /\ Unopened.asked = Blank /\ Unopened.sync = "none"
BY BlankIsBoard, NoSaveIsSave DEF Unopened, Page

LEMMA LoadKeeps ==
  ASSUME PagesInv, NEW p \in Pages, Load(p)
  PROVE  PagesInv'
<1>1. PICK pg \in Page : pg = page[p] /\ Sound(p, pg) /\ pg.at = "unopened"
  BY PageNow DEF Load
<1>2. saved \in Saved /\ BoundMoves /\ UNCHANGED <<saved, notes>>
  BY PageNow, StillMoves DEF Load
<1>3. saved.board \in Board /\ saved.version \in Nat
  BY <1>2 DEF Saved
<1>4. PICK new \in Page :
        /\ new = [Unopened EXCEPT !.at = "loading", !.board = saved.board, !.version = saved.version]
        /\ new.at = "loading" /\ new.board = saved.board /\ new.version = saved.version
        /\ new.timer = "none" /\ new.again = FALSE /\ new.conflict = FALSE
        /\ new.save = NoSave /\ new.reply = "none"
        /\ new.taken = {} /\ new.unsaved = {} /\ new.given = {} /\ new.wire = {}
        /\ new.ask = "no" /\ new.sync = "none"
  <2> DEFINE new == [Unopened EXCEPT !.at = "loading", !.board = saved.board,
                                     !.version = saved.version]
  <2>1. /\ new \in Page /\ new.at = "loading" /\ new.board = saved.board
        /\ new.version = saved.version
        /\ new.timer = "none" /\ new.again = FALSE /\ new.conflict = FALSE
        /\ new.save = NoSave /\ new.reply = "none"
        /\ new.taken = {} /\ new.unsaved = {} /\ new.given = {} /\ new.wire = {}
        /\ new.ask = "no" /\ new.sync = "none"
    BY <1>3, UnopenedIsPage DEF Page
  <2> HIDE DEF new
  <2>2. \E x \in Page : x = new
    BY <2>1
  <2>3. QED
    BY <2>1 DEF new
<1>5. PageBecomes(p, new)
  BY <1>4 DEF Load
<1>6. Resting(new)
  BY <1>4 DEF Resting
<1>7. NotesSound(new) /\ AcksSound(new.save)
  BY <1>4, BlankIsBoard DEF PagesInv, NotesSound, AcksSound, NoSave, Elements
<1>8. BoardSound(new) /\ AskSound(new)
  BY <1>3, <1>4, ReachesIsOrder DEF BoardSound, AskSound
<1>9. SaveSound(new.save) /\ FlightSound(new) /\ ConflictSound(new)
  BY <1>4 DEF SaveSound, FlightSound, ConflictSound, NoSave
<1>10. AuthorSound(p, new) /\ StoredSound(new)
  BY <1>1, <1>4 DEF Sound, AuthorSound, StoredSound
<1>11. PageSound(p, new)
  BY <1>6, <1>7, <1>8, <1>9, <1>10 DEF PageSound, Sound
<1>12. QED
  BY <1>2, <1>5, <1>11, QuietStep

LEMMA PendingIsPlaced ==
  Pending \in SUBSET Placed /\ \A n \in Pending : n \in Notes \ Applied
BY DEF Pending, Placed, Applied

LEMMA OpenKeeps ==
  ASSUME PagesInv, NEW p \in Pages, Open(p)
  PROVE  PagesInv'
<1>1. PICK pg \in Page : pg = page[p] /\ Sound(p, pg) /\ pg.at = "loading"
  BY PageNow DEF Open
<1>2. saved \in Saved /\ BoundMoves /\ UNCHANGED <<saved, notes>>
  BY PageNow, StillMoves DEF Open
<1> DEFINE opened == [pg EXCEPT !.at = "open"]
<1>3. /\ opened \in Page /\ opened.at = "open" /\ opened.board = pg.board
      /\ opened.version = pg.version /\ opened.timer = pg.timer /\ opened.again = pg.again
      /\ opened.save = pg.save /\ opened.conflict = pg.conflict
      /\ SameNotes(opened, pg) /\ SameAsk(opened, pg)
  BY DEF Page, SameNotes, SameAsk
<1>4. PageBecomes(p, Taking(opened, Pending))
  BY <1>1 DEF Open
<1> HIDE DEF opened
<1>5. /\ pg.timer = "none" /\ pg.again = FALSE /\ pg.conflict = FALSE
      /\ pg.taken = {} /\ pg.ask = "no" /\ pg.save = NoSave
  BY <1>1 DEF Sound, Resting
<1>6. opened.save.at = "none"
  BY <1>3, <1>5 DEF NoSave
<1>7. Resting(opened) /\ NotesSound(opened) /\ AcksSound(opened.save) /\ SaveSound(opened.save)
  BY <1>1, <1>3 DEF Sound, Resting, NotesSound, SameNotes
<1>8. BoardSound(opened) /\ FlightSound(opened) /\ ConflictSound(opened)
  BY <1>1, <1>3, <1>5, <1>6 DEF Sound, BoardSound, FlightSound, ConflictSound
<1>9. AuthorSound(p, opened) /\ AskSound(opened) /\ StoredSound(opened)
  BY <1>1, <1>3, <1>5, <1>6 DEF Sound, AuthorSound, AskSound, StoredSound, Stored, SameAsk
<1>10. PageSound(p, opened)
  BY <1>7, <1>8, <1>9 DEF PageSound, Sound
<1>11. \A n \in Pending \ opened.taken : opened.board[n] = 0
  BY <1>3, <1>7, PendingIsPlaced DEF NotesSound
<1>12. PICK S \in SUBSET Placed : S = Pending
  BY PendingIsPlaced
<1>13. Taking(opened, S) \in Page /\ PageSound(p, Taking(opened, S))
  BY <1>2, <1>3, <1>10, <1>11, <1>12, TakingSound
<1>14. PageBecomes(p, Taking(opened, S))
  BY <1>4, <1>12
<1>15. QED
  BY <1>2, <1>13, <1>14, QuietStep

\* A stroke or a note only goes on: drawn, changed, taken away.
LEMMA GestureKeeps ==
  ASSUME PagesInv, NEW p \in Pages, NEW e \in Elements, NEW c \in 1 .. 3, Gesture(p, e, c),
         page[p].board[e] < c, e \in Strokes \/ page[p].board[e] # 0
  PROVE  PagesInv'
<1>1. PICK pg \in Page : pg = page[p] /\ PageSound(p, pg) /\ Sound(p, pg) /\ pg.at = "open"
  BY PageNow DEF Gesture
<1>2. saved \in Saved /\ BoundMoves /\ UNCHANGED <<saved, notes>>
  BY PageNow, SpendMoves DEF Gesture
<1> DEFINE board == [pg.board EXCEPT ![e] = c]
           drawn == [pg EXCEPT !.board = board]
<1>3. pg.board \in Board
  BY DEF Page
<1>4. /\ board \in Board /\ board[e] = c /\ \A f \in Elements \ {e} : board[f] = pg.board[f]
  BY <1>3 DEF Board
<1>5. Reaches(board, pg.board)
  BY <1>1, <1>3, <1>4 DEF Reaches, Board
<1>6. [pg EXCEPT !.board[e] = c] = drawn
  OBVIOUS
<1>7. PageBecomes(p, Scheduled([pg EXCEPT !.board[e] = c]))
  BY <1>1 DEF Gesture
<1> HIDE DEF board
<1>8. /\ drawn \in Page /\ drawn.board = board /\ drawn.at = pg.at
      /\ drawn.version = pg.version /\ drawn.again = pg.again
      /\ drawn.save = pg.save /\ drawn.conflict = pg.conflict
      /\ SameNotes(drawn, pg) /\ SameAsk(drawn, pg)
  BY <1>4 DEF Page, SameNotes, SameAsk
<1>9. PageBecomes(p, Scheduled(drawn))
  BY <1>6, <1>7
<1> HIDE DEF drawn
<1>10. /\ Scheduled(drawn) \in Page
       /\ drawn.conflict = TRUE => Scheduled(drawn).timer = "mute"
       /\ drawn.conflict = FALSE => Scheduled(drawn).timer = "armed"
       /\ Scheduled(drawn).at = drawn.at /\ Scheduled(drawn).board = drawn.board
       /\ Scheduled(drawn).version = drawn.version /\ Scheduled(drawn).again = drawn.again
       /\ Scheduled(drawn).save = drawn.save /\ Scheduled(drawn).conflict = drawn.conflict
       /\ SameNotes(Scheduled(drawn), drawn) /\ SameAsk(Scheduled(drawn), drawn)
  BY <1>8, ScheduledLeaves
<1>11. PICK new \in Page : new = Scheduled(drawn)
  BY <1>10
<1>12. /\ new.at = pg.at /\ new.board = board /\ new.version = pg.version
       /\ new.again = pg.again /\ new.save = pg.save /\ new.conflict = pg.conflict
       /\ SameNotes(new, pg) /\ SameAsk(new, pg)
       /\ pg.conflict = TRUE => new.timer = "mute"
       /\ pg.conflict = FALSE => new.timer = "armed"
  BY <1>8, <1>10, <1>11 DEF SameNotes, SameAsk
<1>13. NotesSound(new)
  <2>1. \A n \in Notes : n = e => pg.board[n] # 0
    BY <1>1, CanvasAssumption
  <2>2. \A n \in Notes : pg.board[n] = 0 => board[n] = 0
    BY <1>4, <2>1 DEF Elements
  <2>3. pg.given \cup pg.wire \subseteq Notes
    BY DEF Page
  <2>4. QED
    BY <1>1, <1>12, <2>2, <2>3 DEF Sound, NotesSound, SameNotes
<1>14. PageSound(p, new)
  BY <1>1, <1>2, <1>5, <1>12, <1>13, GrowsSound
<1>15. QED
  BY <1>2, <1>9, <1>11, <1>14, QuietStep

LEMMA StudentDrawsKeeps ==
  ASSUME PagesInv, NEW p \in Pages,
         \/ \E s \in Strokes : Draw(p, s) \/ Change(p, s)
         \/ \E e \in Elements : TakeAway(p, e)
  PROVE  PagesInv'
<1>1. ASSUME NEW s \in Strokes, Draw(p, s) PROVE PagesInv'
  <2>1. s \in Elements /\ page[p].board[s] = 0 /\ Gesture(p, s, 1)
    BY <1>1 DEF Draw, Elements
  <2>2. QED
    BY <2>1, GestureKeeps
<1>2. ASSUME NEW s \in Strokes, Change(p, s) PROVE PagesInv'
  <2>1. s \in Elements /\ page[p].board[s] = 1 /\ Gesture(p, s, 2)
    BY <1>2 DEF Change, Elements
  <2>2. QED
    BY <2>1, GestureKeeps
<1>3. ASSUME NEW e \in Elements, TakeAway(p, e) PROVE PagesInv'
  <2>1. page[p].board[e] \in {1, 2} /\ Gesture(p, e, 3)
    BY <1>3 DEF TakeAway, OnBoard
  <2>2. QED
    BY <2>1, GestureKeeps
<1>4. QED
  BY <1>1, <1>2, <1>3

LEMMA HideKeeps ==
  ASSUME PagesInv, NEW p \in Pages, Hide(p)
  PROVE  PagesInv'
<1>1. PICK pg \in Page : pg = page[p] /\ Sound(p, pg) /\ pg.at = "open"
  BY PageNow DEF Hide
<1>2. saved \in Saved /\ BoundMoves /\ UNCHANGED <<saved, notes>>
  BY PageNow, SpendMoves DEF Hide
<1>3. PageBecomes(p, Requested(pg))
  BY <1>1 DEF Hide
<1>4. Requested(pg) \in Page /\ PageSound(p, Requested(pg))
  BY <1>1, <1>2, RequestedLeaves, RequestedSound, ZenonT(60)
<1>5. QED
  BY <1>2, <1>3, <1>4, QuietStep

LEMMA LeaveKeeps ==
  ASSUME PagesInv, NEW p \in Pages, Leave(p)
  PROVE  PagesInv'
<1>1. PICK pg \in Page : pg = page[p] /\ Sound(p, pg) /\ pg.at = "open"
  BY PageNow DEF Leave
<1>2. saved \in Saved /\ BoundMoves /\ UNCHANGED <<saved, notes>>
  BY PageNow, SpendMoves DEF Leave
<1> DEFINE gone == [pg EXCEPT !.at = "left"]
<1>3. PageBecomes(p, Requested(gone))
  BY <1>1 DEF Leave
<1>4. /\ gone \in Page /\ gone.at = "left" /\ gone.board = pg.board
      /\ gone.version = pg.version /\ gone.again = pg.again
      /\ gone.save = pg.save /\ gone.conflict = pg.conflict
      /\ SameNotes(gone, pg) /\ SameAsk(gone, pg)
  BY DEF Page, SameNotes, SameAsk
<1> HIDE DEF gone
<1>5. /\ Requested(gone) \in Page /\ Requested(gone).timer = "none"
      /\ Requested(gone).at = gone.at /\ Requested(gone).board = gone.board
      /\ Requested(gone).version = gone.version /\ Requested(gone).conflict = gone.conflict
      /\ gone.save.at = "none" =>
           Requested(gone).save = Fresh(gone) /\ Requested(gone).again = gone.again
      /\ gone.save.at # "none" =>
           Requested(gone).save = gone.save /\ Requested(gone).again = TRUE
      /\ SameNotes(Requested(gone), gone) /\ SameAsk(Requested(gone), gone)
  BY <1>4, RequestedLeaves
<1>6. Fresh(gone) = Fresh(pg)
  BY <1>4 DEF Fresh, SameNotes
<1>7. PICK new \in Page : new = Requested(gone)
  BY <1>5
<1>8. /\ new.at \in {"open", "left"} /\ new.timer = "none" /\ new.board = pg.board
      /\ new.version = pg.version /\ new.conflict = pg.conflict
      /\ SameNotes(new, pg) /\ SameAsk(new, pg)
      /\ pg.save.at = "none" => new.save = Fresh(pg) /\ new.again = pg.again
      /\ pg.save.at # "none" => new.save = pg.save /\ new.again = TRUE
  BY <1>4, <1>5, <1>6, <1>7 DEF SameNotes, SameAsk
<1>9. PageSound(p, new)
  BY <1>1, <1>2, <1>8, RequestedSound
<1>10. QED
  BY <1>2, <1>3, <1>7, <1>9, QuietStep

LEMMA CloseKeeps ==
  ASSUME PagesInv, NEW p \in Pages, Close(p)
  PROVE  PagesInv'
<1>1. PICK pg \in Page : pg = page[p] /\ Sound(p, pg)
  BY PageNow
<1>2. saved \in Saved /\ BoundMoves /\ UNCHANGED <<saved, notes>>
  BY PageNow, SpendMoves DEF Close
<1> DEFINE gone == [Unopened EXCEPT !.at = "closed", !.save = pg.save, !.reply = pg.reply]
<1>3. PageBecomes(p, gone)
  BY <1>1 DEF Close
<1>4. pg.save \in Save /\ pg.reply \in {"none", "generating"}
  BY DEF Page
<1>5. /\ gone \in Page /\ gone.at = "closed" /\ gone.board = Blank
      /\ gone.timer = "none" /\ gone.again = FALSE /\ gone.conflict = FALSE
      /\ gone.save = pg.save
      /\ gone.taken = {} /\ gone.unsaved = {} /\ gone.given = {} /\ gone.wire = {}
      /\ gone.ask = "no" /\ gone.sync = "none"
  BY <1>4, UnopenedIsPage, ZenonT(60) DEF Page
<1> HIDE DEF gone
<1>6. PICK new \in Page : new = gone
  BY <1>5
<1>7. Resting(new) /\ NotesSound(new) /\ AcksSound(new.save) /\ SaveSound(new.save)
  BY <1>1, <1>5, <1>6, BlankIsBoard DEF Sound, Resting, NotesSound, Elements
<1>8. BoardSound(new) /\ FlightSound(new) /\ ConflictSound(new)
  BY <1>1, <1>5, <1>6 DEF Sound, BoardSound, FlightSound, ConflictSound
<1>9. AuthorSound(p, new) /\ AskSound(new) /\ StoredSound(new)
  BY <1>5, <1>6 DEF AuthorSound, AskSound, StoredSound
<1>10. PageSound(p, new)
  BY <1>7, <1>8, <1>9 DEF PageSound, Sound
<1>11. QED
  BY <1>2, <1>3, <1>6, <1>10, QuietStep

-----------------------------------------------------------------------------
(* The log, and the canvas chat. *)

LEMMA SyncEditsKeeps ==
  ASSUME PagesInv, NEW p \in Pages, SyncEdits(p)
  PROVE  PagesInv'
<1>1. PICK pg \in Page : pg = page[p] /\ PageSound(p, pg) /\ Sound(p, pg) /\ pg.sync = "asked"
  BY PageNow DEF SyncEdits
<1>2. saved \in Saved /\ BoundMoves /\ UNCHANGED <<saved, notes>>
  BY PageNow, StillMoves DEF SyncEdits
<1>3. PICK given \in {Pending, {}}, has \in {pg.hasChat, "no"} :
        PageBecomes(p, [pg EXCEPT !.sync = "answered", !.given = given, !.hasChat = has])
  <2>1. CASE chat.there
    BY <1>1, <2>1 DEF SyncEdits
  <2>2. CASE ~chat.there
    BY <1>1, <2>2 DEF SyncEdits
  <2>3. QED
    BY <2>1, <2>2
<1>4. given \in SUBSET Placed /\ given \in SUBSET Notes /\ \A n \in given : n \in Notes \ Applied
  BY PendingIsPlaced
<1> DEFINE new == [pg EXCEPT !.sync = "answered", !.given = given, !.hasChat = has]
<1>5. /\ new \in Page /\ SameCore(new, pg) /\ SameAsk(new, pg)
      /\ new.given = given /\ new.wire = pg.wire
  BY <1>4 DEF Page, SameCore, SameAsk
<1> HIDE DEF new
<1>6. pg.at \in {"open", "left"}
  BY <1>1 DEF Sound, Resting
<1>7. Resting(new) /\ NotesSound(new)
  BY <1>1, <1>4, <1>5, <1>6 DEF Sound, Resting, NotesSound, SameCore
<1>8. PageSound(p, new)
  BY <1>1, <1>5, <1>7, SideSound
<1>9. PageBecomes(p, new)
  BY <1>3 DEF new
<1>10. QED
  BY <1>2, <1>5, <1>8, <1>9, QuietStep

\* A request of the log ends: nothing it brought is left.
LEMMA SyncOverSound ==
  ASSUME NEW p \in Pages, NEW pg \in Page, PageSound(p, pg), pg.at \in {"open", "left"}
  PROVE  SyncOver(pg) \in Page /\ PageSound(p, SyncOver(pg))
<1>1. /\ SyncOver(pg) \in Page
      /\ SameCore(SyncOver(pg), pg) /\ SameAsk(SyncOver(pg), pg)
      /\ SyncOver(pg).given = {} /\ SyncOver(pg).wire = pg.wire
  BY SyncOverLeaves
<1>2. PICK new \in Page : new = SyncOver(pg)
  BY <1>1
<1>3. SameCore(new, pg) /\ SameAsk(new, pg) /\ new.given = {} /\ new.wire = pg.wire
  BY <1>1, <1>2
<1>4. Resting(new) /\ NotesSound(new)
  BY <1>3 DEF PageSound, Sound, Resting, NotesSound, SameCore
<1>5. PageSound(p, new)
  BY <1>3, <1>4, SideSound
<1>6. QED
  BY <1>2, <1>5

LEMMA SyncArrivesKeeps ==
  ASSUME PagesInv, NEW p \in Pages, SyncArrives(p)
  PROVE  PagesInv'
<1>1. PICK pg \in Page : pg = page[p] /\ PageSound(p, pg) /\ Sound(p, pg)
  BY PageNow
<1>2. saved \in Saved /\ BoundMoves /\ UNCHANGED <<saved, notes>>
  BY PageNow, StillMoves DEF SyncArrives
<1>3. pg.at \in {"open", "left"} /\ PageBecomes(p, SyncOver(Taking(pg, pg.given)))
  BY <1>1 DEF SyncArrives, Alive
<1>4. pg.given \in SUBSET Placed /\ \A n \in pg.given \ pg.taken : pg.board[n] = 0
  BY <1>1 DEF Sound, NotesSound
<1>5. PICK took \in Page : took = Taking(pg, pg.given) /\ PageSound(p, took)
  BY <1>1, <1>2, <1>3, <1>4, TakingSound
<1>6. took.at = pg.at
  <2>1. PICK S \in SUBSET Notes : S = pg.given
    BY DEF Page
  <2>2. Taking(pg, S).at = pg.at
    BY TakingLeaves
  <2>3. QED
    BY <1>5, <2>1, <2>2
<1>7. SyncOver(took) \in Page /\ PageSound(p, SyncOver(took))
  BY <1>3, <1>5, <1>6, SyncOverSound
<1>8. QED
  BY <1>2, <1>3, <1>5, <1>7, QuietStep

LEMMA SyncFailsKeeps ==
  ASSUME PagesInv, NEW p \in Pages, SyncFails(p)
  PROVE  PagesInv'
<1>1. PICK pg \in Page : pg = page[p] /\ PageSound(p, pg)
  BY PageNow
<1>2. saved \in Saved /\ BoundMoves /\ UNCHANGED <<saved, notes>>
  BY PageNow, SpendMoves DEF SyncFails
<1>3. pg.at \in {"open", "left"} /\ PageBecomes(p, SyncOver(pg))
  BY <1>1 DEF SyncFails, Alive
<1>4. SyncOver(pg) \in Page /\ PageSound(p, SyncOver(pg))
  BY <1>1, <1>3, SyncOverSound
<1>5. QED
  BY <1>2, <1>3, <1>4, QuietStep

\* The question is asked about the board as it is.
LEMMA AskKeeps ==
  ASSUME PagesInv, NEW p \in Pages, Ask(p)
  PROVE  PagesInv'
<1>1. PICK pg \in Page : pg = page[p] /\ PageSound(p, pg) /\ Sound(p, pg) /\ pg.at = "open"
  BY PageNow DEF Ask
<1>2. saved \in Saved /\ BoundMoves /\ UNCHANGED <<saved, notes>>
  BY PageNow, SpendMoves DEF Ask
<1> DEFINE asking == [pg EXCEPT !.ask = "flushing", !.asked = pg.board]
<1>3. PageBecomes(p, Flushing(asking))
  BY <1>1 DEF Ask
<1>4. pg.board \in Board /\ pg.conflict \in BOOLEAN
  BY DEF Page
<1>5. /\ asking \in Page /\ SameCore(asking, pg) /\ asking.given = pg.given
      /\ asking.wire = pg.wire /\ asking.ask = "flushing" /\ asking.asked = pg.board
  BY <1>4 DEF Page, SameCore
<1> HIDE DEF asking
<1>6. Resting(asking) /\ NotesSound(asking) /\ AcksSound(asking.save) /\ SaveSound(asking.save)
  BY <1>1, <1>5 DEF Sound, Resting, NotesSound, SameCore
<1>7. BoardSound(asking) /\ FlightSound(asking) /\ ConflictSound(asking) /\ AuthorSound(p, asking)
  BY <1>1, <1>5 DEF Sound, BoardSound, FlightSound, ConflictSound, AuthorSound, SameCore
<1>8. AskSound(asking)
  BY <1>1, <1>4, <1>5, ReachesIsOrder DEF AskSound, SameCore
<1>9. Sound(p, asking)
  BY <1>6, <1>7, <1>8 DEF Sound
<1>10. asking.at = "open"
  BY <1>1, <1>5 DEF SameCore
<1>11. CASE asking.timer = "none"
  <2>1. StoredSound(asking)
    BY <1>1, <1>5, <1>11 DEF PageSound, StoredSound, Stored, SameCore
  <2>2. PageSound(p, asking)
    BY <1>9, <2>1 DEF PageSound
  <2>3. PageBecomes(p, asking)
    BY <1>3, <1>5, <1>11, FlushingLeaves
  <2>4. QED
    BY <1>2, <1>5, <2>2, <2>3, QuietStep
<1>12. CASE asking.timer # "none" /\ asking.conflict = FALSE
  <2>1. PageBecomes(p, Requested(asking))
    BY <1>3, <1>5, <1>12, FlushingLeaves
  <2>2. Requested(asking) \in Page /\ PageSound(p, Requested(asking))
    BY <1>2, <1>5, <1>9, <1>10, RequestedLeaves, RequestedSound
  <2>3. QED
    BY <1>2, <2>1, <2>2, QuietStep
<1>13. CASE asking.timer # "none" /\ asking.conflict = TRUE
  <2>1. PageBecomes(p, [asking EXCEPT !.timer = "none"])
    BY <1>3, <1>5, <1>13, FlushingLeaves
  <2>2. [asking EXCEPT !.timer = "none"] \in Page
        /\ PageSound(p, [asking EXCEPT !.timer = "none"])
    BY <1>5, <1>9, <1>10, <1>13, MutedSound
  <2>3. QED
    BY <1>2, <2>1, <2>2, QuietStep
<1>14. QED
  BY <1>4, <1>5, <1>11, <1>12, <1>13 DEF SameCore

\* No save is in flight any more: what was asked about is stored.
LEMMA FlushedKeeps ==
  ASSUME PagesInv, NEW p \in Pages, Flushed(p)
  PROVE  PagesInv'
<1>1. PICK pg \in Page : pg = page[p] /\ PageSound(p, pg) /\ Sound(p, pg)
  BY PageNow
<1>2. saved \in Saved /\ BoundMoves /\ UNCHANGED <<saved, notes>>
  BY PageNow, StillMoves DEF Flushed
<1>3. pg.at \in {"open", "left"} /\ pg.ask = "flushing" /\ pg.save.at = "none"
  BY <1>1 DEF Flushed, Alive
<1>4. PICK has \in {"unknown", "no", "yes"} :
        PageBecomes(p, [pg EXCEPT !.ask = "posting", !.hasChat = has])
  <2> DEFINE has == IF pg.hasChat = "unknown" THEN (IF chat.there THEN "yes" ELSE "no")
                    ELSE pg.hasChat
  <2>1. PageBecomes(p, [pg EXCEPT !.ask = "posting", !.hasChat = has])
    BY <1>1 DEF Flushed
  <2>2. has \in {"unknown", "no", "yes"}
    BY DEF Page
  <2> HIDE DEF has
  <2>3. QED
    BY <2>1, <2>2
<1> DEFINE new == [pg EXCEPT !.ask = "posting", !.hasChat = has]
<1>5. /\ new \in Page /\ SameCore(new, pg) /\ new.given = pg.given /\ new.wire = pg.wire
      /\ new.ask = "posting" /\ new.asked = pg.asked
  BY DEF Page, SameCore
<1> HIDE DEF new
<1>6. pg.again \in BOOLEAN
  BY DEF Page
<1>7. pg.again = FALSE
  BY <1>1, <1>3, <1>6 DEF Sound, ConflictSound
<1>8. Resting(new) /\ NotesSound(new) /\ AcksSound(new.save) /\ SaveSound(new.save)
  BY <1>1, <1>3, <1>5 DEF Sound, Resting, NotesSound, SameCore
<1>9. BoardSound(new) /\ FlightSound(new) /\ ConflictSound(new) /\ AuthorSound(p, new)
  BY <1>1, <1>5 DEF Sound, BoardSound, FlightSound, ConflictSound, AuthorSound, SameCore
<1>10. AskSound(new)
  BY <1>1, <1>3, <1>5, <1>7 DEF PageSound, StoredSound, Stored, Sound, AskSound, SameCore
<1>11. StoredSound(new)
  BY <1>1, <1>5 DEF PageSound, StoredSound, Stored, SameCore
<1>12. PageSound(p, new)
  BY <1>8, <1>9, <1>10, <1>11 DEF PageSound, Sound
<1>13. QED
  BY <1>2, <1>4, <1>5, <1>12, QuietStep DEF new

LEMMA PostKeeps ==
  ASSUME PagesInv, NEW p \in Pages, Post(p)
  PROVE  PagesInv'
<1>1. PICK pg \in Page : pg = page[p] /\ PageSound(p, pg) /\ Sound(p, pg)
  BY PageNow
<1>2. saved \in Saved /\ BoundMoves /\ UNCHANGED <<saved, notes>>
  BY PageNow, StillMoves DEF Post
<1> DEFINE new == [pg EXCEPT !.ask = "reading", !.asked = Blank, !.reply = "generating",
                             !.hasChat = "yes"]
<1>3. pg.at \in {"open", "left"} /\ PageBecomes(p, new)
  BY <1>1 DEF Post, Alive
<1>4. /\ new \in Page /\ SameCore(new, pg) /\ new.given = pg.given /\ new.wire = pg.wire
      /\ new.ask = "reading"
  BY BlankIsBoard, ZenonT(60) DEF Page, SameCore
<1> HIDE DEF new
<1>5. Resting(new) /\ NotesSound(new)
  BY <1>1, <1>3, <1>4 DEF Sound, Resting, NotesSound, SameCore
<1>6. PageSound(p, new)
  BY <1>1, <1>4, <1>5, SideSound
<1>7. QED
  BY <1>2, <1>3, <1>4, <1>6, QuietStep

\* The page asks no more, for whatever reason.
LEMMA AskOverSound ==
  ASSUME NEW p \in Pages, NEW pg \in Page, PageSound(p, pg), pg.at \in {"open", "left"}
  PROVE  AskOver(pg) \in Page /\ PageSound(p, AskOver(pg))
<1>1. /\ AskOver(pg) \in Page /\ SameCore(AskOver(pg), pg)
      /\ AskOver(pg).ask = "no" /\ AskOver(pg).asked = Blank
      /\ AskOver(pg).given = pg.given /\ AskOver(pg).wire = {}
  BY AskOverLeaves
<1>2. PICK new \in Page : new = AskOver(pg)
  BY <1>1
<1>3. SameCore(new, pg) /\ new.ask = "no" /\ new.given = pg.given /\ new.wire = {}
  BY <1>1, <1>2
<1>4. Resting(new) /\ NotesSound(new)
  BY <1>3 DEF PageSound, Sound, Resting, NotesSound, SameCore
<1>5. PageSound(p, new)
  BY <1>3, <1>4, SideSound
<1>6. QED
  BY <1>2, <1>5

LEMMA AskEndsKeeps ==
  ASSUME PagesInv, NEW p \in Pages,
         (\E n \in Notes : Refuse(p, n)) \/ ReplyRead(p) \/ StreamBreaks(p)
  PROVE  PagesInv'
<1>1. PICK pg \in Page : pg = page[p] /\ PageSound(p, pg)
  BY PageNow
<1>2. pg.at \in {"open", "left"} /\ PageBecomes(p, AskOver(pg)) /\ UNCHANGED <<saved, notes>>
  BY <1>1 DEF Refuse, ReplyRead, StreamBreaks, Alive
<1>3. BoundMoves
  BY PageNow, StillMoves, SpendMoves DEF Refuse, ReplyRead, StreamBreaks
<1>4. AskOver(pg) \in Page /\ PageSound(p, AskOver(pg))
  BY <1>1, <1>2, AskOverSound
<1>5. QED
  BY <1>2, <1>3, <1>4, QuietStep

LEMMA EndReplyKeeps ==
  ASSUME PagesInv, NEW p \in Pages, EndReply(p)
  PROVE  PagesInv'
<1>1. PICK pg \in Page : pg = page[p] /\ PageSound(p, pg) /\ Sound(p, pg)
  BY PageNow
<1>2. saved \in Saved /\ BoundMoves /\ UNCHANGED <<saved, notes>>
  BY PageNow, StillMoves DEF EndReply
<1> DEFINE new == [pg EXCEPT !.reply = "none"]
<1>3. PageBecomes(p, new)
  BY <1>1 DEF EndReply
<1>4. /\ new \in Page /\ SameCore(new, pg) /\ SameAsk(new, pg) /\ new.given = pg.given
      /\ new.wire = pg.wire /\ new.reply = "none" /\ new.sync = pg.sync
  BY DEF Page, SameCore, SameAsk
<1> HIDE DEF new
<1>5. Resting(new) /\ NotesSound(new)
  BY <1>1, <1>4 DEF Sound, Resting, NotesSound, SameCore, SameAsk
<1>6. PageSound(p, new)
  BY <1>1, <1>4, <1>5, SideSound
<1>7. QED
  BY <1>2, <1>3, <1>4, <1>6, QuietStep

LEMMA NoteArrivesKeeps ==
  ASSUME PagesInv, NEW p \in Pages, NEW n \in Notes, NoteArrives(p, n)
  PROVE  PagesInv'
<1>1. PICK pg \in Page : pg = page[p] /\ PageSound(p, pg) /\ Sound(p, pg)
  BY PageNow
<1>2. saved \in Saved /\ BoundMoves /\ UNCHANGED <<saved, notes>>
  BY PageNow, StillMoves DEF NoteArrives
<1> DEFINE left == pg.wire \ {n}
           read == [pg EXCEPT !.wire = left]
<1>3. pg.at \in {"open", "left"} /\ n \in pg.wire /\ PageBecomes(p, Taking(read, {n}))
  BY <1>1 DEF NoteArrives, Alive
<1>4. left \in SUBSET Notes
  BY DEF Page
<1>5. /\ read \in Page /\ SameCore(read, pg) /\ SameAsk(read, pg) /\ read.given = pg.given
      /\ read.wire = left
  BY <1>4 DEF Page, SameCore, SameAsk
<1> HIDE DEF read
<1>6. Resting(read) /\ NotesSound(read)
  BY <1>1, <1>3, <1>5 DEF Sound, Resting, NotesSound, SameCore
<1>7. PageSound(p, read)
  BY <1>1, <1>5, <1>6, SideSound
<1>8. {n} \in SUBSET Placed /\ \A m \in {n} \ read.taken : read.board[m] = 0
  BY <1>1, <1>3, <1>5 DEF Sound, NotesSound, SameCore
<1>9. read.at \in {"open", "left"}
  BY <1>3, <1>5 DEF SameCore
<1>10. Taking(read, {n}) \in Page /\ PageSound(p, Taking(read, {n}))
  BY <1>2, <1>5, <1>7, <1>8, <1>9, TakingSound
<1>11. QED
  BY <1>2, <1>3, <1>10, QuietStep

\* A note is recorded before any page hears of it.
LEMMA PlaceKeeps ==
  ASSUME PagesInv, NEW p \in Pages, NEW n \in Notes, Place(p, n)
  PROVE  PagesInv'
<1>1. PICK pg \in Page : pg = page[p] /\ PageSound(p, pg) /\ Sound(p, pg)
  BY PageNow
<1>2. /\ UNCHANGED <<saved, bound>> /\ notes' = [notes EXCEPT ![n] = "pending"]
      /\ notes[n] = "unplaced" /\ notes \in [Notes -> {"unplaced", "pending", "applied"}]
      /\ BoundMoves
  BY PageNow, StillMoves DEF Place
<1>3. /\ notes' \in [Notes -> {"unplaced", "pending", "applied"}] /\ notes'[n] = "pending"
      /\ \A m \in Notes \ {n} : notes'[m] = notes[m]
  BY <1>2
<1>4. Applied' = Applied /\ Placed \subseteq Placed' /\ n \in Placed' /\ n \notin Applied \cup Placed
  BY <1>2, <1>3 DEF Applied, Placed
<1>5. NoFault' => NoFault
  BY <1>2 DEF BoundMoves
<1>6. PICK wire \in {pg.wire, pg.wire \cup {n}} :
        PageBecomes(p, [pg EXCEPT !.wire = wire]) /\ (pg.ask # "reading" => wire = pg.wire)
  <2>1. CASE pg.ask = "reading"
    BY <1>1, <2>1 DEF Place
  <2>2. CASE pg.ask # "reading"
    BY <1>1, <2>2 DEF Place
  <2>3. QED
    BY <2>1, <2>2
<1> DEFINE new == [pg EXCEPT !.wire = wire]
<1>7. wire \in SUBSET Notes
  BY DEF Page
<1>8. /\ new \in Page /\ SameCore(new, pg) /\ SameAsk(new, pg) /\ new.given = pg.given
      /\ new.wire = wire /\ new.sync = pg.sync /\ new.reply = pg.reply
  BY <1>7 DEF Page, SameCore, SameAsk
<1> HIDE DEF new
<1>9. PageSound(p, pg)'
  BY <1>1, <1>2, <1>4, <1>5, PlacedKeeps
<1>10. Resting(new)'
  BY <1>1, <1>6, <1>8 DEF Sound, Resting, SameCore, SameAsk
<1>11. NotesSound(new)'
  <2>1. n \notin pg.taken /\ pg.board[n] = 0
    BY <1>1, <1>4 DEF Sound, NotesSound
  <2>2. \A m \in wire \ pg.taken : pg.board[m] = 0
    BY <1>1, <2>1 DEF Sound, NotesSound
  <2>3. QED
    BY <1>1, <1>4, <1>8, <2>2 DEF Sound, NotesSound, SameCore
<1>12. AcksSound(new.save)' /\ BoardSound(new)' /\ SaveSound(new.save)' /\ FlightSound(new)'
  BY <1>8, <1>9 DEF PageSound, Sound, BoardSound, FlightSound, SameCore
<1>13. ConflictSound(new)' /\ AuthorSound(p, new)'
  BY <1>8, <1>9 DEF PageSound, Sound, ConflictSound, AuthorSound, SameCore
<1>14. AskSound(new)' /\ StoredSound(new)'
  BY <1>8, <1>9 DEF PageSound, Sound, AskSound, StoredSound, Stored, SameCore, SameAsk
<1>15. PageSound(p, new)'
  BY <1>10, <1>11, <1>12, <1>13, <1>14 DEF PageSound, Sound
<1>16. ASSUME NEW q \in Pages \ {p}, NEW old \in Page, old = page[q] PROVE PageSound(q, old)'
  BY <1>2, <1>4, <1>5, <1>16, PlacedKeeps DEF PagesInv
<1>17. PageBecomes(p, new)
  BY <1>6 DEF new
<1>18. page' \in [Pages -> Page] /\ \A q \in Pages : PageSound(q, page[q])'
  BY <1>8, <1>15, <1>16, <1>17, PageMoves DEF PagesInv
<1>19. QED
  BY <1>2, <1>3, <1>4, <1>18 DEF PagesInv, BoundMoves

-----------------------------------------------------------------------------
(* Every step, and the first state. *)

LEMMA InitPages ==
  ASSUME Init
  PROVE  PagesInv
<1>1. PICK b \in Scenarios : b = bound
  BY DEF Init
<1>2. b \in Scenario /\ b.hadFaults = b.faults
  BY CanvasAssumption
<1>3. bound \in Scenario /\ bound.faults <= bound.hadFaults
  <2>1. b.faults \in Nat
    BY <1>2 DEF Scenario
  <2>2. QED
    BY <1>1, <1>2, <2>1
<1>4. Blank \in Board /\ \A e \in Elements : Blank[e] = 0
  BY BlankIsBoard
<1>5. saved.version = 1 /\ saved.board = Blank /\ saved.by = Nobody /\ saved \in Saved
  BY <1>4 DEF Init, Saved
<1>6. notes \in [Notes -> {"unplaced", "pending", "applied"}]
  BY DEF Init
<1>7. Unopened \in Page
  BY UnopenedIsPage
<1>8. page \in [Pages -> Page] /\ \A p \in Pages : page[p] = Unopened
  BY <1>7 DEF Init
<1>9. \A n \in Notes \ Applied : saved.board[n] = 0
  BY <1>4, <1>5 DEF Elements
<1>10. PICK pg \in Page : pg = Unopened
  BY <1>7
<1>11. /\ pg.at = "unopened" /\ pg.timer = "none" /\ pg.again = FALSE /\ pg.conflict = FALSE
       /\ pg.taken = {} /\ pg.unsaved = {} /\ pg.given = {} /\ pg.wire = {}
       /\ pg.ask = "no" /\ pg.sync = "none" /\ pg.save = NoSave /\ pg.reply = "none"
       /\ pg.board = Blank
  BY <1>10 DEF Unopened
<1>12. NoSave.at = "none" /\ NoSave.acks = {} /\ NoSave.board = Blank
  BY DEF NoSave
<1>13. ASSUME NEW p \in Pages PROVE PageSound(p, pg)
  <2>1. Resting(pg) /\ NotesSound(pg) /\ AcksSound(pg.save)
    BY <1>4, <1>11, <1>12 DEF Resting, NotesSound, AcksSound, Elements
  <2>2. BoardSound(pg) /\ SaveSound(pg.save) /\ FlightSound(pg)
    BY <1>11, <1>12 DEF BoardSound, SaveSound, FlightSound
  <2>3. saved.by # p
    BY <1>5, CanvasAssumption
  <2>4. ConflictSound(pg) /\ AuthorSound(p, pg) /\ AskSound(pg) /\ StoredSound(pg)
    BY <1>11, <1>12, <2>3 DEF ConflictSound, AuthorSound, AskSound, StoredSound
  <2>5. QED
    BY <2>1, <2>2, <2>4 DEF PageSound, Sound
<1>14. QED
  BY <1>3, <1>5, <1>6, <1>8, <1>9, <1>10, <1>13 DEF PagesInv

LEMMA PagesNext ==
  ASSUME PagesInv, Next
  PROVE  PagesInv'
<1>1. PICK p \in Pages :
        \/ PageStep(p)
        \/ Load(p) \/ Hide(p) \/ Leave(p) \/ Close(p) \/ Ask(p)
        \/ \E s \in Strokes : Draw(p, s) \/ Change(p, s)
        \/ \E e \in Elements : TakeAway(p, e)
        \/ \E n \in Notes : Place(p, n) \/ Refuse(p, n)
        \/ SaveFails(p) \/ SyncFails(p) \/ StreamBreaks(p)
  BY DEF Next
<1>2. CASE TimerFires(p)        BY <1>2, TimerFiresKeeps
<1>3. CASE CheckVersion(p)      BY <1>3, CheckVersionKeeps
<1>4. CASE WriteBoard(p)
  <2>1. CASE Wins(page[p].save)
    BY <1>4, <2>1, WriteWinsKeeps
  <2>2. CASE ~Wins(page[p].save)
    BY <1>4, <2>2, WriteLostKeeps
  <2>3. QED
    BY <2>1, <2>2
<1>5. CASE Answered(p)          BY <1>5, AnsweredKeeps
<1>6. CASE Open(p)              BY <1>6, OpenKeeps
<1>7. CASE SyncEdits(p)         BY <1>7, SyncEditsKeeps
<1>8. CASE SyncArrives(p)       BY <1>8, SyncArrivesKeeps
<1>9. CASE Flushed(p)           BY <1>9, FlushedKeeps
<1>10. CASE Post(p)             BY <1>10, PostKeeps
<1>11. CASE EndReply(p)         BY <1>11, EndReplyKeeps
<1>12. CASE \E n \in Notes : NoteArrives(p, n)
  BY <1>12, NoteArrivesKeeps
<1>13. CASE Load(p)             BY <1>13, LoadKeeps
<1>14. CASE Hide(p)             BY <1>14, HideKeeps
<1>15. CASE Leave(p)            BY <1>15, LeaveKeeps
<1>16. CASE Close(p)            BY <1>16, CloseKeeps
<1>17. CASE Ask(p)              BY <1>17, AskKeeps
<1>18. CASE (\E s \in Strokes : Draw(p, s) \/ Change(p, s)) \/ (\E e \in Elements : TakeAway(p, e))
  BY <1>18, StudentDrawsKeeps
<1>19. CASE \E n \in Notes : Place(p, n)
  BY <1>19, PlaceKeeps
<1>20. CASE (\E n \in Notes : Refuse(p, n)) \/ ReplyRead(p) \/ StreamBreaks(p)
  BY <1>20, AskEndsKeeps
<1>21. CASE SaveFails(p)        BY <1>21, SaveFailsKeeps
<1>22. CASE SyncFails(p)        BY <1>22, SyncFailsKeeps
<1>23. QED
  BY <1>1, <1>2, <1>3, <1>4, <1>5, <1>6, <1>7, <1>8, <1>9, <1>10, <1>11, <1>12, <1>13, <1>14,
     <1>15, <1>16, <1>17, <1>18, <1>19, <1>20, <1>21, <1>22 DEF PageStep

LEMMA PagesStill ==
  ASSUME PagesInv, UNCHANGED vars
  PROVE  PagesInv'
<1>1. saved' = saved /\ notes' = notes /\ page' = page /\ bound' = bound
  BY DEF vars
<1>2. BoundMoves
  BY <1>1, StillMoves DEF PagesInv
<1>3. Applied' = Applied
  BY <1>1 DEF Applied
<1>4. ASSUME NEW p \in Pages PROVE PageSound(p, page[p])'
  <2>1. PICK pg \in Page : pg = page[p] /\ PageSound(p, pg)
    BY PageNow
  <2>2. PageSound(p, pg)'
    BY <1>1, <1>2, <2>1, QuietKeeps DEF BoundMoves
  <2>3. QED
    BY <1>1, <2>1, <2>2 DEF PageSound, Sound, Resting, NotesSound, AcksSound, BoardSound,
       SaveSound, FlightSound, ConflictSound, AuthorSound, AskSound, StoredSound, Stored
<1>5. QED
  BY <1>1, <1>2, <1>3, <1>4 DEF PagesInv, BoundMoves

-----------------------------------------------------------------------------
(* What a log tells. *)

\* The entries are those of the log for one element, in order: the first starts at was,
\* each next one where the one before it ended, and the last ends at now.
TellsOf(log, e, was, now) ==
  /\ (\A k \in DOMAIN log : log[k].of # e) => now = was
  /\ \A k \in DOMAIN log : log[k].of = e =>
       /\ (\A j \in DOMAIN log : j < k => log[j].of # e) => log[k].before = was
       /\ (\A j \in DOMAIN log : k < j => log[j].of # e) => log[k].after = now
       /\ \A m \in DOMAIN log :
            /\ log[m].of = e /\ k < m
            /\ \A j \in DOMAIN log : k < j /\ j < m => log[j].of # e
            => log[k].after = log[m].before

Tells(log, was, now) == \A e \in Elements : TellsOf(log, e, was[e], now[e])

\* The entries of one element, with the least for the first and the greatest for the last,
\* as LogTellsEachChange has them.
LeastTells(log, e, was, now) ==
  LET told == {k \in DOMAIN log : log[k].of = e}
  IN  IF told = {} THEN now = was
      ELSE /\ log[Min(told)].before = was
           /\ log[Max(told)].after = now
           /\ \A k \in told \ {Max(told)} :
                log[k].after = log[Min({m \in told : m > k})].before

LEMMA FirstAndLast ==
  ASSUME NEW log \in Seq(Entry), NEW e, NEW was, NEW now
  PROVE  LeastTells(log, e, was, now) <=> TellsOf(log, e, was, now)
<1>1. Len(log) \in Nat /\ DOMAIN log = 1 .. Len(log)
  BY LenProperties, Zenon
<1>2. PICK n \in Nat : n = Len(log)
  BY <1>1, Zenon
<1>3. PICK told \in SUBSET (1 .. n) : told = {k \in DOMAIN log : log[k].of = e}
  BY <1>1, <1>2
<1>4. \A k \in 1 .. n : k \in told <=> log[k].of = e
  BY <1>1, <1>2, <1>3
<1>5. CASE told = {}
  <2>1. \A k \in DOMAIN log : log[k].of # e
    BY <1>1, <1>2, <1>4, <1>5
  <2>2. QED
    BY <1>3, <1>5, <2>1 DEF LeastTells, TellsOf
<1>6. CASE told # {}
  <2>1. told \subseteq Nat /\ told \subseteq 0 .. n
    OBVIOUS
  <2>2. Min(told) \in told /\ \A y \in told : Min(told) <= y
    BY <1>6, <2>1, MinIs
  <2>3. Max(told) \in told /\ \A y \in told : y <= Max(told)
    BY <1>6, <2>1, MaxIs
  <2>4. PICK first \in told : first = Min(told) /\ \A y \in told : first <= y
    BY <2>2
  <2>5. PICK last \in told : last = Max(told) /\ \A y \in told : y <= last
    BY <2>3
  <2> DEFINE After(k) == {m \in told : m > k}
             Next1(k, m) == k < m /\ \A j \in 1 .. n : k < j /\ j < m => log[j].of # e
  <2>6. ASSUME NEW k \in told \ {last}
        PROVE  Min(After(k)) \in told /\ k < Min(After(k)) /\ \A y \in told : k < y => Min(After(k)) <= y
    <3>1. k < last
      BY <2>1, <2>5
    <3>2. PICK S : S = After(k)
      OBVIOUS
    <3>3. \A y : y \in S <=> y \in told /\ y > k
      BY <3>2
    <3> HIDE DEF After
    <3>4. S \subseteq Nat /\ S # {}
      BY <2>1, <3>1, <3>3
    <3>5. Min(S) \in S /\ \A y \in S : Min(S) <= y
      BY <3>4, MinIs
    <3>6. QED
      BY <2>1, <3>2, <3>3, <3>5
  <2>7. \A k \in told : (\A j \in 1 .. n : j < k => log[j].of # e) <=> k = first
    BY <1>4, <2>1, <2>4
  <2>8. \A k \in told : (\A j \in 1 .. n : k < j => log[j].of # e) <=> k = last
    BY <1>4, <2>1, <2>5
  <2>9. ASSUME NEW k \in told \ {last}, NEW m \in told
        PROVE  Next1(k, m) <=> m = Min(After(k))
    <3>1. PICK a \in told : a = Min(After(k)) /\ k < a /\ \A y \in told : k < y => a <= y
      BY <2>6
    <3> HIDE DEF After
    <3>2. Next1(k, m) <=> k < m /\ \A j \in told : ~(k < j /\ j < m)
      BY <1>4
    <3>3. Next1(k, m) <=> m = a
      <4> HIDE DEF Next1
      <4>1. k \in Nat /\ m \in Nat /\ a \in Nat /\ told \subseteq Nat
        BY <2>1
      <4>2. QED
        BY <3>1, <3>2, <4>1
    <3>4. QED
      BY <3>1, <3>3
  <2>10. \A m \in told : ~Next1(last, m)
    BY <2>1, <2>5
  <2>11. LeastTells(log, e, was, now) <=>
           /\ log[first].before = was /\ log[last].after = now
           /\ \A k \in told \ {last} : log[k].after = log[Min(After(k))].before
    BY <1>3, <1>6, <2>4, <2>5 DEF LeastTells
  <2>12. TellsOf(log, e, was, now) <=>
           /\ \A k \in told : k = first => log[k].before = was
           /\ \A k \in told : k = last => log[k].after = now
           /\ \A k, m \in told : Next1(k, m) => log[k].after = log[m].before
    <3>1. TellsOf(log, e, was, now) <=>
            /\ (\A k \in 1 .. n : log[k].of # e) => now = was
            /\ \A k \in told :
                 /\ (\A j \in 1 .. n : j < k => log[j].of # e) => log[k].before = was
                 /\ (\A j \in 1 .. n : k < j => log[j].of # e) => log[k].after = now
                 /\ \A m \in told : Next1(k, m) => log[k].after = log[m].before
      BY <1>1, <1>2, <1>4 DEF TellsOf
    <3>2. ~\A k \in 1 .. n : log[k].of # e
      BY <1>4, <1>6
    <3> HIDE DEF Next1
    <3>3. QED
      BY <2>7, <2>8, <3>1, <3>2
  <2> HIDE DEF Next1, After
  <2>13. (\A k, m \in told : Next1(k, m) => log[k].after = log[m].before)
         <=> \A k \in told \ {last} : log[k].after = log[Min(After(k))].before
    <3>1. \A k \in told \ {last} : Min(After(k)) \in told
      BY <2>6
    <3>2. QED
      BY <2>9, <2>10, <3>1
  <2>14. QED
    BY <2>4, <2>5, <2>11, <2>12, <2>13
<1>7. QED
  BY <1>5, <1>6

\* LogTellsEachChange, of a chat that is held still.
LogTells(c) ==
  c.there => \A e \in Elements : LeastTells(c.log, e, Told(c.shown)[e], c.board[e])

LEMMA TellsIsLog ==
  ASSUME NEW c \in Chat
  PROVE  LogTells(c) <=> (c.there = TRUE => Tells(c.log, Told(c.shown), c.board))
<1>1. PICK log \in Seq(Entry) : log = c.log
  BY DEF Chat
<1>2. c.there \in BOOLEAN
  BY DEF Chat
<1>3. \A e \in Elements : LeastTells(log, e, Told(c.shown)[e], c.board[e])
                          <=> TellsOf(log, e, Told(c.shown)[e], c.board[e])
  BY FirstAndLast
<1>4. QED
  BY <1>1, <1>2, <1>3 DEF LogTells, Tells

-----------------------------------------------------------------------------
(* The edits of a save. *)

\* SetToSeq lists a finite set, each element once.
LEMMA SetToSeqLists ==
  ASSUME NEW S, IsFiniteSet(S)
  PROVE  /\ SetToSeq(S) \in Seq(S) /\ Len(SetToSeq(S)) = Cardinality(S)
         /\ \A j, k \in 1 .. Cardinality(S) : SetToSeq(S)[j] = SetToSeq(S)[k] => j = k
         /\ \A x \in S : \E k \in 1 .. Cardinality(S) : SetToSeq(S)[k] = x
<1>1. Cardinality(S) \in Nat /\ ExistsBijection(1 .. Cardinality(S), S)
  BY FS_CardinalityType
<1>2. PICK n \in Nat : n = Cardinality(S)
  BY <1>1
<1>3. PICK g : g \in Bijection(1 .. n, S)
  BY <1>1, <1>2 DEF ExistsBijection
<1>4. g \in [1 .. n -> S] /\ IsInjective(g)
  BY <1>3 DEF Bijection, Injection
<1>5. PICK f : f = SetToSeq(S)
  OBVIOUS
<1>6. f \in [1 .. n -> S] /\ IsInjective(f)
  BY <1>2, <1>4, <1>5 DEF SetToSeq
<1>7. f \in Seq(S) /\ Len(f) = n
  BY <1>6
<1>8. f \in Injection(1 .. n, S)
  BY <1>6 DEF Injection
<1>9. IsFiniteSet(1 .. n) /\ Cardinality(1 .. n) = n
  BY FS_Interval
<1>10. f \in Surjection(1 .. n, S)
  BY <1>2, <1>8, <1>9, FS_Injection
<1>11. \A x \in S : \E k \in 1 .. n : f[k] = x
  BY <1>10 DEF Surjection
<1>12. \A j, k \in 1 .. n : f[j] = f[k] => j = k
  BY <1>6 DEF IsInjective
<1>13. QED
  BY <1>2, <1>5, <1>7, <1>11, <1>12

\* The edits from one board to another, each of another element.
Lists(edits, was, now) ==
  /\ edits \in Seq(Entry)
  /\ \A k \in 1 .. Len(edits) : /\ edits[k].before = was[edits[k].of]
                                /\ edits[k].after = now[edits[k].of]
  /\ \A j, k \in 1 .. Len(edits) : edits[j].of = edits[k].of => j = k
  /\ \A e \in Elements : was[e] # now[e] => \E k \in 1 .. Len(edits) : edits[k].of = e

LEMMA EditsList ==
  ASSUME NEW was \in [Elements -> 0 .. 2], NEW now \in [Elements -> 0 .. 2]
  PROVE  Lists(Edits(was, now), was, now)
<1>1. PICK diff \in SUBSET Elements : diff = {e \in Elements : was[e] # now[e]}
  OBVIOUS
<1>2. PICK erased \in SUBSET diff : erased = {e \in diff : now[e] = 0}
  OBVIOUS
<1>3. PICK rest \in SUBSET diff : rest = diff \ erased
  OBVIOUS
<1>4. IsFiniteSet(Elements)
  BY CanvasAssumption, FS_Union DEF Elements
<1>5. IsFiniteSet(diff) /\ IsFiniteSet(erased) /\ IsFiniteSet(rest)
  BY <1>4, FS_Subset
<1>6. /\ Cardinality(erased) \in Nat /\ Cardinality(rest) \in Nat
      /\ Cardinality(diff) = Cardinality(erased) + Cardinality(rest)
  <2>1. diff = erased \cup rest /\ erased \cap rest = {}
    BY <1>3
  <2>2. Cardinality(diff) = Cardinality(erased) + Cardinality(rest) - Cardinality({})
    BY <1>5, <2>1, FS_Union
  <2>3. QED
    BY <1>5, <2>2, FS_EmptySet, FS_CardinalityType
<1>7. PICK a \in Nat, b \in Nat : a = Cardinality(erased) /\ b = Cardinality(rest)
  BY <1>6
<1>8. PICK s : s = SetToSeq(erased)
  OBVIOUS
<1>9. PICK t : t = SetToSeq(rest)
  OBVIOUS
<1>10. /\ s \in Seq(erased) /\ Len(s) = a /\ \A j, k \in 1 .. a : s[j] = s[k] => j = k
       /\ \A x \in erased : \E k \in 1 .. a : s[k] = x
  BY <1>5, <1>7, <1>8, SetToSeqLists
<1>11. /\ t \in Seq(rest) /\ Len(t) = b /\ \A j, k \in 1 .. b : t[j] = t[k] => j = k
       /\ \A x \in rest : \E k \in 1 .. b : t[k] = x
  BY <1>5, <1>7, <1>9, SetToSeqLists
<1>12. s \in Seq(diff) /\ t \in Seq(diff)
  BY <1>10, <1>11, SeqMonotonic
<1>13. PICK order : order = s \o t
  OBVIOUS
<1>14. /\ order \in Seq(diff) /\ Len(order) = a + b
       /\ \A i \in 1 .. a + b : order[i] = IF i <= a THEN s[i] ELSE t[i - a]
  <2>1. /\ s \o t \in Seq(diff) /\ Len(s \o t) = Len(s) + Len(t)
        /\ \A i \in 1 .. Len(s) + Len(t) : (s \o t)[i] = IF i <= Len(s) THEN s[i] ELSE t[i - Len(s)]
    BY <1>12, ConcatProperties
  <2>2. Len(s) = a /\ Len(t) = b
    BY <1>10, <1>11
  <2>3. QED
    BY <1>13, <2>1, <2>2
<1>15. \A i \in 1 .. a + b : order[i] \in diff
  BY <1>14, ElementOfSeq
<1>16. \A j, k \in 1 .. a + b : order[j] = order[k] => j = k
  <2>1. \A i \in 1 .. a : s[i] \in erased
    BY <1>10, ElementOfSeq
  <2>2. \A i \in 1 .. b : t[i] \notin erased
    BY <1>3, <1>11, ElementOfSeq
  <2>3. \A i \in 1 .. a : order[i] = s[i]
    BY <1>14
  <2>4. \A i \in (1 .. a + b) \ (1 .. a) : i - a \in 1 .. b /\ order[i] = t[i - a]
    BY <1>14
  <2> SUFFICES ASSUME NEW j \in 1 .. a + b, NEW k \in 1 .. a + b, order[j] = order[k]
               PROVE  j = k
    OBVIOUS
  <2>5. CASE j \in 1 .. a /\ k \in 1 .. a
    BY <1>10, <2>3, <2>5
  <2>6. CASE j \notin 1 .. a /\ k \notin 1 .. a
    <3>1. t[j - a] = t[k - a] /\ j - a \in 1 .. b /\ k - a \in 1 .. b
      BY <2>4, <2>6
    <3>2. j - a = k - a
      BY <1>11, <3>1
    <3>3. QED
      BY <3>2
  <2>7. CASE j \in 1 .. a /\ k \notin 1 .. a
    BY <2>1, <2>2, <2>3, <2>4, <2>7
  <2>8. CASE j \notin 1 .. a /\ k \in 1 .. a
    BY <2>1, <2>2, <2>3, <2>4, <2>8
  <2>9. QED
    BY <2>5, <2>6, <2>7, <2>8
<1>17. \A e \in diff : \E k \in 1 .. a + b : order[k] = e
  <2>1. ASSUME NEW e \in erased PROVE \E k \in 1 .. a + b : order[k] = e
    <3>1. PICK k \in 1 .. a : s[k] = e
      BY <1>10
    <3>2. k \in 1 .. a + b /\ order[k] = e
      BY <1>14, <3>1
    <3>3. QED
      BY <3>2
  <2>2. ASSUME NEW e \in rest PROVE \E k \in 1 .. a + b : order[k] = e
    <3>1. PICK k \in 1 .. b : t[k] = e
      BY <1>11
    <3>2. k + a \in 1 .. a + b /\ order[k + a] = t[(k + a) - a] /\ (k + a) - a = k
      BY <1>14
    <3>3. order[k + a] = e
      BY <3>1, <3>2
    <3>4. QED
      BY <3>2, <3>3
  <2>3. QED
    BY <1>3, <2>1, <2>2
<1>18. PICK edits : edits = Edits(was, now)
  BY Zenon
<1>19. edits = [k \in 1 .. a + b |-> [of |-> order[k], before |-> was[order[k]], after |-> now[order[k]]]]
  BY <1>1, <1>2, <1>3, <1>6, <1>7, <1>8, <1>9, <1>13, <1>18 DEF Edits
<1>20. \A k \in 1 .. a + b : /\ edits[k] \in Entry /\ edits[k].of = order[k]
                             /\ edits[k].before = was[order[k]] /\ edits[k].after = now[order[k]]
  BY <1>15, <1>19 DEF Entry
<1>21. edits \in Seq(Entry) /\ Len(edits) = a + b
  BY <1>19, <1>20
<1>22. QED
  BY <1>1, <1>16, <1>17, <1>18, <1>20, <1>21 DEF Lists

-----------------------------------------------------------------------------
(* What the loop over the edits leaves of the log. *)

\* The parts of TellsOf, over the places of the log.
FirstStarts(log, e, n, was) ==
  \A k \in 1 .. n :
    log[k].of = e /\ (\A j \in 1 .. n : j < k => log[j].of # e) => log[k].before = was
LastEnds(log, e, n, now) ==
  \A k \in 1 .. n :
    log[k].of = e /\ (\A j \in 1 .. n : k < j => log[j].of # e) => log[k].after = now
Linked(log, e, n) ==
  \A k, m \in 1 .. n :
    /\ log[k].of = e /\ log[m].of = e /\ k < m
    /\ \A j \in 1 .. n : k < j /\ j < m => log[j].of # e
    => log[k].after = log[m].before

LEMMA TellsInParts ==
  ASSUME NEW log, NEW e, NEW was, NEW now, NEW n \in Nat, DOMAIN log = 1 .. n
  PROVE  TellsOf(log, e, was, now) <=>
           /\ (\A k \in 1 .. n : log[k].of # e) => now = was
           /\ FirstStarts(log, e, n, was) /\ LastEnds(log, e, n, now) /\ Linked(log, e, n)
<1> DEFINE Alone == (\A k \in DOMAIN log : log[k].of # e) => now = was
           First == \A k \in DOMAIN log : log[k].of = e =>
                      ((\A j \in DOMAIN log : j < k => log[j].of # e) => log[k].before = was)
           Last1 == \A k \in DOMAIN log : log[k].of = e =>
                      ((\A j \in DOMAIN log : k < j => log[j].of # e) => log[k].after = now)
           Link  == \A k \in DOMAIN log : log[k].of = e =>
                      \A m \in DOMAIN log :
                        /\ log[m].of = e /\ k < m
                        /\ \A j \in DOMAIN log : k < j /\ j < m => log[j].of # e
                        => log[k].after = log[m].before
<1>1. TellsOf(log, e, was, now) <=> Alone /\ First /\ Last1 /\ Link
  BY Zenon DEF TellsOf
<1>2. Alone <=> ((\A k \in 1 .. n : log[k].of # e) => now = was)
  BY Zenon
<1>3. First <=> FirstStarts(log, e, n, was)
  BY DEF FirstStarts
<1>4. Last1 <=> LastEnds(log, e, n, now)
  BY DEF LastEnds
<1>5. Link <=> Linked(log, e, n)
  BY Zenon DEF Linked
<1> HIDE DEF Alone, First, Last1, Link
<1>6. QED
  BY <1>1, <1>2, <1>3, <1>4, <1>5

\* A log that told up to was, with the edits after it, tells up to now.
LEMMA AppendedTells ==
  ASSUME NEW log \in Seq(Entry), NEW edits \in Seq(Entry), NEW new \in Seq(Entry),
         NEW e \in Elements, NEW from, NEW was, NEW now, TellsOf(log, e, from, was),
         Len(new) = Len(log) + Len(edits),
         \A k \in 1 .. Len(log) : new[k] = log[k],
         \A k \in 1 .. Len(edits) : new[Len(log) + k] = edits[k],
         \A k \in 1 .. Len(edits) : edits[k].of = e => edits[k].before = was /\ edits[k].after = now,
         \A j, k \in 1 .. Len(edits) : edits[j].of = e /\ edits[k].of = e => j = k,
         (\A k \in 1 .. Len(edits) : edits[k].of # e) => was = now
  PROVE  TellsOf(new, e, from, now)
<1>1. /\ Len(log) \in Nat /\ DOMAIN log = 1 .. Len(log)
      /\ Len(edits) \in Nat /\ DOMAIN new = 1 .. Len(new)
  BY LenProperties
<1>2. PICK n \in Nat, m \in Nat : n = Len(log) /\ m = Len(edits)
  BY <1>1, Zenon
<1>3. DOMAIN log = 1 .. n /\ DOMAIN new = 1 .. n + m
  BY <1>1, <1>2
<1>4. /\ \A k \in 1 .. n : new[k] = log[k]
      /\ \A k \in 1 .. n + m : k > n => k - n \in 1 .. m /\ new[k] = edits[k - n]
  <2>1. \A k \in 1 .. n + m : k > n => k - n \in 1 .. m /\ n + (k - n) = k
    OBVIOUS
  <2>2. QED
    BY <1>2, <2>1
<1>5. Linked(log, e, n)
  BY <1>3, TellsInParts
<1>6. CASE \A k \in 1 .. m : edits[k].of # e
  <2>1. ASSUME NEW k \in 1 .. n + m, new[k].of = e PROVE k \in 1 .. n
    <3>1. ~(k > n)
      BY <1>4, <1>6, <2>1
    <3>2. QED
      BY <3>1
  <2>2. was = now
    BY <1>2, <1>6
  <2>3. \A k \in 1 .. n : k \in 1 .. n + m
    OBVIOUS
  <2>4. (\A k \in 1 .. n + m : new[k].of # e) <=> \A k \in 1 .. n : log[k].of # e
    BY <1>4, <2>1, <2>3
  <2>5. ASSUME NEW k \in 1 .. n + m, new[k].of = e
        PROVE  /\ k \in 1 .. n /\ log[k].of = e /\ new[k] = log[k]
               /\ (\A j \in 1 .. n + m : j < k => new[j].of # e) => log[k].before = from
               /\ (\A j \in 1 .. n + m : k < j => new[j].of # e) => log[k].after = was
    <3>1. k \in 1 .. n /\ log[k].of = e /\ new[k] = log[k]
      BY <1>4, <2>1, <2>5
    <3>2. /\ (\A j \in 1 .. n : j < k => log[j].of # e) => log[k].before = from
          /\ (\A j \in 1 .. n : k < j => log[j].of # e) => log[k].after = was
      BY <1>3, <3>1 DEF TellsOf
    <3>3. \A j \in 1 .. n : j \in 1 .. n + m /\ new[j] = log[j]
      BY <1>4, <2>3
    <3>4. QED
      BY <3>1, <3>2, <3>3
  <2>6. ASSUME NEW j \in 1 .. n + m, NEW i \in 1 .. n + m, new[j].of = e, new[i].of = e, j < i,
               \A h \in 1 .. n + m : j < h /\ h < i => new[h].of # e
        PROVE  new[j].after = new[i].before
    <3>1. /\ j \in 1 .. n /\ log[j].of = e /\ new[j] = log[j]
          /\ i \in 1 .. n /\ log[i].of = e /\ new[i] = log[i]
      BY <2>5, <2>6
    <3>2. \A h \in 1 .. n : j < h /\ h < i => log[h].of # e
      BY <1>4, <2>3, <2>6
    <3>3. log[j].after = log[i].before
      BY <1>5, <2>6, <3>1, <3>2 DEF Linked
    <3>4. QED
      BY <3>1, <3>3
  <2>7. (\A k \in 1 .. n : log[k].of # e) => was = from
    BY <1>3 DEF TellsOf
  <2>8. QED
    <3>1. FirstStarts(new, e, n + m, from)
      BY <2>5 DEF FirstStarts
    <3>2. LastEnds(new, e, n + m, now)
      BY <2>2, <2>5 DEF LastEnds
    <3>3. Linked(new, e, n + m)
      BY <2>6 DEF Linked
    <3>4. QED
      BY <1>3, <2>2, <2>4, <2>7, <3>1, <3>2, <3>3, TellsInParts
<1>7. CASE \E k \in 1 .. m : edits[k].of = e
  <2>1. PICK k \in 1 .. m : edits[k].of = e
    BY <1>7
  <2>2. PICK last \in 1 .. n + m : last = n + k
    OBVIOUS
  <2>3. last > n /\ last - n = k
    BY <2>2
  <2>4. new[last].of = e /\ new[last].before = was /\ new[last].after = now
    BY <1>2, <1>4, <2>1, <2>3
  <2>5. \A j \in 1 .. n + m : j > n /\ new[j].of = e => j = last
    <3>1. ASSUME NEW j \in 1 .. n + m, j > n, new[j].of = e PROVE j = last
      <4>1. j - n \in 1 .. m /\ edits[j - n].of = e
        BY <1>4, <3>1
      <4>2. j - n = k
        BY <1>2, <2>1, <4>1
      <4>3. QED
        BY <2>3, <4>2
    <3>2. QED
      BY <3>1
  <2>6. ASSUME NEW j \in 1 .. n + m, new[j].of = e, j # last
        PROVE  j \in 1 .. n /\ log[j].of = e
    <3>1. ~(j > n)
      BY <2>5, <2>6
    <3>2. j \in 1 .. n
      BY <3>1
    <3>3. QED
      BY <1>4, <2>6, <3>2
  <2>7. \A j \in 1 .. n : j \in 1 .. n + m /\ j < last
    BY <2>3
  <2>8. ASSUME NEW j \in 1 .. n + m, new[j].of = e, \A i \in 1 .. n + m : i < j => new[i].of # e
        PROVE  new[j].before = from
    <3>1. CASE j = last
      <4>1. \A i \in 1 .. n : log[i].of # e
        BY <1>4, <2>7, <2>8, <3>1
      <4>2. was = from
        BY <1>3, <4>1 DEF TellsOf
      <4>3. QED
        BY <2>4, <3>1, <4>2
    <3>2. CASE j # last
      <4>1. j \in 1 .. n /\ log[j].of = e
        BY <2>6, <2>8, <3>2
      <4>2. \A i \in 1 .. n : i < j => log[i].of # e
        BY <1>4, <2>7, <2>8
      <4>3. log[j].before = from
        BY <1>3, <4>1, <4>2 DEF TellsOf
      <4>4. QED
        BY <1>4, <4>1, <4>3
    <3>3. QED
      BY <3>1, <3>2
  <2>9. ASSUME NEW j \in 1 .. n + m, new[j].of = e, \A i \in 1 .. n + m : j < i => new[i].of # e
        PROVE  new[j].after = now
    <3>1. j = last
      BY <2>4, <2>6, <2>7, <2>9
    <3>2. QED
      BY <2>4, <3>1
  <2>10. ASSUME NEW j \in 1 .. n + m, NEW i \in 1 .. n + m, new[j].of = e, new[i].of = e, j < i,
                \A h \in 1 .. n + m : j < h /\ h < i => new[h].of # e
         PROVE  new[j].after = new[i].before
    <3>1. j \in 1 .. n /\ log[j].of = e /\ new[j] = log[j]
      BY <1>4, <2>3, <2>6, <2>7, <2>10
    <3>2. CASE i = last
      <4>1. \A h \in 1 .. n : j < h => log[h].of # e
        BY <1>4, <2>7, <2>10, <3>2
      <4>2. log[j].after = was
        BY <1>3, <3>1, <4>1 DEF TellsOf
      <4>3. QED
        BY <2>4, <3>1, <3>2, <4>2
    <3>3. CASE i # last
      <4>1. i \in 1 .. n /\ log[i].of = e /\ new[i] = log[i]
        BY <1>4, <2>6, <2>10, <3>3
      <4>2. \A h \in 1 .. n : j < h /\ h < i => log[h].of # e
        BY <1>4, <2>7, <2>10
      <4>3. log[j].after = log[i].before
        BY <1>5, <2>10, <3>1, <4>1, <4>2 DEF Linked
      <4>4. QED
        BY <3>1, <4>1, <4>3
    <3>4. QED
      BY <3>2, <3>3
  <2>11. ~\A j \in 1 .. n + m : new[j].of # e
    BY <2>4
  <2>12. QED
    <3>1. FirstStarts(new, e, n + m, from)
      BY <2>8 DEF FirstStarts
    <3>2. LastEnds(new, e, n + m, now)
      BY <2>9 DEF LastEnds
    <3>3. Linked(new, e, n + m)
      BY <2>10 DEF Linked
    <3>4. QED
      BY <1>3, <2>11, <3>1, <3>2, <3>3, TellsInParts
<1>8. QED
  BY <1>2, <1>6, <1>7

\* A last entry whose end moves tells of the board where it moves to.
LEMMA FoldedTells ==
  ASSUME NEW log \in Seq(Entry), NEW new \in Seq(Entry), NEW n \in Nat, n > 0,
         Len(log) = n, Len(new) = n, \A k \in 1 .. n : k < n => new[k] = log[k],
         new[n].of = log[n].of, new[n].before = log[n].before,
         NEW e, NEW from, NEW was, NEW now, TellsOf(log, e, from, was),
         log[n].of = e => now = new[n].after,
         log[n].of # e => now = was
  PROVE  TellsOf(new, e, from, now)
<1>1. DOMAIN log = 1 .. n /\ DOMAIN new = 1 .. n
  BY LenProperties
<1>2. /\ (\A k \in 1 .. n : log[k].of # e) => was = from
      /\ FirstStarts(log, e, n, from) /\ LastEnds(log, e, n, was) /\ Linked(log, e, n)
  BY <1>1, TellsInParts
<1>3. \A k \in 1 .. n : new[k].of = log[k].of /\ new[k].before = log[k].before
  OBVIOUS
<1>4. (\A k \in 1 .. n : new[k].of # e) => now = from
  BY <1>2, <1>3
<1>5. FirstStarts(new, e, n, from)
  BY <1>2, <1>3 DEF FirstStarts
<1>6. LastEnds(new, e, n, now)
  <2> SUFFICES ASSUME NEW k \in 1 .. n, new[k].of = e, \A j \in 1 .. n : k < j => new[j].of # e
               PROVE  new[k].after = now
    BY DEF LastEnds
  <2>1. CASE k = n
    BY <2>1
  <2>2. CASE k < n
    <3>1. log[n].of # e /\ log[k].of = e /\ \A j \in 1 .. n : k < j => log[j].of # e
      BY <1>3, <2>2
    <3>2. log[k].after = was
      BY <1>2, <3>1 DEF LastEnds
    <3>3. QED
      BY <2>2, <3>1, <3>2
  <2>3. QED
    BY <2>1, <2>2
<1>7. Linked(new, e, n)
  <2> SUFFICES ASSUME NEW k \in 1 .. n, NEW m \in 1 .. n, new[k].of = e, new[m].of = e, k < m,
                      \A j \in 1 .. n : k < j /\ j < m => new[j].of # e
               PROVE  new[k].after = new[m].before
    BY DEF Linked
  <2>1. k < n
    OBVIOUS
  <2>2. log[k].of = e /\ log[m].of = e /\ \A j \in 1 .. n : k < j /\ j < m => log[j].of # e
    BY <1>3
  <2>3. log[k].after = log[m].before
    BY <1>2, <2>2 DEF Linked
  <2>4. QED
    BY <1>3, <2>1, <2>3
<1>8. QED
  BY <1>1, <1>4, <1>5, <1>6, <1>7, TellsInParts

\* Whether or not its first edit is folded, the loop tells what the edits list.
LEMMA LoggedTells ==
  ASSUME NEW log \in Seq(Entry), NEW edits, NEW from,
         NEW was \in [Elements -> 0 .. 2], NEW now \in [Elements -> 0 .. 2],
         Lists(edits, was, now), Tells(log, from, was)
  PROVE  LoggedAll(log, edits) \in Seq(Entry) /\ Tells(LoggedAll(log, edits), from, now)
<1>1. /\ edits \in Seq(Entry)
      /\ \A k \in 1 .. Len(edits) : /\ edits[k].before = was[edits[k].of]
                                    /\ edits[k].after = now[edits[k].of]
      /\ \A j, k \in 1 .. Len(edits) : edits[j].of = edits[k].of => j = k
      /\ \A e \in Elements : was[e] # now[e] => \E k \in 1 .. Len(edits) : edits[k].of = e
  BY DEF Lists
<1>2. PICK m \in Nat : m = Len(edits)
  BY <1>1, LenProperties
<1>3. PICK n \in Nat : n = Len(log)
  BY LenProperties
<1>4. CASE edits = <<>>
  <2>1. Len(edits) = 0
    BY <1>4
  <2>2. \A e \in Elements : was[e] = now[e]
    BY <1>1, <2>1
  <2>3. LoggedAll(log, edits) = log
    BY <1>4 DEF LoggedAll
  <2>4. QED
    BY <2>2, <2>3 DEF Tells
<1>5. CASE edits # <<>>
  <2>1. PICK h \in Entry, rest \in Seq(Entry) :
          /\ h = Head(edits) /\ rest = Tail(edits)
    BY <1>1, <1>5, HeadTailProperties
  <2>2. m > 0 /\ h = edits[1] /\ Len(rest) = m - 1 /\ \A k \in 1 .. m - 1 : rest[k] = edits[k + 1]
    <3>1. Len(Tail(edits)) = Len(edits) - 1 /\ \A k \in 1 .. Len(Tail(edits)) : Tail(edits)[k] = edits[k + 1]
      BY <1>1, <1>5, HeadTailProperties
    <3>2. Len(edits) # 0
      BY <1>1, <1>5, EmptySeq
    <3>3. Head(edits) = edits[1]
      BY <1>1, <1>5
    <3>4. QED
      BY <1>2, <2>1, <3>1, <3>2, <3>3
  <2>3. LoggedAll(log, edits) = Logged(log, h) \o rest
    BY <1>5, <2>1 DEF LoggedAll
  <2>4. CASE Logged(log, h) = Append(log, h)
    <3>1. PICK one \in Seq(Entry) : one = Append(log, h)
      BY AppendProperties
    <3>2. Len(one) = n + 1 /\ one[n + 1] = h /\ \A k \in 1 .. n : one[k] = log[k]
      BY <1>3, <3>1
    <3>3. PICK new : new = one \o rest
      OBVIOUS
    <3>4. /\ new \in Seq(Entry) /\ Len(new) = n + m
          /\ \A k \in 1 .. n + m : new[k] = IF k <= n + 1 THEN one[k] ELSE rest[k - (n + 1)]
      <4>1. /\ one \o rest \in Seq(Entry) /\ Len(one \o rest) = Len(one) + Len(rest)
            /\ \A k \in 1 .. Len(one) + Len(rest) :
                 (one \o rest)[k] = IF k <= Len(one) THEN one[k] ELSE rest[k - Len(one)]
        BY ConcatProperties
      <4>2. Len(one) = n + 1 /\ Len(rest) = m - 1 /\ Len(one) + Len(rest) = n + m
        BY <2>2, <3>2
      <4>3. QED
        BY <3>3, <4>1, <4>2
    <3>5. \A k \in 1 .. n : new[k] = log[k]
      BY <3>2, <3>4
    <3>6. ASSUME NEW k \in 1 .. m PROVE new[n + k] = edits[k]
      <4>1. CASE k = 1
        BY <2>2, <3>2, <3>4, <4>1
      <4>2. CASE k # 1
        <5>1. k - 1 \in 1 .. m - 1 /\ (k - 1) + 1 = k
          BY <4>2
        <5>2. n + k \in 1 .. n + m /\ ~(n + k <= n + 1) /\ (n + k) - (n + 1) = k - 1
          BY <4>2
        <5>3. new[n + k] = rest[k - 1] /\ rest[k - 1] = edits[k]
          BY <2>2, <3>4, <5>1, <5>2
        <5>4. QED
          BY <5>3
      <4>3. QED
        BY <4>1, <4>2
    <3>7. ASSUME NEW e \in Elements PROVE TellsOf(new, e, from[e], now[e])
      <4>1. TellsOf(log, e, from[e], was[e])
        BY DEF Tells
      <4>2. \A k \in 1 .. Len(edits) : edits[k].of = e => edits[k].before = was[e] /\ edits[k].after = now[e]
        BY <1>1
      <4>3. \A j, k \in 1 .. Len(edits) : edits[j].of = e /\ edits[k].of = e => j = k
        BY <1>1
      <4>4. (\A k \in 1 .. Len(edits) : edits[k].of # e) => was[e] = now[e]
        BY <1>1
      <4>5. /\ Len(new) = Len(log) + Len(edits) /\ \A k \in 1 .. Len(log) : new[k] = log[k]
            /\ \A k \in 1 .. Len(edits) : new[Len(log) + k] = edits[k]
        BY <1>2, <1>3, <3>4, <3>5, <3>6
      <4>6. QED
        BY <1>1, <3>4, <4>1, <4>2, <4>3, <4>4, <4>5, AppendedTells
    <3>8. LoggedAll(log, edits) = new
      BY <2>3, <2>4, <3>1, <3>3
    <3>9. QED
      BY <3>4, <3>7, <3>8 DEF Tells
  <2>5. CASE log # <<>> /\ CarriesOn(Last(log), h)
    <3>1. n > 0 /\ Last(log) = log[n]
      <4>1. Len(log) # 0
        BY <2>5, EmptySeq
      <4>2. QED
        BY <1>3, <4>1 DEF Last
    <3>2. log[n] \in Entry /\ log[n].of = h.of
      <4>1. log[n] \in Entry
        BY <1>3, <3>1, ElementOfSeq
      <4>2. QED
        BY <2>5, <3>1, <4>1 DEF CarriesOn
    <3>3. PICK last \in Entry : /\ last = [log[n] EXCEPT !.after = h.after]
                                /\ last.of = h.of /\ last.before = log[n].before /\ last.after = h.after
      <4> DEFINE folded == [log[n] EXCEPT !.after = h.after]
      <4>1. h.after \in 0 .. 2
        BY DEF Entry
      <4>2. folded \in Entry /\ folded.of = h.of /\ folded.before = log[n].before /\ folded.after = h.after
        BY <3>2, <4>1 DEF Entry
      <4> HIDE DEF folded
      <4>3. QED
        BY <4>2 DEF folded
    <3>4. PICK one : one = [log EXCEPT ![n] = last]
      OBVIOUS
    <3>5. one \in Seq(Entry) /\ Len(one) = n /\ one[n] = last /\ \A k \in 1 .. n : k < n => one[k] = log[k]
      BY <1>3, <3>1, <3>4, ExceptSeq
    <3>6. Logged(log, h) = one
      BY <1>3, <2>5, <3>3, <3>4 DEF Logged
    <3>7. PICK new : new = one \o rest
      OBVIOUS
    <3>8. /\ new \in Seq(Entry) /\ Len(new) = Len(one) + Len(rest)
          /\ \A k \in 1 .. Len(one) : new[k] = one[k]
          /\ \A k \in 1 .. Len(rest) : new[Len(one) + k] = rest[k]
      <4>1. /\ one \o rest \in Seq(Entry) /\ Len(one \o rest) = Len(one) + Len(rest)
            /\ \A k \in 1 .. Len(one) + Len(rest) :
                 (one \o rest)[k] = IF k <= Len(one) THEN one[k] ELSE rest[k - Len(one)]
        BY <3>5, ConcatProperties
      <4>2. Len(one) = n /\ Len(rest) = m - 1 /\ Len(one) + Len(rest) = n + (m - 1)
        BY <2>2, <3>5
      <4>3. \A k \in 1 .. m - 1 : n + k \in 1 .. n + (m - 1) /\ ~(n + k <= n) /\ (n + k) - n = k
        OBVIOUS
      <4>4. \A k \in 1 .. n : k \in 1 .. n + (m - 1) /\ k <= n
        BY <2>2
      <4>5. \A k \in 1 .. n + (m - 1) : new[k] = IF k <= n THEN one[k] ELSE rest[k - n]
        BY <3>7, <4>1, <4>2
      <4>6. (\A k \in 1 .. n : new[k] = one[k]) /\ (\A k \in 1 .. m - 1 : new[n + k] = rest[k])
        BY <4>3, <4>4, <4>5
      <4>7. QED
        BY <3>7, <4>1, <4>2, <4>6
    <3>9. ASSUME NEW e \in Elements PROVE TellsOf(new, e, from[e], now[e])
      <4>1. PICK mid : mid = IF e = h.of THEN h.after ELSE was[e]
        OBVIOUS
      <4>2. TellsOf(log, e, from[e], was[e])
        BY DEF Tells
      <4>3. TellsOf(one, e, from[e], mid)
        <5>1. /\ one[n].of = log[n].of /\ one[n].before = log[n].before
              /\ log[n].of = e => mid = one[n].after
              /\ log[n].of # e => mid = was[e]
          BY <3>2, <3>3, <3>5, <4>1
        <5>2. QED
          BY <1>3, <3>1, <3>5, <4>2, <5>1, FoldedTells
      <4>4. \A k \in 1 .. m - 1 : k + 1 \in 1 .. m /\ k + 1 # 1 /\ rest[k] = edits[k + 1]
        BY <2>2
      <4>5. 1 \in 1 .. m /\ edits[1].of = h.of /\ h.after = now[h.of]
        BY <1>1, <1>2, <2>2
      <4>6. ASSUME NEW k \in 1 .. m - 1, rest[k].of = e PROVE rest[k].before = mid /\ rest[k].after = now[e]
        <5>1. k + 1 \in 1 .. m /\ k + 1 # 1 /\ rest[k] = edits[k + 1]
          BY <4>4
        <5>2. e # h.of
          BY <1>1, <1>2, <4>5, <4>6, <5>1
        <5>3. edits[k + 1].before = was[e] /\ edits[k + 1].after = now[e]
          BY <1>1, <1>2, <4>6, <5>1
        <5>4. QED
          BY <4>1, <5>1, <5>2, <5>3
      <4>7. ASSUME NEW j \in 1 .. m - 1, NEW k \in 1 .. m - 1, rest[j].of = e, rest[k].of = e PROVE j = k
        <5>1. edits[j + 1].of = e /\ edits[k + 1].of = e /\ j + 1 \in 1 .. m /\ k + 1 \in 1 .. m
          BY <4>4, <4>7
        <5>2. j + 1 = k + 1
          BY <1>1, <1>2, <5>1
        <5>3. QED
          BY <5>2
      <4>8. ASSUME \A k \in 1 .. m - 1 : rest[k].of # e PROVE mid = now[e]
        <5>1. CASE e = h.of
          BY <4>1, <4>5, <5>1
        <5>2. CASE e # h.of
          <6>1. ASSUME NEW k \in 1 .. m PROVE edits[k].of # e
            <7>1. CASE k = 1
              BY <4>5, <5>2, <7>1
            <7>2. CASE k # 1
              <8>1. k - 1 \in 1 .. m - 1 /\ (k - 1) + 1 = k
                BY <7>2
              <8>2. rest[k - 1] = edits[k]
                BY <4>4, <8>1
              <8>3. QED
                BY <4>8, <8>1, <8>2
            <7>3. QED
              BY <7>1, <7>2
          <6>2. was[e] = now[e]
            BY <1>1, <1>2, <6>1
          <6>3. QED
            BY <4>1, <5>2, <6>2
        <5>3. QED
          BY <5>1, <5>2
      <4>9. Len(rest) = m - 1
        BY <2>2
      <4>10. /\ \A k \in 1 .. Len(rest) : rest[k].of = e => rest[k].before = mid /\ rest[k].after = now[e]
             /\ \A j, k \in 1 .. Len(rest) : rest[j].of = e /\ rest[k].of = e => j = k
             /\ (\A k \in 1 .. Len(rest) : rest[k].of # e) => mid = now[e]
        BY <4>6, <4>7, <4>8, <4>9
      <4>11. QED
        BY <3>5, <3>8, <4>3, <4>10, AppendedTells, ZenonT(60)
    <3>10. LoggedAll(log, edits) = new
      BY <2>3, <3>6, <3>7
    <3>11. QED
      BY <3>8, <3>9, <3>10 DEF Tells
  <2>6. QED
    BY <2>4, <2>5 DEF Logged
<1>6. QED
  BY <1>4, <1>5

-----------------------------------------------------------------------------
(* The chat. *)

LEMMA ToldIsSnapshot ==
  ASSUME NEW b \in Board
  PROVE  Told(b) \in [Elements -> 0 .. 2]
<1>1. \A e \in Elements : e \in OnBoard(b) => b[e] \in 0 .. 2
  BY DEF OnBoard
<1>2. \A e \in Elements : (IF e \in OnBoard(b) THEN b[e] ELSE 0) \in 0 .. 2
  BY <1>1
<1>3. QED
  BY <1>2 DEF Told

\* What the sync under the chat's lock leaves of a chat.
LEMMA SyncedLeaves ==
  ASSUME saved \in Saved, NEW c \in Chat,
         c.version # 0 => Tells(c.log, Told(c.shown), c.board)
  PROVE  LET new == Synced(c) IN
         /\ new \in Chat /\ new.version = saved.version
         /\ new.there = c.there /\ new.shown = c.shown
         /\ c.version = saved.version => new.board = c.board
         /\ c.version # saved.version => new.board = Told(saved.board)
         /\ c.version # 0 => Tells(new.log, Told(new.shown), new.board)
<1>1. PICK now \in [Elements -> 0 .. 2] : now = Told(saved.board)
  BY ToldIsSnapshot DEF Saved
<1>2. PICK v \in Nat \ {0} : v = saved.version
  BY DEF Saved
<1>3. c.log \in Seq(Entry) /\ c.board \in [Elements -> 0 .. 2] /\ c.version \in Nat
  BY DEF Chat
<1>4. CASE c.version = v
  BY <1>2, <1>4 DEF Synced
<1>5. CASE c.version # v
  <2>1. PICK edits : edits = Edits(c.board, now)
    OBVIOUS
  <2>2. Lists(edits, c.board, now)
    BY <1>3, <2>1, EditsList
  <2>3. edits \in Seq(Entry)
    BY <2>2 DEF Lists
  <2>4. PICK log : log = IF c.version = 0 THEN c.log ELSE LoggedAll(c.log, edits)
    OBVIOUS
  <2>5. log \in Seq(Entry) /\ (c.version # 0 => Tells(log, Told(c.shown), now))
    <3>1. CASE c.version = 0
      BY <1>3, <2>4, <3>1
    <3>2. CASE c.version # 0
      <4>1. Tells(c.log, Told(c.shown), c.board)
        BY <3>2
      <4>2. LoggedAll(c.log, edits) \in Seq(Entry) /\ Tells(LoggedAll(c.log, edits), Told(c.shown), now)
        BY <1>3, <2>2, <4>1, LoggedTells
      <4>3. QED
        BY <2>4, <3>2, <4>2
    <3>3. QED
      BY <3>1, <3>2
  <2> DEFINE new == [c EXCEPT !.version = v, !.board = now, !.log = log]
  <2>6. Synced(c) = new
    BY <1>1, <1>2, <1>5, <2>1, <2>4 DEF Synced
  <2>7. /\ new \in Chat /\ new.version = v /\ new.there = c.there /\ new.shown = c.shown
        /\ new.board = now /\ new.log = log
    BY <2>5 DEF Chat
  <2> HIDE DEF new
  <2>9. QED
    BY <1>1, <1>2, <1>5, <2>5, <2>6, <2>7
<1>6. QED
  BY <1>2, <1>4, <1>5

\* ChatInv, of a chat that is held still.
ChatSound(c) ==
  /\ c \in Chat /\ c.version <= saved.version
  /\ c.there = TRUE <=> c.version # 0
  /\ c.there = TRUE /\ c.version = saved.version => c.board = Told(saved.board)
  /\ c.there = TRUE => Tells(c.log, Told(c.shown), c.board)

LEMMA ChatNow ==
  ASSUME ChatInv
  PROVE  \E c \in Chat : c = chat /\ ChatSound(c)
<1>1. PICK c \in Chat : c = chat
  BY DEF ChatInv
<1>2. LogTells(c)
  <2>1. LogTells(chat)
    BY DEF ChatInv, LogTellsEachChange, LogTells, LeastTells
  <2>2. QED
    BY <1>1, <2>1
<1>3. c.there = TRUE => Tells(c.log, Told(c.shown), c.board)
  BY <1>2, TellsIsLog
<1>4. ChatSound(c)
  BY <1>1, <1>3 DEF ChatInv, ChatSound
<1>5. QED
  BY <1>1, <1>4

LEMMA ChatNext ==
  ASSUME NEW c \in Chat, chat' = c, ChatSound(c)'
  PROVE  ChatInv'
<1>1. LogTells(c)
  BY TellsIsLog DEF ChatSound
<1>2. LogTellsEachChange'
  <2>1. LogTells(chat')
    BY <1>1
  <2>2. QED
    BY <2>1 DEF LogTellsEachChange, LogTells, LeastTells
<1>3. QED
  BY <1>2 DEF ChatInv, ChatSound

\* A sync of a chat that is sound.
LEMMA SyncSound ==
  ASSUME saved \in Saved, NEW c \in Chat, ChatSound(c), c.there = TRUE
  PROVE  Synced(c) \in Chat /\ ChatSound(Synced(c))
<1>1. c.version # 0 /\ Tells(c.log, Told(c.shown), c.board)
  BY DEF ChatSound
<1>2. /\ Synced(c) \in Chat /\ Synced(c).version = saved.version
      /\ Synced(c).there = c.there /\ Synced(c).shown = c.shown
      /\ c.version = saved.version => Synced(c).board = c.board
      /\ c.version # saved.version => Synced(c).board = Told(saved.board)
      /\ c.version # 0 => Tells(Synced(c).log, Told(Synced(c).shown), Synced(c).board)
  BY <1>1, SyncedLeaves
<1>3. PICK new \in Chat : new = Synced(c)
  BY <1>2
<1>4. saved.version \in Nat \ {0}
  BY DEF Saved
<1>5. ChatSound(new)
  BY <1>1, <1>2, <1>3, <1>4 DEF ChatSound
<1>6. QED
  BY <1>3, <1>5

\* A message leaves nothing to tell.
LEMMA MessageSound ==
  ASSUME saved \in Saved, NEW c \in Chat, ChatSound(c)
  PROVE  LET d   == Synced([c EXCEPT !.there = TRUE])
             new == [d EXCEPT !.shown = saved.board, !.log = <<>>]
         IN  new \in Chat /\ ChatSound(new) /\ new.shown = saved.board
<1> DEFINE opened == [c EXCEPT !.there = TRUE]
<1>1. /\ opened \in Chat /\ opened.version = c.version /\ opened.there = TRUE
      /\ opened.shown = c.shown /\ opened.board = c.board /\ opened.log = c.log
  BY DEF Chat
<1> HIDE DEF opened
<1>2. c.version # 0 => Tells(c.log, Told(c.shown), c.board)
  BY DEF ChatSound
<1>3. /\ Synced(opened) \in Chat /\ Synced(opened).version = saved.version
      /\ Synced(opened).there = TRUE
      /\ c.version = saved.version => Synced(opened).board = c.board
      /\ c.version # saved.version => Synced(opened).board = Told(saved.board)
  BY <1>1, <1>2, SyncedLeaves
<1>4. PICK d \in Chat : d = Synced(opened)
  BY <1>3
<1>5. saved.version \in Nat \ {0} /\ saved.board \in Board
  BY DEF Saved
<1>6. d.version = saved.version /\ d.there = TRUE /\ d.board = Told(saved.board)
  BY <1>3, <1>4, <1>5 DEF ChatSound
<1> DEFINE new == [d EXCEPT !.shown = saved.board, !.log = <<>>]
<1>7. /\ new \in Chat /\ new.version = d.version /\ new.there = d.there /\ new.board = d.board
      /\ new.shown = saved.board /\ new.log = <<>>
  <2>1. <<>> \in Seq(Entry)
    BY EmptySeq
  <2>2. QED
    BY <1>5, <2>1 DEF Chat
<1> HIDE DEF new
<1>8. Tells(new.log, Told(new.shown), new.board)
  <2>1. DOMAIN new.log = {}
    BY <1>7
  <2>2. new.board = Told(new.shown)
    BY <1>6, <1>7
  <2>3. QED
    BY <2>1, <2>2 DEF Tells, TellsOf
<1>9. ChatSound(new)
  BY <1>5, <1>6, <1>7, <1>8 DEF ChatSound
<1>10. QED
  BY <1>4, <1>7, <1>9 DEF new, opened

LEMMA InitChat ==
  ASSUME Init
  PROVE  ChatInv
<1>1. Blank \in Board /\ \A e \in Elements : Blank[e] = 0
  BY BlankIsBoard
<1>2. saved.version = 1 /\ saved.board = Blank
  BY DEF Init
<1>3. Told(Blank) = Blank
  <2>1. \A e \in Elements : (IF e \in OnBoard(Blank) THEN Blank[e] ELSE 0) = Blank[e]
    BY <1>1 DEF OnBoard
  <2>2. QED
    BY <1>1, <2>1 DEF Told, Board
<1>4. Blank \in [Elements -> 0 .. 2]
  BY DEF Blank
<1>5. <<>> \in Seq(Entry)
  BY EmptySeq
<1>6. PICK c \in Chat :
        /\ c = chat /\ c.version \in {0, 1} /\ (c.there = TRUE <=> c.version # 0)
        /\ c.board = Blank /\ c.shown = Blank /\ c.log = <<>>
  <2>1. CASE bound.left = {}
    <3>1. (bound.left # {}) = FALSE
      BY <2>1
    <3>2. chat = [there |-> bound.left # {}, version |-> 0, board |-> Blank, shown |-> Blank,
                  log |-> <<>>]
      BY <2>1 DEF Init
    <3>3. chat = [there |-> FALSE, version |-> 0, board |-> Blank, shown |-> Blank, log |-> <<>>]
      BY <3>1, <3>2, Zenon
    <3>4. chat \in Chat
      BY <1>1, <1>4, <1>5, <3>3 DEF Chat
    <3>5. /\ chat.version = 0 /\ chat.there = FALSE /\ chat.board = Blank
          /\ chat.shown = Blank /\ chat.log = <<>>
      BY <3>3
    <3>6. QED
      BY <3>4, <3>5
  <2>2. CASE bound.left # {}
    <3>1. (bound.left # {}) = TRUE
      BY <2>2
    <3>2. chat = [there |-> bound.left # {}, version |-> 1, board |-> Blank, shown |-> Blank,
                  log |-> <<>>]
      BY <2>2 DEF Init
    <3>3. chat = [there |-> TRUE, version |-> 1, board |-> Blank, shown |-> Blank, log |-> <<>>]
      BY <3>1, <3>2, Zenon
    <3>4. chat \in Chat
      BY <1>1, <1>4, <1>5, <3>3 DEF Chat
    <3>5. /\ chat.version = 1 /\ chat.there = TRUE /\ chat.board = Blank
          /\ chat.shown = Blank /\ chat.log = <<>>
      BY <3>3
    <3>6. QED
      BY <3>4, <3>5
  <2>3. QED
    BY <2>1, <2>2
<1>7. Tells(c.log, Told(c.shown), c.board)
  <2>1. c.log = <<>> /\ c.shown = Blank /\ c.board = Blank
    BY <1>6
  <2>2. QED
    BY <1>3, <2>1 DEF Tells, TellsOf
<1>8. ChatSound(c)
  BY <1>2, <1>3, <1>6, <1>7 DEF ChatSound
<1>9. LogTellsEachChange
  <2>1. LogTells(c)
    BY <1>8, TellsIsLog DEF ChatSound
  <2>2. LogTells(chat)
    BY <1>6, <2>1
  <2>3. QED
    BY <2>2 DEF LogTellsEachChange, LogTells, LeastTells
<1>10. QED
  BY <1>6, <1>8, <1>9 DEF ChatInv, ChatSound

\* A page that steps beside the chat.
LEMMA ChatStill ==
  ASSUME saved \in Saved, ChatInv, UNCHANGED chat,
         \/ UNCHANGED saved
         \/ saved' \in Saved /\ saved'.version = saved.version + 1
  PROVE  ChatInv'
<1>1. PICK c \in Chat : c = chat /\ ChatSound(c)
  BY ChatNow
<1>2. chat' = c
  BY <1>1
<1>3. saved.version \in Nat /\ c.version \in Nat
  BY DEF Saved, Chat
<1>4. ChatSound(c)'
  <2>1. CASE UNCHANGED saved
    BY <1>1, <2>1 DEF ChatSound
  <2>2. CASE saved' \in Saved /\ saved'.version = saved.version + 1
    BY <1>1, <1>3, <2>2 DEF ChatSound
  <2>3. QED
    BY <2>1, <2>2
<1>5. QED
  BY <1>2, <1>4, ChatNext

LEMMA ChatSyncs ==
  ASSUME saved \in Saved, ChatInv, UNCHANGED saved, chat' = Synced(chat), chat.there = TRUE
  PROVE  ChatInv'
<1>1. PICK c \in Chat : c = chat /\ ChatSound(c)
  BY ChatNow
<1>2. Synced(c) \in Chat /\ ChatSound(Synced(c))
  BY <1>1, SyncSound
<1>3. PICK new \in Chat : new = Synced(c) /\ ChatSound(new)
  BY <1>2
<1>4. chat' = new
  BY <1>1, <1>3
<1>5. ChatSound(new)'
  BY <1>3 DEF ChatSound
<1>6. QED
  BY <1>4, <1>5, ChatNext

LEMMA PostSound ==
  ASSUME saved \in Saved, ChatInv, NEW p \in Pages, Post(p)
  PROVE  ChatInv' /\ chat'.shown = saved.board
<1>1. PICK c \in Chat : c = chat /\ ChatSound(c)
  BY ChatNow
<1> DEFINE d   == Synced([c EXCEPT !.there = TRUE])
           now == [d EXCEPT !.shown = saved.board, !.log = <<>>]
<1>2. now \in Chat /\ ChatSound(now) /\ now.shown = saved.board
  BY <1>1, MessageSound, Zenon
<1>3. chat' = now /\ UNCHANGED saved
  BY <1>1 DEF Post
<1> HIDE DEF now
<1>4. PICK new \in Chat : new = now /\ ChatSound(new) /\ new.shown = saved.board
  BY <1>2
<1>5. chat' = new
  BY <1>3, <1>4
<1>6. ChatSound(new)'
  BY <1>3, <1>4 DEF ChatSound
<1>7. QED
  BY <1>4, <1>5, <1>6, ChatNext

\* Few steps touch the canvas's row or the chat.
LEMMA FewTouch ==
  ASSUME Next
  PROVE  \/ UNCHANGED <<saved, chat>>
         \/ \E p \in Pages : WriteBoard(p) /\ Wins(page[p].save)
         \/ UNCHANGED saved /\ \E p \in Pages : \/ SyncEdits(p) \/ Post(p)
                                                \/ \E n \in Notes : Refuse(p, n)
<1>1. PICK p \in Pages :
        \/ PageStep(p)
        \/ Load(p) \/ Hide(p) \/ Leave(p) \/ Close(p) \/ Ask(p)
        \/ \E s \in Strokes : Draw(p, s) \/ Change(p, s)
        \/ \E e \in Elements : TakeAway(p, e)
        \/ \E n \in Notes : Place(p, n) \/ Refuse(p, n)
        \/ SaveFails(p) \/ SyncFails(p) \/ StreamBreaks(p)
  BY DEF Next
<1>2. CASE TimerFires(p) \/ CheckVersion(p) \/ Answered(p)
  BY <1>2 DEF TimerFires, CheckVersion, Answered
<1>3. CASE WriteBoard(p)
  BY <1>3 DEF WriteBoard
<1>4. CASE Open(p) \/ SyncArrives(p) \/ Flushed(p) \/ EndReply(p) \/ ReplyRead(p)
  BY <1>4 DEF Open, SyncArrives, Flushed, EndReply, ReplyRead
<1>5. CASE SyncEdits(p)
  BY <1>5, Zenon DEF SyncEdits
<1>6. CASE Post(p)
  BY <1>6, Zenon DEF Post
<1>7. CASE \E n \in Notes : NoteArrives(p, n)
  BY <1>7 DEF NoteArrives
<1>8. CASE Load(p) \/ Hide(p) \/ Leave(p) \/ Close(p) \/ Ask(p)
  BY <1>8 DEF Load, Hide, Leave, Close, Ask
<1>9. CASE \E s \in Strokes : Draw(p, s) \/ Change(p, s)
  BY <1>9 DEF Draw, Change, Gesture
<1>10. CASE \E e \in Elements : TakeAway(p, e)
  BY <1>10 DEF TakeAway, Gesture
<1>11. CASE \E n \in Notes : Place(p, n)
  BY <1>11 DEF Place
<1>12. CASE \E n \in Notes : Refuse(p, n)
  BY <1>12 DEF Refuse
<1>13. CASE SaveFails(p) \/ SyncFails(p) \/ StreamBreaks(p)
  BY <1>13 DEF SaveFails, SyncFails, StreamBreaks
<1>14. QED
  BY <1>1, <1>2, <1>3, <1>4, <1>5, <1>6, <1>7, <1>8, <1>9, <1>10, <1>11, <1>12, <1>13
     DEF PageStep

LEMMA ChatKept ==
  ASSUME PagesInv, ChatInv, Next
  PROVE  ChatInv'
<1>1. saved \in Saved /\ chat.there \in BOOLEAN
  BY DEF PagesInv, ChatInv, Chat
<1>2. CASE UNCHANGED <<saved, chat>>
  BY <1>1, <1>2, ChatStill
<1>3. ASSUME NEW p \in Pages, WriteBoard(p), Wins(page[p].save) PROVE ChatInv'
  <2>1. saved' \in Saved /\ saved'.version = saved.version + 1 /\ UNCHANGED chat
    BY <1>3, WriteStores
  <2>2. QED
    BY <1>1, <2>1, ChatStill
<1>4. ASSUME NEW p \in Pages, SyncEdits(p) PROVE ChatInv'
  <2>1. UNCHANGED saved /\ chat' = IF chat.there THEN Synced(chat) ELSE chat
    BY <1>4 DEF SyncEdits
  <2>2. CASE chat.there = TRUE
    BY <1>1, <2>1, <2>2, ChatSyncs
  <2>3. CASE chat.there = FALSE
    BY <1>1, <2>1, <2>3, ChatStill
  <2>4. QED
    BY <1>1, <2>2, <2>3
<1>5. ASSUME NEW p \in Pages, Post(p) PROVE ChatInv'
  BY <1>1, <1>5, PostSound
<1>6. ASSUME NEW p \in Pages, NEW n \in Notes, Refuse(p, n) PROVE ChatInv'
  <2>1. UNCHANGED saved /\ chat' = Synced(chat) /\ chat.there = TRUE
    BY <1>1, <1>6 DEF Refuse
  <2>2. QED
    BY <1>1, <2>1, ChatSyncs
<1>7. QED
  BY <1>2, <1>3, <1>4, <1>5, <1>6, FewTouch

\* Only the message itself takes a page from asking to reading the reply.
LEMMA OnlyPostAsks ==
  ASSUME PagesInv, Next, NEW p \in Pages, page[p].ask = "posting", page'[p].ask = "reading"
  PROVE  Post(p)
<1>1. PICK q \in Pages :
        \/ PageStep(q)
        \/ Load(q) \/ Hide(q) \/ Leave(q) \/ Close(q) \/ Ask(q)
        \/ \E s \in Strokes : Draw(q, s) \/ Change(q, s)
        \/ \E e \in Elements : TakeAway(q, e)
        \/ \E n \in Notes : Place(q, n) \/ Refuse(q, n)
        \/ SaveFails(q) \/ SyncFails(q) \/ StreamBreaks(q)
  BY DEF Next
<1>2. PICK pg \in Page : pg = page[q] /\ Sound(q, pg)
  BY PageNow
<1>3. pg.at \in {"unopened", "loading", "closed"} => pg.ask = "no"
  BY <1>2 DEF Sound, Resting
<1>4. page \in [Pages -> Page]
  BY DEF PagesInv
<1>5. ASSUME NEW new, PageBecomes(q, new), pg.ask = "posting" => new.ask # "reading" PROVE FALSE
  <2>1. page'[q] = new /\ \A o \in Pages \ {q} : page'[o] = page[o]
    BY <1>4, <1>5 DEF PageBecomes
  <2>2. QED
    BY <1>2, <1>5, <2>1
<1>6. ASSUME TimerFires(q) PROVE FALSE
  <2>1. PageBecomes(q, IF pg.timer = "armed" THEN Requested(pg) ELSE [pg EXCEPT !.timer = "none"])
    BY <1>2, <1>6 DEF TimerFires
  <2>2. CASE pg.timer = "armed"
    <3>1. Requested(pg).ask = pg.ask
      BY RequestedLeaves DEF SameAsk
    <3>2. QED
      BY <1>5, <2>1, <2>2, <3>1
  <2>3. CASE pg.timer # "armed"
    <3>1. [pg EXCEPT !.timer = "none"].ask = pg.ask
      BY DEF Page
    <3>2. QED
      BY <1>5, <2>1, <2>3, <3>1
  <2>4. QED
    BY <2>2, <2>3
<1>7. ASSUME CheckVersion(q) \/ WriteBoard(q) \/ SaveFails(q) PROVE FALSE
  <2>1. PICK x \in {"checked", "ok", "stale", "failed"} : PageBecomes(q, Got(pg, x))
    BY <1>2, <1>7 DEF CheckVersion, WriteBoard, SaveFails, Got
  <2>2. Got(pg, x).ask = pg.ask
    BY SaveMoves DEF SameAsk
  <2>3. QED
    BY <1>5, <2>1, <2>2
<1>8. ASSUME Answered(q) PROVE FALSE
  <2>1. pg.save.at \in {"ok", "stale", "failed"}
    BY <1>2, <1>8 DEF Answered
  <2>2. PICK now \in Page :
          /\ SameAsk(now, pg)
          /\ PageBecomes(q, IF pg.again THEN Sent(Over(now)) ELSE Over(now))
    <3> DEFINE warned == [pg EXCEPT !.conflict = TRUE]
    <3>1. CASE pg.save.at = "ok"
      <4>1. Confirmed(pg) \in Page /\ SameAsk(Confirmed(pg), pg)
        BY ConfirmedLeaves
      <4>2. PageBecomes(q, IF pg.again THEN Sent(Over(Confirmed(pg))) ELSE Over(Confirmed(pg)))
        BY <1>2, <1>8, <3>1 DEF Answered, Over
      <4>3. QED
        BY <4>1, <4>2
    <3>2. CASE pg.save.at = "stale"
      <4>1. warned \in Page /\ SameAsk(warned, pg)
        BY DEF Page, SameAsk
      <4>2. PageBecomes(q, IF pg.again THEN Sent(Over(warned)) ELSE Over(warned))
        BY <1>2, <1>8, <3>2 DEF Answered, Over
      <4>3. QED
        BY <4>1, <4>2
    <3>3. CASE pg.save.at = "failed"
      <4>1. PageBecomes(q, IF pg.again THEN Sent(Over(pg)) ELSE Over(pg))
        BY <1>2, <1>8, <3>3 DEF Answered, Over
      <4>2. QED
        BY <4>1 DEF SameAsk
    <3>4. QED
      BY <2>1, <3>1, <3>2, <3>3
  <2>3. PICK over \in Page : over = Over(now) /\ SameAsk(over, now)
    BY OverLeaves
  <2>4. Sent(over).ask = over.ask
    BY SentLeaves DEF SameAsk
  <2>5. QED
    BY <1>5, <2>2, <2>3, <2>4 DEF SameAsk
<1>9. ASSUME Load(q) \/ Open(q) \/ Close(q) \/ Ask(q) PROVE FALSE
  <2>1. CASE Load(q)
    <3>1. pg.ask = "no"
      BY <1>2, <1>3, <2>1 DEF Load
    <3>2. QED
      BY <1>5, <2>1, <3>1 DEF Load
  <2>2. CASE Open(q)
    <3>1. pg.ask = "no"
      BY <1>2, <1>3, <2>2 DEF Open
    <3>2. QED
      BY <1>5, <2>2, <3>1 DEF Open
  <2>3. CASE Close(q)
    <3>1. PICK s, r : PageBecomes(q, [Unopened EXCEPT !.at = "closed", !.save = s, !.reply = r])
      BY <2>3, Zenon DEF Close
    <3>2. [Unopened EXCEPT !.at = "closed", !.save = s, !.reply = r].ask = "no"
      BY DEF Unopened
    <3>3. QED
      BY <1>5, <3>1, <3>2
  <2>4. CASE Ask(q)
    <3>1. pg.ask = "no"
      BY <1>2, <2>4 DEF Ask
    <3>2. QED
      BY <1>5, <2>4, <3>1 DEF Ask
  <2>5. QED
    BY <1>9, <2>1, <2>2, <2>3, <2>4
<1>10. ASSUME NEW e \in Elements, NEW c \in 1 .. 3, Gesture(q, e, c) PROVE FALSE
  <2> DEFINE board == [pg.board EXCEPT ![e] = c]
             drawn == [pg EXCEPT !.board = board]
  <2>1. board \in Board
    BY DEF Page, Board
  <2>2. [pg EXCEPT !.board[e] = c] = drawn
    OBVIOUS
  <2>3. PageBecomes(q, Scheduled([pg EXCEPT !.board[e] = c]))
    BY <1>2, <1>10 DEF Gesture
  <2> HIDE DEF board
  <2>4. drawn \in Page /\ drawn.ask = pg.ask
    BY <2>1 DEF Page
  <2>5. PageBecomes(q, Scheduled(drawn))
    BY <2>2, <2>3
  <2> HIDE DEF drawn
  <2>6. Scheduled(drawn).ask = pg.ask
    BY <2>4, ScheduledLeaves DEF SameAsk
  <2>7. QED
    BY <1>5, <2>5, <2>6
<1>11. ASSUME Hide(q) \/ Leave(q) PROVE FALSE
  <2>1. PICK now \in Page : now.ask = pg.ask /\ PageBecomes(q, Requested(now))
    <3>1. CASE Hide(q)
      BY <1>2, <3>1 DEF Hide
    <3>2. CASE Leave(q)
      <4> DEFINE gone == [pg EXCEPT !.at = "left"]
      <4>1. gone \in Page /\ gone.ask = pg.ask
        BY DEF Page
      <4>2. PageBecomes(q, Requested(gone))
        BY <1>2, <3>2 DEF Leave
      <4>3. QED
        BY <4>1, <4>2
    <3>3. QED
      BY <1>11, <3>1, <3>2
  <2>2. Requested(now).ask = now.ask
    BY RequestedLeaves DEF SameAsk
  <2>3. QED
    BY <1>5, <2>1, <2>2
<1>12. ASSUME SyncEdits(q) PROVE FALSE
  <2>1. PICK given, has : PageBecomes(q, [pg EXCEPT !.sync = "answered", !.given = given, !.hasChat = has])
    BY <1>2, <1>12, Zenon DEF SyncEdits
  <2>2. [pg EXCEPT !.sync = "answered", !.given = given, !.hasChat = has].ask = pg.ask
    BY DEF Page
  <2>3. QED
    BY <1>5, <2>1, <2>2
<1>13. ASSUME SyncArrives(q) \/ SyncFails(q) PROVE FALSE
  <2>1. PICK now \in Page : now.ask = pg.ask /\ PageBecomes(q, SyncOver(now))
    <3>1. CASE SyncFails(q)
      BY <1>2, <3>1 DEF SyncFails
    <3>2. CASE SyncArrives(q)
      <4>1. PICK S \in SUBSET Notes : S = pg.given
        BY DEF Page
      <4>2. PICK took \in Page : took = Taking(pg, S) /\ SameAsk(took, pg)
        BY TakingLeaves
      <4>3. PageBecomes(q, SyncOver(took))
        BY <1>2, <3>2, <4>1, <4>2 DEF SyncArrives
      <4>4. QED
        BY <4>2, <4>3 DEF SameAsk
    <3>3. QED
      BY <1>13, <3>1, <3>2
  <2>2. SyncOver(now).ask = now.ask
    BY SyncOverLeaves DEF SameAsk
  <2>3. QED
    BY <1>5, <2>1, <2>2
<1>14. ASSUME Flushed(q) PROVE FALSE
  <2>1. pg.ask = "flushing"
    BY <1>2, <1>14 DEF Flushed
  <2>2. QED
    BY <1>5, <1>14, <2>1 DEF Flushed
<1>15. ASSUME (\E n \in Notes : Refuse(q, n)) \/ ReplyRead(q) \/ StreamBreaks(q) PROVE FALSE
  <2>1. PageBecomes(q, AskOver(pg))
    BY <1>2, <1>15 DEF Refuse, ReplyRead, StreamBreaks
  <2>2. AskOver(pg).ask = "no"
    BY AskOverLeaves
  <2>3. QED
    BY <1>5, <2>1, <2>2
<1>16. ASSUME NEW n \in Notes, Place(q, n) PROVE FALSE
  <2>1. PICK wire : PageBecomes(q, [pg EXCEPT !.wire = wire])
    BY <1>2, <1>16 DEF Place
  <2>2. [pg EXCEPT !.wire = wire].ask = pg.ask
    BY DEF Page
  <2>3. QED
    BY <1>5, <2>1, <2>2
<1>17. ASSUME EndReply(q) PROVE FALSE
  <2>1. PageBecomes(q, [pg EXCEPT !.reply = "none"])
    BY <1>2, <1>17 DEF EndReply
  <2>2. [pg EXCEPT !.reply = "none"].ask = pg.ask
    BY DEF Page
  <2>3. QED
    BY <1>5, <2>1, <2>2
<1>18. ASSUME NEW n \in Notes, NoteArrives(q, n) PROVE FALSE
  <2> DEFINE left == pg.wire \ {n}
             read == [pg EXCEPT !.wire = left]
  <2>1. PageBecomes(q, Taking(read, {n}))
    BY <1>2, <1>18 DEF NoteArrives
  <2>2. left \in SUBSET Notes
    BY DEF Page
  <2>3. read \in Page /\ read.ask = pg.ask
    BY <2>2 DEF Page
  <2> HIDE DEF read
  <2>4. PICK S \in SUBSET Notes : S = {n}
    OBVIOUS
  <2>5. Taking(read, S).ask = read.ask
    BY <2>3, TakingLeaves DEF SameAsk
  <2>6. QED
    BY <1>5, <2>1, <2>3, <2>4, <2>5
<1>19. ASSUME (\E s \in Strokes : Draw(q, s) \/ Change(q, s)) \/ (\E e \in Elements : TakeAway(q, e))
       PROVE  FALSE
  <2>1. \A s \in Strokes : s \in Elements
    BY DEF Elements
  <2>2. PICK e \in Elements, c \in 1 .. 3 : Gesture(q, e, c)
    BY <1>19, <2>1 DEF Draw, Change, TakeAway
  <2>3. QED
    BY <1>10, <2>2
<1>20. CASE Post(q)
  <2>1. page'[p] = page[p] \/ q = p
    BY <1>4, <1>20 DEF Post, PageBecomes
  <2>2. QED
    BY <1>20, <2>1
<1>21. QED
  BY <1>1, <1>6, <1>7, <1>8, <1>9, <1>11, <1>12, <1>13, <1>14, <1>15, <1>16, <1>17, <1>18,
     <1>19, <1>20 DEF PageStep

-----------------------------------------------------------------------------
(* The theorems. *)

\* The inductive invariant: every page is sound (PageSound), and the chat's snapshot is
\* of a board that was saved and its log told up to it (ChatInv).
THEOREM CanvasInvariant == Spec => []IInv
<1>1. Init => IInv
  BY InitPages, InitChat DEF IInv
<1>2. IInv /\ [Next]_vars => IInv'
  <2> SUFFICES ASSUME IInv, [Next]_vars
               PROVE  IInv'
    OBVIOUS
  <2>1. CASE Next
    BY <2>1, PagesNext, ChatKept DEF IInv
  <2>2. CASE UNCHANGED vars
    <3>1. PagesInv' /\ UNCHANGED <<saved, chat>>
      BY <2>2, PagesStill DEF IInv, vars
    <3>2. ChatInv'
      BY <3>1, ChatStill DEF IInv, PagesInv
    <3>3. QED
      BY <3>1, <3>2 DEF IInv
  <2>3. QED
    BY <2>1, <2>2
<1>3. QED
  BY <1>1, <1>2, PTL DEF Spec

\* The canvas's row, its notes, its chat and log, and what each page holds and waits for
\* keep their types, and the chat's snapshot is of a version that was saved
\* (chatServer.ts:66-90).
THEOREM TypesCorrect == Spec => []TypeOK
<1>1. IInv => TypeOK
  <2> SUFFICES ASSUME IInv
               PROVE  TypeOK
    OBVIOUS
  <2>1. saved.version \in Nat \ {0} /\ saved.board \in Board /\ saved.by \in Pages \cup {Nobody}
    BY DEF IInv, PagesInv, Saved
  <2>2. /\ chat.there \in BOOLEAN /\ chat.version \in Nat /\ chat.version <= saved.version
        /\ chat.shown \in Board /\ chat.log \in Seq(Entry) /\ chat.board \in [Elements -> 0 .. 2]
    BY DEF IInv, ChatInv, Chat
  <2>3. chat.board \in Board
    BY <2>2 DEF Board
  <2>4. \A k \in DOMAIN chat.log : chat.log[k] \in Entry
    BY <2>2, LenProperties, ElementOfSeq
  <2>5. chat.version \in 0 .. saved.version
    BY <2>1, <2>2
  <2>6. QED
    BY <2>1, <2>2, <2>3, <2>4, <2>5 DEF TypeOK, IInv, PagesInv, Entry
<1>2. QED
  BY <1>1, CanvasInvariant, PTL

\* "This canvas changed elsewhere" is only said when it did: while no request was lost,
\* a page that was told of a conflict is not the one that wrote the row, however its
\* saves are bunched (saveQueue.ts:5-10).
THEOREM ConflictsOfOthers == Spec => []ConflictsAreReal
<1>1. IInv => ConflictsAreReal
  <2> SUFFICES ASSUME IInv, NoFault, NEW p \in Pages, page[p].conflict
               PROVE  saved.by # p
    BY DEF ConflictsAreReal
  <2>1. PICK pg \in Page : pg = page[p] /\ Sound(p, pg)
    BY PageNow DEF IInv
  <2>2. pg.conflict = TRUE
    BY <2>1 DEF Page
  <2>3. pg.at \in {"open", "left"}
    BY <2>1, <2>2 DEF Sound, Resting
  <2>4. QED
    BY <2>1, <2>2, <2>3 DEF Sound, AuthorSound
<1>2. QED
  BY <1>1, CanvasInvariant, PTL

\* Nothing on the saved board goes back: the compare-and-swap lets through only the save
\* of a page that has the version that is saved (actions.ts:29-34), and such a page has a
\* board that is as far (chatServer.ts:101-105).
THEOREM NothingGoesBack == Spec => SavesGoForward
<1>1. IInv /\ [Next]_vars => [\A e \in Elements : saved.board[e] <= saved'.board[e]]_vars
  <2> SUFFICES ASSUME IInv, Next
               PROVE  \A e \in Elements : saved.board[e] <= saved'.board[e]
    OBVIOUS
  <2>1. ASSUME NEW p \in Pages, WriteBoard(p), Wins(page[p].save)
        PROVE  \A e \in Elements : saved.board[e] <= saved'.board[e]
    BY <2>1, WriteStores DEF IInv, Reaches
  <2>2. CASE UNCHANGED saved
    BY <2>2 DEF IInv, PagesInv, Saved, Board
  <2>3. QED
    BY <2>1, <2>2, FewTouch
<1>2. QED
  BY <1>1, CanvasInvariant, PTL DEF Spec, SavesGoForward

\* The tutor is asked about the board as the student sees it on sending, or a newer one
\* (CanvasView.tsx:160-164): what was there when the student sent the message is saved by
\* the time no save is in flight, which is when it is posted.
THEOREM QuestionsAreOfWhatIsSeen == Spec => AskedOnSavedBoard
<1> DEFINE Asked == \A p \in Pages :
             page[p].ask = "posting" /\ page'[p].ask = "reading" /\ ~page[p].conflict /\ NoFault =>
               \A e \in Elements : page[p].asked[e] <= chat'.shown[e]
<1>1. IInv /\ [Next]_vars => [Asked]_vars
  <2> SUFFICES ASSUME IInv, Next, NEW p \in Pages, page[p].ask = "posting",
                      page'[p].ask = "reading", ~page[p].conflict, NoFault
               PROVE  \A e \in Elements : page[p].asked[e] <= chat'.shown[e]
    OBVIOUS
  <2>1. Post(p)
    BY OnlyPostAsks DEF IInv
  <2>2. chat'.shown = saved.board
    BY <2>1, PostSound DEF IInv, PagesInv
  <2>3. PICK pg \in Page : pg = page[p] /\ Sound(p, pg)
    BY PageNow DEF IInv
  <2>4. pg.conflict = FALSE /\ pg.at \in {"open", "left"} /\ pg.ask = "posting"
    BY <2>1, <2>3 DEF Page, Post, Alive
  <2>5. Reaches(saved.board, pg.asked)
    BY <2>3, <2>4 DEF Sound, AskSound
  <2>6. QED
    BY <2>2, <2>3, <2>5 DEF Reaches
<1>2. QED
  BY <1>1, CanvasInvariant, PTL DEF Spec, AskedOnSavedBoard

\* The entries since the newest message tell every change from the board the tutor was
\* shown with it to the board as the log last saw it, however the saves bunch them and
\* the entries fold (editLog.ts:2-13, chatServer.ts:79-90).
THEOREM LogIsWhole == Spec => []LogTellsEachChange
<1>1. IInv => LogTellsEachChange
  BY DEF IInv, ChatInv
<1>2. QED
  BY <1>1, CanvasInvariant, PTL
=============================================================================
