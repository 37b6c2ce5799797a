------------------------------ MODULE CanvasBoard ------------------------------
(***************************************************************************)
(* One student's whiteboard, open on several pages at once: the save       *)
(* serializer and the compare-and-swap on the version                      *)
(* (apps/web/lib/canvas/saveQueue.ts, actions.ts), the tutor's notes kept  *)
(* until a save acknowledges them (aiEdits.ts, chatServer.ts), and the     *)
(* canvas chat with its edit log (useCanvasChat.ts, editLog.ts).  A page   *)
(* that was left goes on saving and syncing.                               *)
(*                                                                         *)
(* A board gives each element how far it has come: 0 not there yet, 1 put  *)
(* there, 2 changed, 3 taken away.  The program knows only whether it is   *)
(* there; ids are never used again.                                        *)
(***************************************************************************)
EXTENDS Naturals, Sequences, FiniteSets, FiniteSetsExt, SequencesExt

CONSTANTS
  Pages,       \* mounts of CanvasView
  Strokes,     \* what the student draws
  Notes,       \* the annotations the tutor's replies place
  Scenarios,   \* bounds, one record of them for each initial state
  Nobody

\* opening: the pages that may be opened; left: notes no page took.
Scenario ==
  [opening : SUBSET Pages, left : SUBSET Notes, gestures : Nat, asks : Nat, hides : Nat,
   leaves : Nat, faults : Nat, hadFaults : Nat]

ASSUME CanvasAssumption ==
  /\ Nobody \notin Pages
  /\ Strokes \cap Notes = {} /\ IsFiniteSet(Strokes) /\ IsFiniteSet(Notes)
  /\ \A b \in Scenarios : b \in Scenario /\ b.hadFaults = b.faults

VARIABLES
  saved,   \* the canvas's row, and whose save wrote it
  notes,   \* canvas_ai_edits
  chat,    \* the canvas's chat: its snapshot, the newest message, and the entries since
  page,    \* what each page holds and waits for
  bound    \* what is left of each bound

vars == <<saved, notes, chat, page, bound>>

-----------------------------------------------------------------------------
Elements   == Strokes \cup Notes
Board      == [Elements -> 0 .. 3]
Blank      == [e \in Elements |-> 0]
OnBoard(b) == {e \in Elements : b[e] \in {1, 2}}

\* acks: aiApplied
Save   == [at : {"none", "sent", "checked", "ok", "stale", "failed"}, board : Board,
           expected : Nat, acks : SUBSET Notes]
NoSave == [at |-> "none", board |-> Blank, expected |-> 0, acks |-> {}]

\* timer: "mute" when it was set after a conflict was shown; again: a save is to
\* follow the one in flight; taken, unsaved: aiTakenRef, aiUnsavedRef; given: what
\* a sync hands back; asked: the board when the student sent; wire: notes on the
\* reply's stream.
Page ==
  [at : {"unopened", "loading", "open", "left", "closed"}, board : Board, version : Nat,
   timer : {"none", "armed", "mute"}, again : BOOLEAN, save : Save, conflict : BOOLEAN,
   taken : SUBSET Notes, unsaved : SUBSET Notes,
   hasChat : {"unknown", "no", "yes"}, sync : {"none", "asked", "answered"}, syncAgain : BOOLEAN,
   given : SUBSET Notes, ask : {"no", "flushing", "posting", "reading"}, asked : Board,
   reply : {"none", "generating"}, wire : SUBSET Notes]

Unopened ==
  [at |-> "unopened", board |-> Blank, version |-> 0, timer |-> "none", again |-> FALSE,
   save |-> NoSave, conflict |-> FALSE, taken |-> {}, unsaved |-> {}, hasChat |-> "unknown",
   sync |-> "none", syncAgain |-> FALSE, given |-> {}, ask |-> "no", asked |-> Blank,
   reply |-> "none", wire |-> {}]

TypeOK ==
  /\ saved.version \in Nat \ {0} /\ saved.board \in Board /\ saved.by \in Pages \cup {Nobody}
  /\ notes \in [Notes -> {"unplaced", "pending", "applied"}]
  /\ chat.there \in BOOLEAN /\ chat.version \in 0 .. saved.version /\ chat.board \in Board
  /\ chat.shown \in Board
  /\ \A k \in DOMAIN chat.log :
       chat.log[k] \in [of : Elements, before : 0 .. 2, after : 0 .. 2]
  /\ page \in [Pages -> Page]

\* A blank canvas, or one whose chat has placed notes that no page took.
Init ==
  /\ bound \in Scenarios
  /\ saved = [version |-> 1, board |-> Blank, by |-> Nobody]
  /\ notes = [n \in Notes |-> IF n \in bound.left THEN "pending" ELSE "unplaced"]
  /\ chat = [there |-> bound.left # {}, version |-> IF bound.left = {} THEN 0 ELSE 1,
             board |-> Blank, shown |-> Blank, log |-> <<>>]
  /\ page = [p \in Pages |-> Unopened]

Alive(p) == page[p].at \in {"open", "left"}
Pending  == {n \in Notes : notes[n] = "pending"}

Spend(b)        == bound[b] > 0 /\ bound' = [bound EXCEPT ![b] = @ - 1]
PageBecomes(p, pg) == page' = [page EXCEPT ![p] = pg]

-----------------------------------------------------------------------------
(* Saving: scheduleSave, requestSaveNow, createSaveSerializer. *)

Scheduled(pg) == [pg EXCEPT !.timer = IF pg.conflict THEN "mute" ELSE "armed"]

\* The arguments are taken when the save runs.
Sent(pg) == [pg EXCEPT !.save = [at |-> "sent", board |-> pg.board,
                                 expected |-> pg.version, acks |-> pg.unsaved]]

\* Mutant of Requested: a save requested during another is dropped.
RequestedIfIdle(pg) ==
  IF pg.save.at # "none" THEN [pg EXCEPT !.timer = "none"] ELSE Sent([pg EXCEPT !.timer = "none"])

Requested(pg) ==
  IF pg.save.at # "none" THEN [pg EXCEPT !.timer = "none", !.again = TRUE]
  ELSE Sent([pg EXCEPT !.timer = "none"])

TimerFires(p) ==
  /\ Alive(p) /\ page[p].timer # "none"
  /\ PageBecomes(p, IF page[p].timer = "armed" THEN Requested(page[p])
                    ELSE [page[p] EXCEPT !.timer = "none"])
  /\ UNCHANGED <<saved, notes, chat, bound>>

\* saveCanvasAction up to its first answer.
CheckVersion(p) ==
  /\ page[p].save.at = "sent"
  /\ PageBecomes(p, [page[p] EXCEPT !.save.at =
       IF saved.version = page[p].save.expected THEN "checked" ELSE "stale"])
  /\ UNCHANGED <<saved, notes, chat, bound>>

\* Mutant of Wins: the update does not check the version again.
WinsAnyway(s) == s.at = "checked"

\* The update's WHERE.
Wins(s) == s.at = "checked" /\ saved.version = s.expected

Acknowledged(s) == s.acks \cup (Notes \cap OnBoard(s.board))

\* The transaction: the row, and the notes it acknowledges.
WriteBoard(p) ==
  /\ page[p].save.at = "checked"
  /\ LET s == page[p].save IN
     IF Wins(s)
     THEN /\ saved' = [version |-> s.expected + 1, board |-> s.board, by |-> p]
          /\ notes' = [n \in Notes |->
               IF n \in Pending \cap Acknowledged(s) THEN "applied" ELSE notes[n]]
          /\ PageBecomes(p, [page[p] EXCEPT !.save.at = "ok"])
     ELSE /\ PageBecomes(p, [page[p] EXCEPT !.save.at = "stale"])
          /\ UNCHANGED <<saved, notes>>
  /\ UNCHANGED <<chat, bound>>

\* The request or its answer is lost.
SaveFails(p) ==
  /\ page[p].save.at \in {"sent", "checked", "ok"} /\ Spend("faults")
  /\ PageBecomes(p, [page[p] EXCEPT !.save.at = "failed"])
  /\ UNCHANGED <<saved, notes, chat>>

\* syncEdits: nothing when there is no chat; one request at a time.
Syncing(pg) ==
  IF pg.hasChat = "no" THEN pg
  ELSE IF pg.sync # "none" THEN [pg EXCEPT !.syncAgain = TRUE]
  ELSE [pg EXCEPT !.sync = "asked"]

\* Mutant of Confirmed: the version is left for the next page load to learn.
ConfirmedOnly(pg) ==
  LET now == [pg EXCEPT !.unsaved = @ \ pg.save.acks, !.conflict = FALSE]
  IN  IF now.timer = "none" THEN Syncing(now) ELSE now

\* The log is synced unless more edits wait to be saved.
Confirmed(pg) ==
  LET now == [pg EXCEPT !.version = pg.save.expected + 1, !.unsaved = @ \ pg.save.acks,
                        !.conflict = FALSE]
  IN  IF now.timer = "none" THEN Syncing(now) ELSE now

\* performSave ends, and the save that waited runs, whatever the outcome was.
Answered(p) ==
  /\ Alive(p) /\ page[p].save.at \in {"ok", "stale", "failed"}
  /\ LET pg   == page[p]
         now  == CASE pg.save.at = "ok"     -> Confirmed(pg)
                   [] pg.save.at = "stale"  -> [pg EXCEPT !.conflict = TRUE]
                   [] pg.save.at = "failed" -> pg
         over == [now EXCEPT !.save = NoSave, !.again = FALSE]
     IN  PageBecomes(p, IF pg.again THEN Sent(over) ELSE over)
  /\ UNCHANGED <<saved, notes, chat, bound>>

-----------------------------------------------------------------------------
(* The tutor's notes: applyFromAI, applyAIElements. *)

\* Each note once a page, on top of the board, and the next save acknowledges it.
Taking(pg, S) ==
  LET fresh == S \ pg.taken
      added == fresh \ OnBoard(pg.board)
      now   == [pg EXCEPT !.taken = @ \cup fresh, !.unsaved = @ \cup fresh,
                          !.board = [e \in Elements |-> IF e \in added THEN 1 ELSE @[e]]]
  IN  IF added = {} THEN now ELSE Scheduled(now)

\* The page's request reads the row, and then the notes that are pending.
Load(p) ==
  /\ page[p].at = "unopened" /\ p \in bound.opening
  /\ PageBecomes(p, [Unopened EXCEPT !.at = "loading", !.board = saved.board,
                                     !.version = saved.version])
  /\ UNCHANGED <<saved, notes, chat, bound>>

Open(p) ==
  /\ page[p].at = "loading"
  /\ PageBecomes(p, Taking([page[p] EXCEPT !.at = "open"], Pending))
  /\ UNCHANGED <<saved, notes, chat, bound>>

-----------------------------------------------------------------------------
(* The student. *)

Gesture(p, e, c) ==
  /\ page[p].at = "open" /\ Spend("gestures")
  /\ PageBecomes(p, Scheduled([page[p] EXCEPT !.board[e] = c]))
  /\ UNCHANGED <<saved, notes, chat>>

Draw(p, s) ==
  /\ saved.board[s] = 0
  /\ \A q \in Pages : page[q].board[s] = 0 /\ page[q].save.board[s] = 0
  /\ Gesture(p, s, 1)

Change(p, s) == page[p].board[s] = 1 /\ Gesture(p, s, 2)

\* The eraser, the Delete key, clearing the canvas, or an undo.
TakeAway(p, e) == e \in OnBoard(page[p].board) /\ Gesture(p, e, 3)

\* visibilitychange: saves though nothing changed, and though there is a conflict.
Hide(p) ==
  /\ page[p].at = "open" /\ Spend("hides")
  /\ PageBecomes(p, Requested(page[p]))
  /\ UNCHANGED <<saved, notes, chat>>

\* Unmounted: saves likewise, and what is under way goes on.
Leave(p) ==
  /\ page[p].at = "open" /\ Spend("leaves")
  /\ PageBecomes(p, Requested([page[p] EXCEPT !.at = "left"]))
  /\ UNCHANGED <<saved, notes, chat>>

\* The tab is closed.  A save it sent may still be carried out, and a reply goes on.
Close(p) ==
  /\ page[p].at \in {"loading", "open", "left"} /\ Spend("leaves")
  /\ PageBecomes(p, [Unopened EXCEPT !.at = "closed", !.save = page[p].save, !.reply = page[p].reply])
  /\ UNCHANGED <<saved, notes, chat>>

-----------------------------------------------------------------------------
(* The edit log: diffSnapshots, mergeEdit, syncEditLog. *)

\* Mutant of Told: keeps what was erased.
ToldWhole(b) == b

\* What a snapshot tells of a board.
Told(b) == [e \in Elements |-> IF e \in OnBoard(b) THEN b[e] ELSE 0]

Edits(was, now) ==
  LET diff   == {e \in Elements : was[e] # now[e]}
      erased == {e \in diff : now[e] = 0}
  IN  [k \in 1 .. Cardinality(diff) |->
        LET e == (SetToSeq(erased) \o SetToSeq(diff \ erased))[k]
        IN  [of |-> e, before |-> was[e], after |-> now[e]]]

CarriesOn(prev, next) == prev.of = next.of /\ prev.after # 0 /\ next.after # 0

\* Mutant of Logged: the newer edit takes the place of the one it carries on from.
LoggedOver(log, edit) ==
  IF log # <<>> /\ CarriesOn(Last(log), edit) THEN [log EXCEPT ![Len(log)] = edit]
  ELSE Append(log, edit)

\* An edit that carries on from the newest message, an entry, is folded into it.
Logged(log, edit) ==
  IF log # <<>> /\ CarriesOn(Last(log), edit) THEN [log EXCEPT ![Len(log)].after = edit.after]
  ELSE Append(log, edit)

\* The loop over the edits, each of another element: none but the first can carry on
\* from the entry before it.
LoggedAll(log, edits) ==
  IF edits = <<>> THEN log ELSE Logged(log, Head(edits)) \o Tail(edits)

\* Under the chat's lock.  A chat with no snapshot only takes one.
Synced(c) ==
  IF c.version = saved.version THEN c
  ELSE [c EXCEPT !.version = saved.version, !.board = Told(saved.board),
                 !.log = IF c.version = 0 THEN @
                         ELSE LoggedAll(@, Edits(c.board, Told(saved.board)))]

\* POST edits
SyncEdits(p) ==
  /\ page[p].sync = "asked"
  /\ chat' = IF chat.there THEN Synced(chat) ELSE chat
  /\ PageBecomes(p, [page[p] EXCEPT !.sync = "answered", !.given = IF chat.there THEN Pending ELSE {},
                       !.hasChat = IF chat.there THEN @ ELSE "no"])
  /\ UNCHANGED <<saved, notes, bound>>

SyncOver(pg) ==
  LET over == [pg EXCEPT !.sync = "none", !.given = {}, !.syncAgain = FALSE]
  IN  IF pg.syncAgain THEN Syncing(over) ELSE over

SyncArrives(p) ==
  /\ Alive(p) /\ page[p].sync = "answered"
  /\ PageBecomes(p, SyncOver(Taking(page[p], page[p].given)))
  /\ UNCHANGED <<saved, notes, chat, bound>>

SyncFails(p) ==
  /\ Alive(p) /\ page[p].sync # "none" /\ Spend("faults")
  /\ PageBecomes(p, SyncOver(page[p]))
  /\ UNCHANGED <<saved, notes, chat>>

-----------------------------------------------------------------------------
(* The canvas chat: flushSave, send, POST chat, runCanvasTurn. *)

\* Mutant of Flushing: asks without saving first.
FlushingNothing(pg) == pg

Flushing(pg) ==
  IF pg.timer = "none" THEN pg
  ELSE IF pg.conflict THEN [pg EXCEPT !.timer = "none"] ELSE Requested(pg)

Ask(p) ==
  /\ page[p].at = "open" /\ page[p].ask = "no" /\ page[p].reply = "none" /\ Spend("asks")
  /\ PageBecomes(p, Flushing([page[p] EXCEPT !.ask = "flushing", !.asked = page[p].board]))
  /\ UNCHANGED <<saved, notes, chat>>

\* No save is in flight any more; and ensureLoaded.
Flushed(p) ==
  /\ Alive(p) /\ page[p].ask = "flushing" /\ page[p].save.at = "none"
  /\ PageBecomes(p, [page[p] EXCEPT !.ask = "posting", !.hasChat =
       IF @ = "unknown" THEN (IF chat.there THEN "yes" ELSE "no") ELSE @])
  /\ UNCHANGED <<saved, notes, chat, bound>>

\* The log catches up and the message goes in, in one transaction; canvas_context
\* tells the page that there is a chat.
Post(p) ==
  /\ Alive(p) /\ page[p].ask = "posting" /\ page[p].sync = "none"
  /\ chat' = LET c == Synced([chat EXCEPT !.there = TRUE]) IN
             [c EXCEPT !.shown = saved.board, !.log = <<>>]
  /\ PageBecomes(p, [page[p] EXCEPT !.ask = "reading", !.asked = Blank, !.reply = "generating", !.hasChat = "yes"])
  /\ UNCHANGED <<saved, notes, bound>>

AskOver(pg) == Syncing([pg EXCEPT !.ask = "no", !.asked = Blank, !.wire = {}])

\* A reply to a note that is not on the saved board any more: a 404, and the log
\* has caught up all the same.
Refuse(p, n) ==
  /\ Alive(p) /\ page[p].ask = "posting" /\ page[p].sync = "none" /\ chat.there
  /\ n \in OnBoard(page[p].asked) \ OnBoard(saved.board)
  /\ chat' = Synced(chat)
  /\ PageBecomes(p, AskOver(page[p]))
  /\ UNCHANGED <<saved, notes, bound>>

\* annotate_canvas: recorded, then sent to the page if it still reads.
Place(p, n) ==
  /\ page[p].reply = "generating" /\ notes[n] = "unplaced"
  /\ notes' = [notes EXCEPT ![n] = "pending"]
  /\ PageBecomes(p, [page[p] EXCEPT !.wire = IF page[p].ask = "reading" THEN @ \cup {n} ELSE @])
  /\ UNCHANGED <<saved, chat, bound>>

EndReply(p) ==
  /\ page[p].reply = "generating"
  /\ PageBecomes(p, [page[p] EXCEPT !.reply = "none"])
  /\ UNCHANGED <<saved, notes, chat, bound>>

NoteArrives(p, n) ==
  /\ Alive(p) /\ n \in page[p].wire
  /\ PageBecomes(p, Taking([page[p] EXCEPT !.wire = @ \ {n}], {n}))
  /\ UNCHANGED <<saved, notes, chat, bound>>

ReplyRead(p) ==
  /\ Alive(p) /\ page[p].ask = "reading" /\ page[p].reply = "none" /\ page[p].wire = {}
  /\ PageBecomes(p, AskOver(page[p]))
  /\ UNCHANGED <<saved, notes, chat, bound>>

\* The connection breaks; the reply goes on without it.
StreamBreaks(p) ==
  /\ Alive(p) /\ page[p].ask = "reading" /\ Spend("faults")
  /\ PageBecomes(p, AskOver(page[p]))
  /\ UNCHANGED <<saved, notes, chat>>

-----------------------------------------------------------------------------
\* What happens by itself.
PageStep(p) ==
  \/ TimerFires(p) \/ CheckVersion(p) \/ WriteBoard(p) \/ Answered(p)
  \/ Open(p) \/ SyncEdits(p) \/ SyncArrives(p)
  \/ Flushed(p) \/ Post(p) \/ EndReply(p) \/ ReplyRead(p)
  \/ \E n \in Notes : NoteArrives(p, n)

Next ==
  \E p \in Pages :
    \/ PageStep(p)
    \/ Load(p) \/ Hide(p) \/ Leave(p) \/ Close(p) \/ Ask(p)
    \/ \E s \in Strokes : Draw(p, s) \/ Change(p, s)
    \/ \E e \in Elements : TakeAway(p, e)
    \/ \E n \in Notes : Place(p, n) \/ Refuse(p, n)
    \/ SaveFails(p) \/ SyncFails(p) \/ StreamBreaks(p)

Spec == Init /\ [][Next]_vars

\* Timers fire, the server answers what it is sent, and the page reads the answers.
FairSpec == Spec /\ \A p \in Pages : WF_vars(PageStep(p))

-----------------------------------------------------------------------------
(* Properties. *)

\* No request was lost so far.
NoFault == bound.faults = bound.hadFaults

\* "This canvas changed elsewhere" is only said when it did: a page's own saves,
\* however they are bunched, never conflict with each other (saveQueue.ts:5-10).
ConflictsAreReal == NoFault => \A p \in Pages : page[p].conflict => saved.by # p

\* Nothing on the saved board goes back: no save overwrites what another page saved
\* (actions.ts:29-34), and a note the student took away never comes back, from a
\* sync, from the stream or on another page (chatServer.ts:101-105).
SavesGoForward == [][\A e \in Elements : saved.board[e] <= saved'.board[e]]_vars

\* The tutor is asked about the board as the student sees it on sending, or a newer
\* one (CanvasView.tsx:160-164): on a page with no conflict, however its saves and
\* the tutor's notes interleave with the sending.
AskedOnSavedBoard ==
  [][\A p \in Pages : page[p].ask = "posting" /\ page'[p].ask = "reading"
                        /\ ~page[p].conflict /\ NoFault =>
       \A e \in Elements : page[p].asked[e] <= chat'.shown[e]]_vars

\* The entries since the newest message tell every change from the board the tutor was
\* shown with it to the board as the log last saw it, each from what it was to what it
\* became (editLog.ts:2-13), however the saves bunch them and the entries fold.
LogTellsEachChange ==
  chat.there => \A e \in Elements :
    LET told == {k \in DOMAIN chat.log : chat.log[k].of = e}
        was  == Told(chat.shown)[e]
    IN  IF told = {} THEN chat.board[e] = was
        ELSE /\ chat.log[Min(told)].before = was
             /\ chat.log[Max(told)].after = chat.board[e]
             /\ \A k \in told \ {Max(told)} :
                  chat.log[k].after = chat.log[Min({m \in told : m > k})].before

\* On a page that stays open, what the student did and the notes it took are saved in
\* the end, whatever was under way, unless there is a conflict or a request was lost:
\* one that was is not tried again before the next edit.
EditsAreSaved ==
  \A p \in Pages :
    LET ahead == page[p].unsaved # {} \/ \E e \in Elements : page[p].board[e] > saved.board[e]
    IN  page[p].at = "open" /\ ahead ~> page[p].at # "open" \/ ~ahead \/ page[p].conflict \/ ~NoFault
=============================================================================
