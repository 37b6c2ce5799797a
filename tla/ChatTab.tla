-------------------------------- MODULE ChatTab --------------------------------
(***************************************************************************)
(* One browser tab on one chat (apps/web/components/chat/ChatMain.tsx),    *)
(* composed with the server of ChatTurn: what send() reads of the POST's   *)
(* stream, the history it caches and fetches, and the reconnect streams    *)
(* it attaches to turns that are still streaming.  The component is never  *)
(* remounted when the student moves between chats, so a send(), a fetch    *)
(* and the reconnects go on while another chat is shown.                   *)
(***************************************************************************)
EXTENDS ChatTurn

VARIABLES
  here,      \* this chat is the one shown
  view,      \* what is shown of each turn's answer
  cache,     \* historyCache and its copy in sessionStorage
  fetch,     \* the history request in flight
  reader,    \* send()
  live,      \* liveTurnIdsRef
  attached   \* attachReconnect of each turn

tab     == <<here, view, cache, fetch, reader, live, attached>>
tabVars == <<vars, tab>>

-----------------------------------------------------------------------------
\* by: the id a turn is shown under; late: a history showed it as streaming to a tab
\* that had read its end already (nothing of the program, only for the properties)
View    == [by : {"none", "local id", "message id"}, streaming : BOOLEAN, late : BOOLEAN]
Hidden  == [by |-> "none", streaming |-> FALSE, late |-> FALSE]

\* A history: what it says of each answer, "none" for a turn that is not in it.
History == [Turns -> {"none", "streaming", "settled"}]
Nothing == [n \in Turns |-> "none"]
Loaded  == [n \in Turns |-> IF ~Stored(n) THEN "none"
                            ELSE IF row[n].status = "streaming" THEN "streaming" ELSE "settled"]

\* named, ended: message_start, and message_end or error, have been read
NoReader == [turns |-> {}, named |-> FALSE, ended |-> FALSE, next |-> "reading", rows |-> Nothing]

\* patched: its event has been handled and the stream is not closed yet;
\* lost: the connection broke, and the turn is left as it was until it is loaded again
Unattached == [at |-> "none", outcome |-> "none"]

TabTypeOK ==
  /\ here \in BOOLEAN /\ view \in [Turns -> View]
  /\ cache \in History
  /\ fetch.at \in {"none", "asked", "answered"} /\ fetch.rows \in History
  /\ reader.turns \subseteq Turns /\ reader.named \in BOOLEAN /\ reader.ended \in BOOLEAN
  /\ reader.next \in {"reading", "refetching", "refetched"} /\ reader.rows \in History
  /\ live \subseteq Turns
  /\ \A n \in Turns : attached[n].at \in {"none", "opening", "open", "answered", "patched", "lost"}

TabInit ==
  /\ Init
  /\ here = TRUE
  /\ view = [n \in Turns |-> Hidden]
  /\ cache = Nothing
  /\ fetch = [at |-> "none", rows |-> Nothing]
  /\ reader = NoReader /\ live = {}
  /\ attached = [n \in Turns |-> Unattached]

-----------------------------------------------------------------------------
(* send *)

Busy       == reader.turns # {}
Reading(n) == n \in reader.turns /\ reader.next = "reading"

\* patchTurn: nothing when no turn is shown under that id.
Patched(n, id, v) == view' = [view EXCEPT ![n] = IF @.by = id THEN v ELSE @]

ReaderId   == IF reader.named THEN "message id" ELSE "local id"
Settled(n) == Patched(n, ReaderId, [view[n] EXCEPT !.streaming = FALSE])

\* The finally block.
ReaderOver(n) ==
  /\ reader' = NoReader
  /\ live' = live \ {n}

\* The two turns are shown under local ids, and the POST goes out.
Send(n) ==
  /\ here /\ ~Busy
  /\ InsertQuestion(n)
  /\ view' = [view EXCEPT ![n] = [Hidden EXCEPT !.by = "local id", !.streaming = TRUE]]
  /\ reader' = [NoReader EXCEPT !.turns = {n}]
  /\ UNCHANGED <<here, cache, fetch, live, attached>>

\* message_start: the turn takes the message's id.
ReadStart(n) ==
  /\ Reading(n) /\ ~reader.named
  /\ post[n].next \notin {"insert answer", "register", "dead"}
  /\ At(n, "closed") => post[n].told # "nothing"
  /\ reader' = [reader EXCEPT !.named = TRUE]
  /\ live' = live \cup {n}
  /\ Patched(n, "local id", [view[n] EXCEPT !.by = "message id"])
  /\ UNCHANGED <<vars, here, cache, fetch, attached>>

\* message_end, or error: the turn is over for the student, the stream not yet.  It
\* comes once (a second error takes a save that fails after a loop that did, and
\* the tab is checked without database failures).
ReadEnd(n) ==
  /\ Reading(n) /\ reader.named /\ ~reader.ended
  /\ post[n].told # "nothing"
  /\ Settled(n)
  /\ reader' = [reader EXCEPT !.ended = TRUE]
  /\ UNCHANGED <<vars, here, cache, fetch, live, attached>>

\* The stream closes, and no turn is patched: refetchHistory first when the server
\* compacted.
StreamCloses(n) ==
  /\ Reading(n) /\ reader.ended /\ At(n, "closed")
  /\ \/ ReaderOver(n)
     \/ boundaries # <<>> /\ reader' = [reader EXCEPT !.next = "refetching"] /\ UNCHANGED live
  /\ UNCHANGED <<vars, here, view, cache, fetch, attached>>

\* The request failed, or the connection broke.
ReadFails(n) ==
  /\ Reading(n)
  /\ At(n, "dead") \/ (At(n, "closed") /\ post[n].told = "nothing")
  /\ Settled(n)
  /\ ReaderOver(n)
  /\ UNCHANGED <<vars, here, cache, fetch, attached>>

\* stop(): the reader ends at once; the server is told if the message's id is known.
StopSend(n) ==
  /\ here /\ Reading(n)
  /\ IF reader.named /\ Stored(n) /\ Registered(n) /\ ~post[n].aborted THEN Stop(n)
     ELSE UNCHANGED vars
  /\ Settled(n)
  /\ ReaderOver(n)
  /\ UNCHANGED <<here, cache, fetch, attached>>

-----------------------------------------------------------------------------
(* hydrate, fetchHistory, refetchHistory *)

ToAttach(rows) == {n \in Turns : rows[n] = "streaming"} \ live

\* A stream that has read the turn's end is still open, so the turn is in live.
EndRead(n) == (n \in reader.turns /\ reader.ended) \/ attached[n].at = "patched"

\* turnsFromHistory
Shown(rows) == [n \in Turns |-> IF rows[n] = "none" THEN Hidden
                ELSE [by |-> "message id", streaming |-> rows[n] = "streaming",
                      late |-> rows[n] = "streaming" /\ EndRead(n)]]

Attached(rows) == [n \in Turns |-> IF n \in ToAttach(rows) THEN [Unattached EXCEPT !.at = "opening"]
                                   ELSE attached[n]]

\* Mutant of Hydrate: no reconnect is attached.
HydrateOnly(rows) ==
  /\ view' = Shown(rows)
  /\ UNCHANGED <<attached, live>>

\* What is shown is replaced by the history, and a reconnect is attached to each
\* turn that is streaming in it, unless something drives that turn already.
Hydrate(rows) ==
  /\ view' = Shown(rows)
  /\ attached' = Attached(rows)
  /\ live' = live \cup ToAttach(rows)

\* A history asked for twice is one request.
Asked == IF fetch.at = "none" THEN [fetch EXCEPT !.at = "asked"] ELSE fetch

Leave ==
  /\ here
  /\ here' = FALSE
  /\ view' = [n \in Turns |-> Hidden]
  /\ UNCHANGED <<vars, cache, fetch, reader, live, attached>>

\* The cached history is shown at once, and the fetched one when it comes.
Return ==
  /\ ~here
  /\ here' = TRUE
  /\ fetch' = Asked
  /\ Hydrate(cache)
  /\ UNCHANGED <<vars, cache, reader>>

\* A new page: nothing of the old one is left but sessionStorage, and nobody hears
\* what its streams still say.
Reload ==
  /\ here' = FALSE
  /\ view' = [n \in Turns |-> Hidden]
  /\ fetch' = [at |-> "none", rows |-> Nothing]
  /\ reader' = NoReader /\ live' = {}
  /\ attached' = [n \in Turns |-> Unattached]
  /\ reconnect' = [n \in Turns |-> NoStream]
  /\ UNCHANGED <<timeline, deleted, row, boundaries, post, truncation, restarts, faults, cache>>

ReadAgain ==
  /\ reader.next = "refetching"
  /\ reader' = [reader EXCEPT !.next = "refetched", !.rows = Loaded]
  /\ UNCHANGED <<vars, here, view, cache, fetch, live, attached>>

\* Whatever chat is shown by now, and past the cache.
ShowAgain(n) ==
  /\ n \in reader.turns /\ reader.next = "refetched"
  /\ LET rows == reader.rows IN
     /\ view' = Shown(rows)
     /\ attached' = Attached(rows)
     /\ live' = (live \cup ToAttach(rows)) \ {n}
  /\ reader' = NoReader
  /\ UNCHANGED <<vars, here, cache, fetch>>

\* GET /api/chat/:id
ReadHistory ==
  /\ fetch.at = "asked"
  /\ fetch' = [at |-> "answered", rows |-> Loaded]
  /\ UNCHANGED <<vars, here, view, cache, reader, live, attached>>

\* Dropped when another chat is shown.
HistoryArrives ==
  /\ fetch.at = "answered"
  /\ fetch' = [at |-> "none", rows |-> Nothing]
  /\ IF here THEN cache' = fetch.rows /\ Hydrate(fetch.rows)
     ELSE UNCHANGED <<cache, view, attached, live>>
  /\ UNCHANGED <<vars, here, reader>>

-----------------------------------------------------------------------------
(* attachReconnect *)

\* The finally block.
Detach(n, at) ==
  /\ attached' = [attached EXCEPT ![n] = [Unattached EXCEPT !.at = at]]
  /\ live' = live \ {n}

\* The server confirms its LISTEN and reads later; a message that is gone is a 404.
Open(n) ==
  /\ attached[n].at = "opening"
  /\ IF Stored(n)
     THEN /\ Listen(n)
          /\ attached' = [attached EXCEPT ![n].at = "open"] /\ UNCHANGED live
     ELSE Detach(n, "lost") /\ UNCHANGED vars
  /\ UNCHANGED <<here, view, cache, fetch, reader>>

\* The server's side goes on; what it answers is on its way when it closes.
ServerAnswers(n) ==
  /\ Answer(n)
  /\ attached' = [attached EXCEPT ![n] =
       IF @.at = "open" /\ ~Hears(n)' THEN [at |-> "answered", outcome |-> Loaded[n]] ELSE @]
  /\ UNCHANGED <<here, view, cache, fetch, reader, live>>

\* The answer, or its error, settles the turn; of a deleted message nothing comes
\* and the stream just closes.
AnswerArrives(n) ==
  /\ attached[n].at = "answered"
  /\ IF attached[n].outcome = "none" THEN Detach(n, "none") /\ UNCHANGED view
     ELSE /\ Patched(n, "message id", [view[n] EXCEPT !.streaming = FALSE])
          /\ attached' = [attached EXCEPT ![n].at = "patched"]
          /\ UNCHANGED live
  /\ UNCHANGED <<vars, here, cache, fetch, reader>>

\* The server closes after its UNLISTEN.
ReconnectCloses(n) ==
  /\ attached[n].at = "patched"
  /\ Detach(n, "none")
  /\ UNCHANGED <<vars, here, view, cache, fetch, reader>>

\* With the server's process go its streams.
ServerRestarts ==
  /\ Restart
  /\ attached' = [n \in Turns |-> IF attached[n].at \in {"opening", "open"}
                                  THEN [Unattached EXCEPT !.at = "lost"] ELSE attached[n]]
  /\ live' = live \ {n \in Turns : attached[n].at \in {"opening", "open"}}
  /\ UNCHANGED <<here, view, cache, fetch, reader>>

-----------------------------------------------------------------------------
TabStep ==
  \/ \E n \in Turns : \/ ReadStart(n) \/ ReadEnd(n) \/ StreamCloses(n)
                      \/ ReadFails(n) \/ ShowAgain(n)
                      \/ Open(n) \/ AnswerArrives(n) \/ ReconnectCloses(n)
  \/ ReadAgain \/ ReadHistory \/ HistoryArrives

\* What the server itself does, and other tabs, which can truncate but do not stop a turn here.
Elsewhere ==
  \/ \E n \in Turns : \/ RequestFails(n) \/ Generate(n) \/ PersistArtifact(n)
                      \/ TryFails(n) \/ CatchFails(n)
  \/ \E p \in DOMAIN timeline : DeleteMessages(p)
  \/ DeleteArtifacts

TabNext ==
  \/ \E n \in Turns : Send(n) \/ StopSend(n) \/ ServerAnswers(n)
  \/ Leave \/ Return \/ Reload
  \/ TabStep
  \/ Elsewhere /\ UNCHANGED tab
  \/ ServerRestarts

TabSpec == TabInit /\ [][TabNext]_tabVars

\* A generation goes on without its client and every call of it returns or times out;
\* bytes that were sent arrive, and an open tab handles them.
TabFairSpec ==
  /\ TabSpec
  /\ \A n \in Turns : WF_tabVars(Generate(n) /\ UNCHANGED tab) /\ WF_tabVars(ServerAnswers(n))
  /\ WF_tabVars(TabStep)

-----------------------------------------------------------------------------
(* Properties. *)

\* A spinner resolves while the student looks at it: something that will settle the
\* turn is always attached to it, however the student moved about while it was
\* generated (ChatMain.tsx:187-195).  Excepted are a connection that broke and a
\* message that was deleted, which wait for the next load (:233-235), and a history that
\* lands after the tab has read the end: such a turn nobody settles (:197, :428, :498-505).
SpinnerResolves ==
  \A n \in Turns : (here /\ view[n].streaming) ~>
    \/ ~here \/ ~view[n].streaming
    \/ attached[n].at = "lost" \/ ~Stored(n) \/ view[n].late
=============================================================================
