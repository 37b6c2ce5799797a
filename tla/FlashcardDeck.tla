----------------------------- MODULE FlashcardDeck -----------------------------
(***************************************************************************)
(* One flashcard deck: its payload and the tables denormalised from it     *)
(* (apps/web/lib/flashcards/actions.ts, syncFlashcardDeck), the pages that *)
(* study and edit it (FlashcardStudyView, FlashcardDeckEditor,             *)
(* FlashcardLearnMode), and the chat's reviews of its cards                *)
(* (lib/agent/tools/flashcard-review.ts).  A server action is one step     *)
(* from one await to the next; Next.js runs those of one page in turn.     *)
(*                                                                         *)
(* A term is what a card is about to the student, whatever its text or id. *)
(***************************************************************************)
EXTENDS Naturals, Sequences, FiniteSets, SequencesExt, Sublists

CONSTANTS
  Tabs,       \* pages on the deck
  Terms,
  MaxIds,     \* bound: ids minted
  Scenarios   \* bounds, one record of them for each initial state

\* terms: the deck as the chat's turn made it.
DeckScenario ==
  [terms : Seq(Terms), opens : Nat, sessions : Nat, grades : Nat, edits : Nat, reviews : Nat,
   deaths : Nat]

ASSUME DeckAssumption ==
  /\ IsFiniteSet(Terms) /\ MaxIds \in Nat
  /\ Scenarios \subseteq DeckScenario /\ \A b \in Scenarios : Len(b.terms) <= MaxIds

VARIABLES
  deck,    \* the cards of the artifact's payload, in the student's order
  rows,    \* flashcards: the ids there, and what each is about
  srs,     \* card_srs_state of each id: 0 when there is none, else reps + 1
  minted,  \* ids handed out so far
  maker,   \* persistArtifact
  page,    \* what each page shows and has asked for
  call,    \* the server action that runs for each page
  tool,    \* record_flashcard_review
  bound    \* what is left of each bound

deckVars == <<deck, rows, srs, minted, maker, page, call, tool, bound>>

-----------------------------------------------------------------------------
Ids   == 1 .. MaxIds
Card  == [id : 0 .. MaxIds, term : Terms]   \* 0: none yet, or "pending-i"

\* Learn mode: indices into the cards; owed: the passes each has still to get.
Session == [on : BOOLEAN, queue : Seq(Nat), position : Nat, owed : [1 .. Cardinality(Terms) -> Nat]]
NoSession == [on |-> FALSE, queue |-> <<>>, position |-> 1, owed |-> [c \in 1 .. Cardinality(Terms) |-> 0]]

\* rows: those of the editor, some of them half typed; asked: server actions to come.
Unopened == [at |-> "unopened", cards |-> <<>>, rows |-> <<>>, asked |-> <<>>, learn |-> NoSession]

\* sent: the editor's cards; cards: with their ids; has: the ids its read of
\* flashcards gave; alone: no other save or creation since it began.
NoCall == [next |-> "none", sent |-> <<>>, cards |-> <<>>, has |-> {}, alone |-> TRUE,
           id |-> 0, read |-> 0]

IdsOf(cards) == {cards[k].id : k \in DOMAIN cards}
Rows         == {i \in Ids : rows[i] # {}}

TypeOK ==
  /\ deck \in Seq(Card) /\ 0 \notin IdsOf(deck) /\ Cardinality(IdsOf(deck)) = Len(deck)
  /\ rows \in [Ids -> SUBSET Terms] /\ \A i \in Ids : Cardinality(rows[i]) <= 1
  /\ srs \in [Ids -> Nat] /\ \A i \in Ids : srs[i] # 0 => i \in Rows
  /\ minted \in 0 .. MaxIds
  /\ maker \in {"artifact", "clear", "rows", "states", "done", "dead"}
  /\ \A t \in Tabs :
       /\ page[t].at \in {"unopened", "study", "edit"} /\ page[t].cards \in Seq(Card)
       /\ page[t].learn \in Session
       /\ call[t].cards \in Seq(Card) /\ call[t].has \subseteq Ids

DeckInit ==
  /\ bound \in Scenarios
  /\ deck = <<>> /\ rows = [i \in Ids |-> {}] /\ srs = [i \in Ids |-> 0]
  /\ minted = 0
  /\ maker = "artifact"
  /\ page = [t \in Tabs |-> Unopened]
  /\ call = [t \in Tabs |-> NoCall]
  /\ tool = NoCall

Spend(b) == bound[b] > 0 /\ bound' = [bound EXCEPT ![b] = @ - 1]

-----------------------------------------------------------------------------
(* persistArtifact, syncFlashcardDeck: one statement after the other. *)

Numbered(terms) == [k \in DOMAIN terms |-> [id |-> minted + k, term |-> terms[k]]]

InsertArtifact ==
  /\ maker = "artifact"
  /\ deck' = Numbered(bound.terms)
  /\ minted' = Len(bound.terms)
  /\ maker' = "clear"
  /\ UNCHANGED <<rows, srs, page, call, tool, bound>>

\* What a page saved meanwhile is deleted with the rest.
ClearRows ==
  /\ maker = "clear"
  /\ rows' = [i \in Ids |-> {}] /\ srs' = [i \in Ids |-> 0]
  /\ maker' = "rows"
  /\ UNCHANGED <<deck, minted, page, call, tool, bound>>

\* Refused as a whole when a save has put one of them there meanwhile.
InsertRows ==
  /\ maker = "rows"
  /\ IF Rows \cap DOMAIN bound.terms = {}
     THEN /\ rows' = [i \in Ids |-> IF i \in DOMAIN bound.terms THEN {bound.terms[i]} ELSE rows[i]]
          /\ maker' = "states"
     ELSE maker' = "dead" /\ UNCHANGED rows
  /\ UNCHANGED <<deck, srs, minted, page, call, tool, bound>>

\* Refused as a whole when one of the rows was deleted, or graded, meanwhile.
InsertStates ==
  /\ maker = "states"
  /\ LET new == DOMAIN bound.terms IN
     IF \A i \in new : i \in Rows /\ srs[i] = 0
     THEN srs' = [i \in Ids |-> IF i \in new THEN 1 ELSE srs[i]] /\ maker' = "done"
     ELSE maker' = "dead" /\ UNCHANGED srs
  /\ UNCHANGED <<deck, rows, minted, page, call, tool, bound>>

MakerDies ==
  /\ maker \in {"clear", "rows", "states"} /\ Spend("deaths")
  /\ maker' = "dead"
  /\ UNCHANGED <<deck, rows, srs, minted, page, call, tool>>

-----------------------------------------------------------------------------
(* updateDeckCardsAction *)

Calls(t, c)  == call' = [call EXCEPT ![t] = c]
Asked(t)     == page[t].asked # <<>> /\ call[t].next = "none"
Answered(t)  == page' = [page EXCEPT ![t].asked = Tail(@)]

Known(c)   == c.id \in IdsOf(deck)
Saving(t)  == call[t].next \in {"write-deck", "read-rows", "delete", "each-card", "state"}

\* An id is kept if the deck has it; the others are minted.
Identified(cards) ==
  [k \in DOMAIN cards |->
     IF Known(cards[k]) THEN cards[k]
     ELSE [cards[k] EXCEPT !.id = minted + Cardinality({j \in 1 .. k : ~Known(cards[j])})]]

ReadDeck(t) ==
  /\ Asked(t) /\ Head(page[t].asked).kind = "save"
  /\ LET sent == Head(page[t].asked).cards
         new  == {k \in DOMAIN sent : ~Known(sent[k])}
         others == {u \in Tabs \ {t} : Saving(u)} IN
     /\ minted + Cardinality(new) <= MaxIds
     /\ minted' = minted + Cardinality(new)
     /\ call' = [u \in Tabs |->
          IF u = t THEN [NoCall EXCEPT !.next = "write-deck", !.sent = sent, !.cards = Identified(sent),
                           !.alone = others = {} /\ maker \in {"done", "dead"}]
          ELSE IF u \in others THEN [call[u] EXCEPT !.alone = FALSE] ELSE call[u]]
  /\ Answered(t)
  /\ UNCHANGED <<deck, rows, srs, maker, tool, bound>>

\* Whatever version the payload has by now.
WriteDeck(t) ==
  /\ call[t].next = "write-deck"
  /\ deck' = call[t].cards
  /\ Calls(t, [call[t] EXCEPT !.next = "read-rows"])
  /\ UNCHANGED <<rows, srs, minted, maker, page, tool, bound>>

ReadRows(t) ==
  /\ call[t].next = "read-rows"
  /\ Calls(t, [call[t] EXCEPT !.has = Rows, !.next =
       IF Rows \subseteq IdsOf(call[t].cards) THEN "each-card" ELSE "delete"])
  /\ UNCHANGED <<deck, rows, srs, minted, maker, page, tool, bound>>

Removed(c) == c.has \ IdsOf(c.cards)

\* Mutant of DeleteRows: nothing cascades.
DeleteRowsOnly(t) ==
  /\ call[t].next = "delete"
  /\ rows' = [i \in Ids |-> IF i \in Removed(call[t]) THEN {} ELSE rows[i]]
  /\ Calls(t, [call[t] EXCEPT !.next = "each-card"])
  /\ UNCHANGED <<deck, srs, minted, maker, page, tool, bound>>

\* ON DELETE CASCADE takes their card_srs_state.
DeleteRows(t) ==
  /\ call[t].next = "delete"
  /\ rows' = [i \in Ids |-> IF i \in Removed(call[t]) THEN {} ELSE rows[i]]
  /\ srs' = [i \in Ids |-> IF i \in Removed(call[t]) THEN 0 ELSE srs[i]]
  /\ Calls(t, [call[t] EXCEPT !.next = "each-card"])
  /\ UNCHANGED <<deck, minted, maker, page, tool, bound>>

\* Mutant of EachCard: takes a card of the payload to have a row.
EachCardSent(t) ==
  /\ call[t].next = "each-card" /\ call[t].cards # <<>>
  /\ LET c == Head(call[t].cards) IN
     IF c.id \in IdsOf(call[t].sent)
     THEN /\ rows' = [rows EXCEPT ![c.id] = IF @ = {} THEN {} ELSE {c.term}]
          /\ Calls(t, [call[t] EXCEPT !.cards = Tail(@)])
     ELSE IF c.id \in Rows THEN Calls(t, NoCall) /\ UNCHANGED rows
     ELSE /\ rows' = [rows EXCEPT ![c.id] = {c.term}]
          /\ Calls(t, [call[t] EXCEPT !.next = "state"])
  /\ UNCHANGED <<deck, srs, minted, maker, page, tool, bound>>

\* Updates a row it read, though it may be gone; inserts another.
EachCard(t) ==
  /\ call[t].next = "each-card" /\ call[t].cards # <<>>
  /\ LET c == Head(call[t].cards) IN
     IF c.id \in call[t].has
     THEN /\ rows' = [rows EXCEPT ![c.id] = IF @ = {} THEN {} ELSE {c.term}]
          /\ Calls(t, [call[t] EXCEPT !.cards = Tail(@)])
     ELSE IF c.id \in Rows THEN Calls(t, NoCall) /\ UNCHANGED rows
     ELSE /\ rows' = [rows EXCEPT ![c.id] = {c.term}]
          /\ Calls(t, [call[t] EXCEPT !.next = "state"])
  /\ UNCHANGED <<deck, srs, minted, maker, page, tool, bound>>

\* Refused when the row was deleted, or graded, meanwhile.
InsertState(t) ==
  /\ call[t].next = "state"
  /\ LET i == Head(call[t].cards).id IN
     IF i \in Rows /\ srs[i] = 0
     THEN /\ srs' = [srs EXCEPT ![i] = 1]
          /\ Calls(t, [call[t] EXCEPT !.next = "each-card", !.cards = Tail(@)])
     ELSE Calls(t, NoCall) /\ UNCHANGED srs
  /\ UNCHANGED <<deck, rows, minted, maker, page, tool, bound>>

\* onSaved: the page shows what it sent, without the ids that were minted for it.
EndSave(t) ==
  /\ call[t].next = "each-card" /\ call[t].cards = <<>>
  /\ Calls(t, NoCall)
  /\ page' = [page EXCEPT ![t].cards = call[t].sent]
  /\ UNCHANGED <<deck, rows, srs, minted, maker, tool, bound>>

\* The save dies between two statements, and the page hears of it.
SaveDies(t) ==
  /\ Saving(t) /\ Spend("deaths")
  /\ Calls(t, NoCall)
  /\ UNCHANGED <<deck, rows, srs, minted, maker, page, tool>>

-----------------------------------------------------------------------------
(* recordLearnGradeAction, record_flashcard_review.  scheduleReview counts one more. *)

\* An id that is no uuid fails the query; a card that is gone ends it.
ReadCard(t) ==
  /\ Asked(t) /\ Head(page[t].asked).kind = "grade"
  /\ LET i == Head(page[t].asked).id IN
     Calls(t, IF i \in Rows THEN [NoCall EXCEPT !.next = "read-state", !.id = i] ELSE NoCall)
  /\ Answered(t)
  /\ UNCHANGED <<deck, rows, srs, minted, maker, tool, bound>>

ReadState(t) ==
  /\ call[t].next = "read-state"
  /\ Calls(t, [call[t] EXCEPT !.next = "write-state", !.read = srs[call[t].id]])
  /\ UNCHANGED <<deck, rows, srs, minted, maker, page, tool, bound>>

\* The row that was read, or a new one where there was none.
WriteState(t) ==
  /\ call[t].next = "write-state"
  /\ LET i == call[t].id IN
     srs' = IF call[t].read # 0
            THEN [srs EXCEPT ![i] = IF @ = 0 THEN 0 ELSE call[t].read + 1]
            ELSE [srs EXCEPT ![i] = IF @ = 0 /\ i \in Rows THEN 2 ELSE @]
  /\ Calls(t, NoCall)
  /\ UNCHANGED <<deck, rows, minted, maker, page, tool, bound>>

ToolReads(i) ==
  /\ tool.next = "none" /\ srs[i] # 0 /\ Spend("reviews")
  /\ tool' = [NoCall EXCEPT !.next = "write-state", !.id = i, !.read = srs[i]]
  /\ UNCHANGED <<deck, rows, srs, minted, maker, page, call>>

ToolWrites ==
  /\ tool.next = "write-state"
  /\ srs' = [srs EXCEPT ![tool.id] = IF @ = 0 THEN 0 ELSE tool.read + 1]
  /\ tool' = NoCall
  /\ UNCHANGED <<deck, rows, minted, maker, page, call, bound>>

-----------------------------------------------------------------------------
(* The page. *)

PageBecomes(t, p) ==
  /\ page' = [page EXCEPT ![t] = p]
  /\ UNCHANGED <<deck, rows, srs, minted, maker, call, tool>>

\* Loads it, or loads it again once it has nothing under way.
OpenPage(t) ==
  /\ maker # "artifact" /\ call[t].next = "none" /\ page[t].asked = <<>> /\ Spend("opens")
  /\ PageBecomes(t, [Unopened EXCEPT !.at = "study", !.cards = deck])

StartSession(cards) ==
  [NoSession EXCEPT !.on = TRUE, !.queue = [k \in DOMAIN cards |-> k],
     !.owed = [c \in DOMAIN @ |-> IF c \in DOMAIN cards THEN 1 ELSE 0]]

\* The Learn tab, or "Study again".
Learn(t) ==
  /\ page[t].at = "study" /\ Spend("sessions")
  /\ PageBecomes(t, [page[t] EXCEPT !.learn = StartSession(page[t].cards)])

Extra(g) == CASE g = "yes" -> 0 [] g = "close" -> 1 [] g = "no" -> 2

\* Mutant of Inserted: takes the place of what is there.
Replaced(queues, lo, c) == UNION {{[q EXCEPT ![at] = c] : at \in lo .. Len(q)} : q \in queues}

Inserted(queues, lo, c) == UNION {{InsertAt(q, at, c) : at \in lo .. Len(q) + 1} : q \in queues}

\* requeue: the queues it may return; lo is the place after the current one.
Requeued(queue, lo, c, g) ==
  CASE Extra(g) = 0 -> {queue}
    [] Extra(g) = 1 -> Inserted({queue}, lo, c)
    [] Extra(g) = 2 -> Inserted(Inserted({queue}, lo, c), lo, c)

\* A card that a late onSaved took away is not there to be graded.
Grade(t, g) ==
  LET s == page[t].learn
      c == s.queue[s.position]
      owed == [s.owed EXCEPT ![c] = @ - 1 + Extra(g)] IN
  /\ s.on /\ s.position <= Len(s.queue) /\ Spend("grades")
  /\ c \in DOMAIN page[t].cards
  /\ \E queue \in Requeued(s.queue, s.position + 1, c, g) :
       PageBecomes(t, [page[t] EXCEPT
         !.learn = [s EXCEPT !.queue = queue, !.position = s.position + 1, !.owed = owed],
         !.asked = Append(@, [kind |-> "grade", id |-> page[t].cards[c].id, cards |-> <<>>])])

\* "Edit terms": Learn mode is unmounted, and starts over afterwards.
StartEditing(t) ==
  /\ page[t].at = "study" /\ bound.edits > 0
  /\ PageBecomes(t, [page[t] EXCEPT !.at = "edit", !.learn = NoSession,
       !.rows = [k \in DOMAIN page[t].cards |-> [card |-> page[t].cards[k], full |-> TRUE]]])
  /\ UNCHANGED bound

StopEditing(t) ==
  /\ page[t].at = "edit"
  /\ PageBecomes(t, [page[t] EXCEPT !.at = "study", !.rows = <<>>])
  /\ UNCHANGED bound

\* save: the rows with both sides, unless there are none.
Saves(t, new) ==
  LET full == Picked(new, {k \in DOMAIN new : new[k].full}) IN
  /\ page[t].at = "edit" /\ Spend("edits")
  /\ PageBecomes(t, [page[t] EXCEPT !.rows = new, !.asked =
       IF full = <<>> THEN @
       ELSE Append(@, [kind |-> "save", id |-> 0, cards |-> [k \in DOMAIN full |-> full[k].card]])])

\* "Add term", both sides typed, and the blur that saves it.
AddTerm(t, term) ==
  /\ \A k \in DOMAIN page[t].rows : page[t].rows[k].card.term # term
  /\ Saves(t, Append(page[t].rows, [card |-> [id |-> 0, term |-> term], full |-> TRUE]))

\* A side is typed anew, or emptied, and left.
Retype(t, k, full) == Saves(t, [page[t].rows EXCEPT ![k].full = full])

RemoveTerm(t, k) == Saves(t, RemoveAt(page[t].rows, k))

\* Dragged to the top.
MoveTerm(t, k) == k > 1 /\ Saves(t, <<page[t].rows[k]>> \o RemoveAt(page[t].rows, k))

-----------------------------------------------------------------------------
SaveStep(t) ==
  \/ ReadDeck(t) \/ WriteDeck(t) \/ ReadRows(t) \/ DeleteRows(t)
  \/ EachCard(t) \/ InsertState(t) \/ EndSave(t) \/ SaveDies(t)

DeckNext ==
  \/ InsertArtifact \/ ClearRows \/ InsertRows \/ InsertStates \/ MakerDies
  \/ \E t \in Tabs :
       \/ SaveStep(t)
       \/ ReadCard(t) \/ ReadState(t) \/ WriteState(t)
       \/ OpenPage(t) \/ Learn(t) \/ StartEditing(t) \/ StopEditing(t)
       \/ \E g \in {"yes", "close", "no"} : Grade(t, g)
       \/ \E term \in Terms : AddTerm(t, term)
       \/ \E k \in DOMAIN page[t].rows :
            Retype(t, k, TRUE) \/ Retype(t, k, FALSE) \/ RemoveTerm(t, k) \/ MoveTerm(t, k)
  \/ \E i \in Ids : ToolReads(i)
  \/ ToolWrites

DeckSpec == DeckInit /\ [][DeckNext]_deckVars

-----------------------------------------------------------------------------
(* Properties. *)

\* A save that ends leaves exactly the rows of the deck's cards (actions.ts:113-116, :154-155),
\* whatever an earlier one, or the deck's creation, left half done, unless another
\* save or the creation went on beside it: no card that is gone keeps coming due.
SavesRepair ==
  [][\A t \in Tabs : EndSave(t) /\ call[t].alone =>
       Rows = IdsOf(deck) /\ \A k \in DOMAIN deck : rows[deck[k].id] = {deck[k].term}]_deckVars

\* In a Learn session each card has as many passes ahead as its grades earned it: a
\* missed card comes back, twice after "No", wherever it is put (learn-queue.ts:13-14).
MissedComesBack ==
  \A t \in Tabs : LET s == page[t].learn IN
    s.on => \A c \in DOMAIN s.owed :
      s.owed[c] = Cardinality({k \in s.position .. Len(s.queue) : s.queue[k] = c})

\* "Ids are PRESERVED for cards that survive the edit, which is what keeps their
\* card_srs_state" (actions.ts:113-114): a save that keeps a card of the deck keeps
\* its id.
IdsArePreserved ==
  [][\A t \in Tabs : WriteDeck(t) =>
       \A k \in DOMAIN deck, j \in DOMAIN deck' :
         deck[k].term = deck'[j].term => deck[k].id = deck'[j].id]_deckVars
=============================================================================
