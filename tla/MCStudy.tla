-------------------------------- MODULE MCStudy --------------------------------
(* A small deck and a small quiz for TLC.  They share nothing: in each scenario *)
(* one of them has room, and the other stays as it is.                          *)
EXTENDS FlashcardDeck, QuizPage, TLC

CONSTANTS a, b, u, v, w

\* Nothing happens to the deck.
NoDeck == [terms |-> <<>>, opens |-> 0, sessions |-> 0, grades |-> 0, edits |-> 0, reviews |-> 0,
           deaths |-> 0]

\* Two pages edit it, from its creation on.
Editing == [NoDeck EXCEPT !.terms = <<a>>, !.opens = 2, !.edits = 2, !.deaths = 1]

\* One page studies and edits it, and the chat reviews a card.
Studying == [NoDeck EXCEPT !.terms = <<a, b>>, !.opens = 1, !.sessions = 1, !.grades = 2, !.edits = 1,
                           !.reviews = 1]

\* One page studies it to the end.
Learning == [NoDeck EXCEPT !.terms = <<a, b>>, !.opens = 1, !.sessions = 1, !.grades = 4]

\* One page edits a deck of two twice.
AddingTerms == [NoDeck EXCEPT !.terms = <<a, b>>, !.opens = 1, !.edits = 2]

AddingTermsOnly == {AddingTerms}

NoQuiz == [questions |-> <<>>, opens |-> 0, clicks |-> 0, submits |-> 0,
           adds |-> 0, edits |-> 0, typed |-> {}]

Choice(i, t, os, c) == [id |-> i, topic |-> t, prompt |-> u, options |-> os, correct |-> c]

\* Two pages take and edit it: one edit, or two of them and a single answer.
Answering == [questions |-> <<Choice(1, a, <<u, v>>, 1), Choice(2, b, <<u, v, w>>, 3)>>,
              opens |-> 2, clicks |-> 2, submits |-> 1, adds |-> 0, edits |-> 1, typed |-> {}]

Rewriting == [Answering EXCEPT !.questions = <<Choice(1, a, <<u, v>>, 1), Choice(2, b, <<u, v>>, 2)>>,
                               !.clicks = 1, !.edits = 2]

Retyping == [Rewriting EXCEPT !.questions[1] = Choice(1, a, <<u>>, 0), !.adds = 1, !.edits = 1, !.typed = {w}]

\* All its questions are gone; one is added, filled in, and taken on that page or another.
Authoring == [questions |-> <<>>, opens |-> 2, clicks |-> 1,
              submits |-> 1, adds |-> 1, edits |-> 3, typed |-> {w}]

StudyInit ==
  /\ DeckInit /\ QuizInit
  /\ bound = NoDeck \/ left = NoQuiz

DeckScenarios == {NoDeck, Editing, Studying, Learning}

NoQuizAtAll == {NoQuiz}

AllQuizScenarios == {NoQuiz, Answering, Rewriting, Retyping, Authoring}

StudyNext ==
  \/ DeckNext /\ bound # NoDeck /\ UNCHANGED quizVars
  \/ QuizNext /\ UNCHANGED deckVars

PageSymmetry == Permutations(Tabs)

StudySpec == StudyInit /\ [][StudyNext]_<<deckVars, quizVars>>

\* Picked is what SelectSeq returns, on every sequence of up to four entries.
ASSUME FilterPicks ==
  \A s \in UNION {[1 .. n -> 0 .. 2] : n \in 0 .. 4} :
    Picked(s, {k \in DOMAIN s : s[k] # 0}) = SelectSeq(s, LAMBDA x : x # 0)
=============================================================================
