------------------------------- MODULE QuizPage -------------------------------
(***************************************************************************)
(* One quiz and the pages that take and edit it                            *)
(* (apps/web/components/chat/QuizStudyView.tsx), with the server actions   *)
(* that replace its questions and grade an attempt                         *)
(* (apps/web/lib/quizzes/actions.ts, grading.ts).  A server action is one  *)
(* step from one await to the next; Next.js runs those of one page in      *)
(* turn.                                                                   *)
(*                                                                         *)
(* A topic stands for a question from the moment its row is added, under   *)
(* whatever wording or id; a question with an id of 0 has none yet on the  *)
(* page that shows it.  Options are told apart by what they say.           *)
(***************************************************************************)
EXTENDS Naturals, Sequences, FiniteSets, FiniteSetsExt, SequencesExt, Sublists

CONSTANTS
  Pages,
  Topics,
  Texts,          \* what a prompt, an option or an expected answer may say,
  Empty,          \*   and nothing typed yet
  MaxOptions,     \* 6 in the editor
  MaxQuestions,   \* bound: ids minted
  QuizScenarios   \* bounds, one record of them for each initial state

\* correct: correctIndex, from 1 on, or 0 for a short answer, whose one option is the
\* answer it expects.
Question == [id : 0 .. MaxQuestions, topic : Topics, prompt : Texts, options : Seq(Texts),
             correct : 0 .. MaxOptions]

\* Nothing in it is left to fill in.
Whole(q) == q.prompt # Empty /\ \A o \in DOMAIN q.options : q.options[o] # Empty

\* questions: the quiz as the chat's turn or its last edit made it; typed: what is typed over it.
QuizScenario == [questions : Seq(Question), opens : Nat, clicks : Nat, submits : Nat,
                 adds : Nat, edits : Nat, typed : SUBSET Texts]

\* Its ids are the first ones, and no two questions ask the same.
ASSUME QuizAssumption ==
  /\ MaxQuestions \in Nat /\ MaxOptions \in Nat /\ MaxOptions >= 2 /\ Empty \in Texts
  /\ QuizScenarios \subseteq QuizScenario
  /\ \A b \in QuizScenarios : \A k \in DOMAIN b.questions :
       /\ b.questions[k].id = k /\ Whole(b.questions[k])
       /\ \A j \in DOMAIN b.questions : b.questions[j].topic = b.questions[k].topic => j = k

VARIABLES
  quiz,      \* the questions of the artifact's payload
  ids,       \* ids handed out so far
  sheet,     \* what each page shows, and what it has asked for
  action,    \* the server action that runs for each page
  attempts,  \* quiz_attempts, with what the student meant by each
  left       \* what is left of each bound

quizVars == <<quiz, ids, sheet, action, attempts, left>>

-----------------------------------------------------------------------------
\* What a student last chose for a question: an option, among those the page showed.
Unanswered == [place |-> 0, options |-> <<>>]

\* answers: by question id; chosen: what the student clicked, by topic.
Blank == [at |-> "unopened", questions |-> <<>>, rows |-> <<>>, asked |-> <<>>,
          answers |-> [i \in 0 .. MaxQuestions |-> 0], chosen |-> [q \in Topics |-> Unanswered],
          scored |-> FALSE]

NoAction == [next |-> "none", sent |-> <<>>, questions |-> <<>>, chosen |-> Blank.chosen]

QuestionIds(qs) == {qs[k].id : k \in DOMAIN qs}

QuizTypeOK ==
  /\ quiz \in Seq(Question) /\ 0 \notin QuestionIds(quiz)
  /\ Cardinality(QuestionIds(quiz)) = Len(quiz) /\ \A k \in DOMAIN quiz : Whole(quiz[k])
  /\ \A p \in Pages : /\ sheet[p].at \in {"unopened", "take", "edit"}
                      /\ sheet[p].questions \in Seq(Question) /\ sheet[p].rows \in Seq(Question)
                      /\ action[p].questions \in Seq(Question)

QuizInit ==
  /\ left \in QuizScenarios
  /\ quiz = left.questions
  /\ ids = Len(left.questions)
  /\ sheet = [p \in Pages |-> Blank]
  /\ action = [p \in Pages |-> NoAction]
  /\ attempts = {}

Use(b) == left[b] > 0 /\ left' = [left EXCEPT ![b] = @ - 1]

-----------------------------------------------------------------------------
(* updateQuizQuestionsAction, submitQuizAttemptAction *)

Waits(p, kind) == /\ action[p].next = "none"
                  /\ sheet[p].asked # <<>> /\ Head(sheet[p].asked).kind = kind

\* Mutant of Minted: a question's id is its place.
MintedByPlace(qs) == [k \in DOMAIN qs |-> [qs[k] EXCEPT !.id = k]]

Minted(qs) ==
  LET known == QuestionIds(quiz) IN
  [k \in DOMAIN qs |->
     IF qs[k].id \in known THEN qs[k]
     ELSE [qs[k] EXCEPT !.id = ids + Cardinality({j \in 1 .. k : qs[j].id \notin known})]]

\* Half-typed questions are dropped; an id is kept if the quiz has it.
ReadQuiz(p) ==
  /\ Waits(p, "save")
  /\ LET sent  == Head(sheet[p].asked).questions
         whole == Picked(sent, {k \in DOMAIN sent : Whole(sent[k])})
         next  == Minted(whole) IN
     /\ ids' = Max({ids} \cup QuestionIds(next))
     /\ ids' <= MaxQuestions
     /\ action' = [action EXCEPT ![p] =
          [NoAction EXCEPT !.next = "write", !.sent = sent, !.questions = next]]
  /\ sheet' = [sheet EXCEPT ![p].asked = Tail(@)]
  /\ UNCHANGED <<quiz, attempts, left>>

\* Whatever the quiz is by now; the page then shows what it sent, unless it has no prompt.
WriteQuiz(p) ==
  /\ action[p].next = "write"
  /\ quiz' = action[p].questions
  /\ action' = [action EXCEPT ![p] = NoAction]
  /\ sheet' = [sheet EXCEPT ![p] = [@ EXCEPT
       !.questions = LET sent == action[p].sent
                     IN  Picked(sent, {k \in DOMAIN sent : sent[k].prompt # Empty}),
       !.answers = Blank.answers, !.chosen = Blank.chosen, !.scored = FALSE]]
  /\ UNCHANGED <<ids, attempts, left>>

\* gradeQuiz, over the quiz as it is when the attempt is graded.
Credited(qs, answers) ==
  Picked(qs, {k \in DOMAIN qs : qs[k].correct # 0 /\ answers[qs[k].id] = qs[k].correct})

ReadAndGrade(p) ==
  /\ Waits(p, "submit")
  /\ LET asked == Head(sheet[p].asked) IN
     action' = [action EXCEPT ![p] = [NoAction EXCEPT !.next = "insert", !.chosen = asked.chosen,
                                        !.questions = Credited(quiz, asked.answers)]]
  /\ sheet' = [sheet EXCEPT ![p].asked = Tail(@)]
  /\ UNCHANGED <<quiz, ids, attempts, left>>

\* The page shows the score.
InsertAttempt(p) ==
  /\ action[p].next = "insert"
  /\ attempts' = attempts \cup {[credited |-> action[p].questions, chosen |-> action[p].chosen]}
  /\ action' = [action EXCEPT ![p] = NoAction]
  /\ sheet' = [sheet EXCEPT ![p].scored = TRUE]
  /\ UNCHANGED <<quiz, ids, left>>

-----------------------------------------------------------------------------
(* The page. *)

SheetBecomes(p, s) ==
  /\ sheet' = [sheet EXCEPT ![p] = s]
  /\ UNCHANGED <<quiz, ids, action, attempts>>

OpenQuiz(p) ==
  /\ action[p].next = "none" /\ sheet[p].asked = <<>> /\ Use("opens")
  /\ SheetBecomes(p, [Blank EXCEPT !.at = "take", !.questions = quiz])

\* A radio button: the answer goes under the question's id, or none for a new one.
Choose(p, k, o) ==
  /\ sheet[p].at = "take" /\ ~sheet[p].scored /\ Use("clicks")
  /\ LET q == sheet[p].questions[k] IN
     /\ q.correct # 0 /\ o \in DOMAIN q.options
     /\ SheetBecomes(p, [sheet[p] EXCEPT !.answers[q.id] = o,
                          !.chosen[q.topic] = [place |-> o, options |-> q.options]])

\* The button is there again once the score is.
Submit(p) ==
  /\ sheet[p].at = "take" /\ ~sheet[p].scored /\ sheet[p].questions # <<>>
  /\ action[p].next # "insert" /\ \A k \in DOMAIN sheet[p].asked : sheet[p].asked[k].kind # "submit"
  /\ Use("submits")
  /\ SheetBecomes(p, [sheet[p] EXCEPT !.asked =
       Append(@, [kind |-> "submit", questions |-> <<>>, answers |-> sheet[p].answers,
                  chosen |-> sheet[p].chosen])])

Retake(p) ==
  /\ sheet[p].scored /\ sheet[p].at = "take"
  /\ SheetBecomes(p, [sheet[p] EXCEPT !.answers = Blank.answers, !.chosen = Blank.chosen,
                                      !.scored = FALSE])
  /\ UNCHANGED left

\* The answers stay while the editor is open; the editor starts from the page's questions.
Edit(p) ==
  /\ sheet[p].at = "take" /\ left.edits > 0
  /\ SheetBecomes(p, [sheet[p] EXCEPT !.at = "edit", !.rows = sheet[p].questions])
  /\ UNCHANGED left

Take(p) ==
  /\ sheet[p].at = "edit"
  /\ SheetBecomes(p, [sheet[p] EXCEPT !.at = "take", !.rows = <<>>])
  /\ UNCHANGED left

SaveQuestions(p, rows) ==
  /\ sheet[p].at = "edit" /\ Use("edits")
  /\ SheetBecomes(p, [sheet[p] EXCEPT !.rows = rows, !.asked =
       Append(@, [kind |-> "save", questions |-> rows, answers |-> Blank.answers,
                  chosen |-> Blank.chosen])])

\* A row or an option is added empty, and sent with the next save.
Grow(p, rows) ==
  /\ sheet[p].at = "edit" /\ Use("adds")
  /\ SheetBecomes(p, [sheet[p] EXCEPT !.rows = rows])

AddQuestion(p, topic) ==
  /\ \A k \in DOMAIN sheet[p].rows : sheet[p].rows[k].topic # topic
  /\ Grow(p, Append(sheet[p].rows, [id |-> 0, topic |-> topic, prompt |-> Empty,
                                   options |-> <<Empty, Empty>>, correct |-> 1]))

AddOption(p, k) ==
  /\ sheet[p].rows[k].correct # 0 /\ Len(sheet[p].rows[k].options) < MaxOptions
  /\ Grow(p, [sheet[p].rows EXCEPT ![k].options = Append(@, Empty)])

\* Typed over in place, and saved when the field is left.
RetypePrompt(p, k, text) ==
  /\ text \in left.typed
  /\ SaveQuestions(p, [sheet[p].rows EXCEPT ![k].prompt = text])

RetypeOption(p, k, o, text) ==
  /\ text \in left.typed /\ o \in DOMAIN sheet[p].rows[k].options
  /\ SaveQuestions(p, [sheet[p].rows EXCEPT ![k].options[o] = text])

\* Another option is marked as the correct one.
MarkCorrect(p, k, o) ==
  /\ sheet[p].rows[k].correct \notin {0, o} /\ o \in DOMAIN sheet[p].rows[k].options
  /\ SaveQuestions(p, [sheet[p].rows EXCEPT ![k].correct = o])

\* The options after it move up, and the mark with them, or to the one before if it is the
\* correct one that goes; the id stays.
RemoveOption(p, k, o) ==
  LET q == sheet[p].rows[k] IN
  /\ q.correct # 0 /\ o \in DOMAIN q.options /\ Len(q.options) > 2
  /\ SaveQuestions(p, [sheet[p].rows EXCEPT ![k] =
       [q EXCEPT !.options = RemoveAt(@, o),
                 !.correct = IF @ >= o THEN Max({1, @ - 1}) ELSE @]])

RemoveQuestion(p, k) == SaveQuestions(p, RemoveAt(sheet[p].rows, k))

\* Dragged to the top.
MoveQuestion(p, k) ==
  k > 1 /\ SaveQuestions(p, <<sheet[p].rows[k]>> \o RemoveAt(sheet[p].rows, k))

-----------------------------------------------------------------------------
QuizNext ==
  \E p \in Pages :
    \/ ReadQuiz(p) \/ WriteQuiz(p) \/ ReadAndGrade(p) \/ InsertAttempt(p)
    \/ OpenQuiz(p) \/ Submit(p) \/ Retake(p) \/ Edit(p) \/ Take(p)
    \/ \E k \in DOMAIN sheet[p].questions, o \in 1 .. MaxOptions : Choose(p, k, o)
    \/ \E topic \in Topics : AddQuestion(p, topic)
    \/ \E k \in DOMAIN sheet[p].rows :
         \/ RemoveQuestion(p, k) \/ MoveQuestion(p, k) \/ AddOption(p, k)
         \/ \E text \in Texts : RetypePrompt(p, k, text)
         \/ \E o \in 1 .. MaxOptions :
              \/ MarkCorrect(p, k, o) \/ RemoveOption(p, k, o)
              \/ \E text \in Texts : RetypeOption(p, k, o, text)

QuizSpec == QuizInit /\ [][QuizNext]_quizVars

-----------------------------------------------------------------------------
(* Properties. *)

\* What the student saw of a question when answering it, and the option then chosen.
Seen(a, q)  == a.chosen[q.topic]
Meant(a, q) == Seen(a, q).options[Seen(a, q).place]

\* A question of an attempt counts as right only if the student answered that very question,
\* and chose its correct option unless its options were edited since they were shown:
\* answers go by the id a question keeps when the quiz is edited (schema.ts:422-425,
\* actions.ts:33-37), on that page, or on another while it is taken.  An edit of the options
\* renumbers what was chosen (QuizStudyView.tsx:337), and may credit a wrong choice.
CreditIsForItsQuestion ==
  \A a \in attempts : \A k \in DOMAIN a.credited :
    LET q == a.credited[k] IN
    /\ Seen(a, q).place # 0
    /\ Meant(a, q) = q.options[q.correct] \/ Seen(a, q).options # q.options
=============================================================================
