--------------------------- MODULE ChatTurnProofs ---------------------------
(***************************************************************************)
(* Proofs about ChatTurn, for any number of turns, any threshold of        *)
(* compaction and any bounds.  The inductive invariant is IInv.            *)
(***************************************************************************)
EXTENDS ChatTurn, SetLemmas, SequenceTheorems

-----------------------------------------------------------------------------
(* The inductive invariant. *)

Event    == [turn : Turns, role : {"user", "assistant", "artifact"}]
Boundary == [upTo : Nat, covers : SUBSET Nat]

\* What is remembered of the timeline are positions in it.
Types ==
  /\ TypeOK
  /\ timeline \in Seq(Event) /\ boundaries \in Seq(Boundary)
  /\ \A n \in Turns : /\ post[n].seen \subseteq DOMAIN timeline
                      /\ post[n].fold \subseteq DOMAIN timeline
                      /\ post[n].prior \subseteq DOMAIN timeline

\* From its successful save on, a turn's row is what its client will be, or was,
\* told; and only a turn whose client was told so gets to maybeCompact.
Told(n) ==
  /\ post[n].told = "end" =>
       post[n].next \in {"read messages", "read boundary", "insert boundary", "closed", "dead"}
  /\ post[n].next \in {"read messages", "read boundary", "insert boundary"} => post[n].told = "end"
  /\ Stored(n) /\ ((At(n, "notify") /\ ~post[n].errored) \/ post[n].told = "end") =>
       row[n] = [status |-> "done", text |-> post[n].said]

\* What maybeCompact has read reaches back over the messages that are left, though
\* others were truncated or added since.
Read(n) ==
  /\ At(n, "read boundary") =>
       \A p \in Messages \cap Live, q \in post[n].seen : p <= q => p \in post[n].seen
  /\ At(n, "insert boundary") =>
       /\ post[n].fold # {}
       /\ \A p \in Messages \cap Live :
            p <= Max(post[n].fold) => p \in post[n].fold \cup post[n].prior

IInv == Types /\ SummariesReachBack /\ \A n \in Turns : Told(n) /\ Read(n)

-----------------------------------------------------------------------------
(* What a step does to the timeline. *)

\* The row a Create appends, and what it leaves as it was.
LEMMA CreateViews ==
  ASSUME Types, NEW n \in Turns, NEW role \in {"user", "assistant", "artifact"},
         Create(n, role), deleted' = deleted
  PROVE  LET new == Len(timeline) + 1 IN
         /\ timeline' \in Seq(Event) /\ Len(timeline') = new /\ DOMAIN timeline' = 1 .. new
         /\ new \notin DOMAIN timeline /\ \A p \in DOMAIN timeline : p < new
         /\ \A p \in DOMAIN timeline : p \in DOMAIN timeline' /\ timeline'[p] = timeline[p]
         /\ timeline'[new] = [turn |-> n, role |-> role]
<1>1. [turn |-> n, role |-> role] \in Event
  BY DEF Event
<1>2. /\ timeline' \in Seq(Event) /\ Len(timeline') = Len(timeline) + 1
      /\ \A p \in 1 .. Len(timeline) : timeline'[p] = timeline[p]
      /\ timeline'[Len(timeline) + 1] = [turn |-> n, role |-> role]
  BY <1>1, AppendProperties DEF Types, Create
<1>3. DOMAIN timeline = 1 .. Len(timeline) /\ DOMAIN timeline' = 1 .. Len(timeline')
      /\ Len(timeline) \in Nat
  BY <1>2, LenProperties DEF Types
<1>4. QED
  BY <1>2, <1>3

\* The views of the timeline after it.
LEMMA CreateGrows ==
  ASSUME Types, NEW n \in Turns, NEW role \in {"user", "assistant", "artifact"},
         Create(n, role), deleted' = deleted
  PROVE  /\ Live' = Live \cup {Len(timeline) + 1}
         /\ Messages \subseteq Messages'
         /\ Messages' \subseteq Messages \cup {Len(timeline) + 1}
         /\ \A m \in Turns : Stored(m)' <=> Stored(m) \/ (m = n /\ role = "assistant")
<1> DEFINE new == Len(timeline) + 1
<1>1. DOMAIN timeline' = DOMAIN timeline \cup {new} /\ new \notin DOMAIN timeline
  <2>1. DOMAIN timeline = 1 .. Len(timeline) /\ Len(timeline) \in Nat
    BY LenProperties DEF Types
  <2>2. DOMAIN timeline' = 1 .. new
    BY CreateViews
  <2>3. QED
    BY <2>1, <2>2
<1>2. Live' = Live \cup {new}
  BY <1>1 DEF Live, Types, TypeOK
<1>3. Messages \subseteq Messages' /\ Messages' \subseteq Messages \cup {new}
  BY <1>1, CreateViews DEF Messages
<1>4. ASSUME NEW m \in Turns
      PROVE  Stored(m)' <=> Stored(m) \/ (m = n /\ role = "assistant")
  <2>1. \A p \in Live : timeline'[p] = timeline[p]
    BY CreateViews DEF Live
  <2>2. timeline'[new] = [turn |-> n, role |-> role]
    BY CreateViews
  <2>3. timeline'[new] = [turn |-> m, role |-> "assistant"] <=> m = n /\ role = "assistant"
    BY <2>2
  <2>4. QED
    BY <1>2, <2>1, <2>3 DEF Stored
<1>5. QED
  BY <1>2, <1>3, <1>4

-----------------------------------------------------------------------------
(* Types. *)

LEMMA InitTypes == Init => Types
BY EmptySeq, ChatAssumption
   DEF Init, Types, TypeOK, Event, Boundary, Row, NoRow, Unsent, Post, Statement,
       NoStream, Reconnect

\* The rows of the timeline stay well typed under a Create.
LEMMA CreateKeepsTypes ==
  ASSUME Types, NEW n \in Turns, NEW role \in {"user", "assistant", "artifact"},
         Create(n, role), UNCHANGED <<deleted, boundaries, reconnect, truncation, restarts, faults>>,
         row' \in [Turns -> Row], post' \in [Turns -> Post],
         \A m \in Turns : /\ post'[m].seen = post[m].seen \/ post'[m].seen = {}
                          /\ post'[m].fold = post[m].fold \/ post'[m].fold = {}
                          /\ post'[m].prior = post[m].prior \/ post'[m].prior = {}
  PROVE  Types'
<1>1. DOMAIN timeline \subseteq DOMAIN timeline' /\ timeline' \in Seq(Event)
  BY CreateViews
<1>2. \A p \in DOMAIN timeline' :
        timeline'[p] \in [turn : Turns, role : {"user", "assistant", "artifact"}]
  <2>1. DOMAIN timeline' = 1 .. Len(timeline') /\ timeline' \in [1 .. Len(timeline') -> Event]
    BY <1>1, LenProperties
  <2>2. QED
    BY <2>1 DEF Event
<1>3. QED
  BY <1>1, <1>2 DEF Types, TypeOK

LEMMA WriteType ==
  ASSUME Types, NEW n \in Turns, NEW s \in {"done", "error"}, Write(n, s)
  PROVE  row' \in [Turns -> Row]
BY DEF Types, TypeOK, Write, Row, Post

\* The frame of a handler that is over.
LEMMA UnsentType ==
  /\ Unsent \in Post
  /\ Unsent.seen = {} /\ Unsent.fold = {} /\ Unsent.prior = {}
BY ChatAssumption DEF Unsent, Post, Statement

LEMMA OverType ==
  ASSUME Types, NEW n \in Turns, NEW s \in Statement, NEW told \in {"nothing", "end", "error"}
  PROVE  /\ Over(n, s, told) \in Post
         /\ Over(n, s, told).next = s /\ Over(n, s, told).told = told
         /\ Over(n, s, told).said = post[n].said
         /\ Over(n, s, told).seen = {} /\ Over(n, s, told).fold = {} /\ Over(n, s, told).prior = {}
<1>1. post[n].said \in 0 .. MaxText
  BY DEF Types, TypeOK, Post
<1>2. QED
  BY <1>1, UnsentType DEF Over, Post

\* Types after a step that adds nothing to the timeline and no boundary.
LEMMA QuietTypes ==
  ASSUME Types, UNCHANGED <<timeline, boundaries>>,
         deleted' \subseteq DOMAIN timeline, row' \in [Turns -> Row], post' \in [Turns -> Post],
         reconnect' \in [Turns -> Reconnect],
         truncation' \in [from : {0} \cup DOMAIN timeline, count : 0 .. MaxTruncations],
         restarts' \in 0 .. MaxRestarts, faults' \in 0 .. MaxFaults,
         \A n \in Turns : /\ post'[n].seen \subseteq DOMAIN timeline
                          /\ post'[n].fold \subseteq DOMAIN timeline
                          /\ post'[n].prior \subseteq DOMAIN timeline
  PROVE  Types'
BY DEF Types, TypeOK

\* A step that moves one frame only, and touches no message but its row.
LEMMA FrameTypes ==
  ASSUME Types, NEW n \in Turns, NEW f \in Post, post' = [post EXCEPT ![n] = f],
         f.seen \subseteq DOMAIN timeline, f.fold \subseteq DOMAIN timeline,
         f.prior \subseteq DOMAIN timeline,
         row' \in [Turns -> Row], reconnect' \in [Turns -> Reconnect],
         faults' \in 0 .. MaxFaults,
         UNCHANGED <<timeline, deleted, boundaries, truncation, restarts>>
  PROVE  Types'
<1>1. post' \in [Turns -> Post] /\ \A m \in Turns : post'[m] = IF m = n THEN f ELSE post[m]
  BY DEF Types, TypeOK
<1>2. QED
  BY <1>1, QuietTypes DEF Types, TypeOK

\* The newest boundary whose message is left.
LEMMA NewestBoundary ==
  ASSUME Types, LiveBoundaries # {}
  PROVE  /\ Max(LiveBoundaries) \in LiveBoundaries
         /\ Max(LiveBoundaries) \in DOMAIN boundaries
         /\ \A b \in LiveBoundaries : b <= Max(LiveBoundaries)
<1>1. DOMAIN boundaries = 1 .. Len(boundaries) /\ Len(boundaries) \in Nat
  BY LenProperties DEF Types
<1>2. LiveBoundaries \subseteq 0 .. Len(boundaries)
  BY <1>1 DEF LiveBoundaries
<1>3. QED
  BY <1>2, MaxIs DEF LiveBoundaries

LEMMA StepTypes == Types /\ [Next]_vars => Types'
<1> SUFFICES ASSUME Types, [Next]_vars PROVE Types'
  OBVIOUS
<1>0. /\ row \in [Turns -> Row] /\ post \in [Turns -> Post] /\ reconnect \in [Turns -> Reconnect]
      /\ faults \in 0 .. MaxFaults
  BY DEF Types, TypeOK
<1>1. ASSUME NEW n \in Turns, NEW s \in Statement, NEW told \in {"nothing", "end", "error"},
             post' = [post EXCEPT ![n] = Over(n, s, told)],
             row' \in [Turns -> Row], reconnect' \in [Turns -> Reconnect],
             faults' \in 0 .. MaxFaults,
             UNCHANGED <<timeline, deleted, boundaries, truncation, restarts>>
      PROVE  Types'
  BY <1>1, OverType, FrameTypes
<1>2. ASSUME NEW n \in Turns, NEW s \in Statement, Becomes(n, s),
             row' \in [Turns -> Row], reconnect' \in [Turns -> Reconnect],
             faults' \in 0 .. MaxFaults,
             UNCHANGED <<timeline, deleted, boundaries, truncation, restarts>>
      PROVE  Types'
  <2>1. [post[n] EXCEPT !.next = s] \in Post
    BY <1>0 DEF Post
  <2>2. post' = [post EXCEPT ![n] = [post[n] EXCEPT !.next = s]]
    BY <1>2 DEF Becomes
  <2>3. /\ [post[n] EXCEPT !.next = s].seen = post[n].seen
        /\ [post[n] EXCEPT !.next = s].fold = post[n].fold
        /\ [post[n] EXCEPT !.next = s].prior = post[n].prior
    BY <1>0 DEF Post
  <2>4. QED
    BY <1>2, <2>1, <2>2, <2>3, FrameTypes DEF Types
<1>3. ASSUME NEW n \in Turns, InsertQuestion(n) PROVE Types'
  <2>1. [post[n] EXCEPT !.next = "insert answer"] \in Post
    BY <1>0, Zenon DEF Post, Statement
  <2>2. post' \in [Turns -> Post] /\ row' \in [Turns -> Row]
    BY <1>0, <1>3, <2>1, Zenon DEF InsertQuestion, Becomes
  <2>3. \A m \in Turns : /\ post'[m].seen = post[m].seen /\ post'[m].fold = post[m].fold
                         /\ post'[m].prior = post[m].prior
    BY <1>0, <1>3, Zenon DEF InsertQuestion, Becomes, Post
  <2>4. QED
    BY <1>3, <2>2, <2>3, CreateKeepsTypes, Zenon DEF InsertQuestion
<1>4. ASSUME NEW n \in Turns, InsertAnswer(n) PROVE Types'
  <2>1. [post[n] EXCEPT !.next = "register"] \in Post
        /\ [status |-> "streaming", text |-> 0] \in Row
    <3>1. 0 \in 0 .. MaxText
      BY ChatAssumption
    <3>2. QED
      BY <1>0, <3>1, Zenon DEF Post, Row, Statement
  <2>2. post' \in [Turns -> Post] /\ row' \in [Turns -> Row]
    BY <1>0, <1>4, <2>1, Zenon DEF InsertAnswer, Becomes
  <2>3. \A m \in Turns : /\ post'[m].seen = post[m].seen /\ post'[m].fold = post[m].fold
                         /\ post'[m].prior = post[m].prior
    BY <1>0, <1>4, Zenon DEF InsertAnswer, Becomes, Post
  <2>4. QED
    BY <1>4, <2>2, <2>3, CreateKeepsTypes, Zenon DEF InsertAnswer
<1>5. ASSUME NEW n \in Turns, PersistArtifact(n) PROVE Types'
  BY <1>0, <1>5, CreateKeepsTypes DEF PersistArtifact
<1>6. ASSUME NEW n \in Turns, RequestFails(n) PROVE Types'
  BY <1>0, <1>1, <1>6, Zenon DEF RequestFails, Ends, Statement
<1>7. ASSUME NEW n \in Turns, Register(n) PROVE Types'
  BY <1>0, <1>2, <1>7, Zenon DEF Register, Statement
<1>8. ASSUME NEW n \in Turns, Say(n) PROVE Types'
  <2>1. [post[n] EXCEPT !.said = @ + 1] \in Post
    <3>1. post[n].said + 1 \in 0 .. MaxText
      BY <1>0, <1>8, ChatAssumption DEF Say, Post
    <3>2. QED
      BY <1>0, <3>1 DEF Post
  <2>2. post' = [post EXCEPT ![n] = [post[n] EXCEPT !.said = @ + 1]]
    BY <1>8 DEF Say
  <2>3. /\ [post[n] EXCEPT !.said = @ + 1].seen = post[n].seen
        /\ [post[n] EXCEPT !.said = @ + 1].fold = post[n].fold
        /\ [post[n] EXCEPT !.said = @ + 1].prior = post[n].prior
    BY <1>0 DEF Post
  <2>4. QED
    BY <1>0, <1>8, <2>1, <2>2, <2>3, FrameTypes DEF Say, Types
<1>9. ASSUME NEW n \in Turns, LoopEnds(n) PROVE Types'
  <2>1. CASE \E s \in Statement : Becomes(n, s)
    BY <1>0, <1>2, <1>9, <2>1, Zenon DEF LoopEnds
  <2>2. CASE post' = [post EXCEPT ![n].next = "save", ![n].errored = TRUE, ![n].told = "error"]
    <3> DEFINE f == [post[n] EXCEPT !.next = "save", !.errored = TRUE, !.told = "error"]
    <3>1. f \in Post /\ f.seen = post[n].seen /\ f.fold = post[n].fold /\ f.prior = post[n].prior
      BY <1>0, Zenon DEF Post, Statement
    <3>2. post' = [post EXCEPT ![n] = f]
      BY <1>0, <2>2
    <3>3. QED
      BY <1>0, <1>9, <3>1, <3>2, FrameTypes, Zenon DEF LoopEnds, Types
  <2>3. QED
    BY <1>9, <2>1, <2>2, Zenon DEF LoopEnds, Statement
<1>10. ASSUME NEW n \in Turns, Save(n) PROVE Types'
  BY <1>0, <1>2, <1>10, WriteType, Zenon DEF Save, Statement
<1>11. ASSUME NEW n \in Turns, Wake(n) PROVE reconnect' \in [Turns -> Reconnect]
  BY <1>0, <1>11 DEF Wake, Hears, Reconnect
<1>12. ASSUME NEW n \in Turns, Notify(n) PROVE Types'
  <2>1. CASE post[n].errored
    BY <1>0, <1>1, <1>11, <1>12, <2>1, Zenon DEF Notify, Ends, Statement
  <2>2. CASE ~post[n].errored
    <3> DEFINE f == [post[n] EXCEPT !.next = "read messages", !.told = "end"]
    <3>1. f \in Post /\ f.seen = post[n].seen /\ f.fold = post[n].fold /\ f.prior = post[n].prior
      BY <1>0, Zenon DEF Post, Statement
    <3>2. post' = [post EXCEPT ![n] = f]
      BY <1>0, <1>12, <2>2, Zenon DEF Notify
    <3>3. QED
      BY <1>0, <1>11, <1>12, <3>1, <3>2, FrameTypes, Zenon DEF Notify, Types
  <2>3. QED
    BY <2>1, <2>2
<1>13. ASSUME NEW n \in Turns, TryFails(n) PROVE Types'
  <2>1. faults' \in 0 .. MaxFaults
    <3>1. faults \in 0 .. MaxFaults /\ MaxFaults \in Nat
      BY <1>0, ChatAssumption
    <3>2. faults < MaxFaults /\ faults' = faults + 1
      BY <1>13, Zenon DEF TryFails
    <3>3. QED
      BY <3>1, <3>2
  <2>2. "save error" \in Statement
    BY DEF Statement
  <2>3. QED
    BY <1>0, <1>2, <1>13, <2>1, <2>2, Zenon DEF TryFails
<1>14. ASSUME NEW n \in Turns, SaveError(n) PROVE Types'
  BY <1>0, <1>2, <1>14, WriteType, Zenon DEF SaveError, Statement
<1>15. ASSUME NEW n \in Turns, NotifyError(n) PROVE Types'
  BY <1>0, <1>1, <1>11, <1>15, Zenon DEF NotifyError, Ends, Statement
<1>16. ASSUME NEW n \in Turns, CatchFails(n) PROVE Types'
  <2>1. faults' \in 0 .. MaxFaults
    <3>1. faults \in 0 .. MaxFaults /\ MaxFaults \in Nat
      BY <1>0, ChatAssumption
    <3>2. faults < MaxFaults /\ faults' = faults + 1
      BY <1>16, Zenon DEF CatchFails
    <3>3. QED
      BY <3>1, <3>2
  <2>2. "closed" \in Statement
    BY DEF Statement
  <2>3. QED
    BY <1>0, <1>1, <1>16, <2>1, <2>2, Zenon DEF CatchFails, Ends
<1>17. ASSUME NEW n \in Turns, ReadMessages(n) PROVE Types'
  <2> DEFINE f == [post[n] EXCEPT !.next = "read boundary", !.seen = Messages \cap Live]
  <2>1. Messages \cap Live \subseteq DOMAIN timeline /\ DOMAIN timeline \subseteq Nat
    BY LenProperties DEF Messages, Types
  <2>2. f \in Post /\ f.seen = Messages \cap Live /\ f.fold = post[n].fold /\ f.prior = post[n].prior
    BY <1>0, <2>1, ZenonT(60) DEF Post, Statement
  <2>3. post' = [post EXCEPT ![n] = f]
    BY <1>0, <1>17, Zenon DEF ReadMessages
  <2>4. QED
    BY <1>0, <1>17, <2>1, <2>2, <2>3, FrameTypes, Zenon DEF ReadMessages, Types
<1>18. ASSUME NEW n \in Turns, ReadBoundary(n) PROVE Types'
  <2> DEFINE raw   == Uncompacted(post[n].seen, LiveBoundaries)
             prior == IF LiveBoundaries = {} THEN {} ELSE boundaries[Max(LiveBoundaries)].covers
             fold  == AllButLast(raw, KeepRaw)
             f     == [post[n] EXCEPT !.next = "insert boundary", !.fold = fold, !.prior = prior]
  <2>1. fold \subseteq DOMAIN timeline
    BY DEF Types, Uncompacted, AllButLast
  <2>2. prior \subseteq DOMAIN timeline
    BY NewestBoundary DEF Types, TypeOK
  <2>3. DOMAIN timeline \subseteq Nat
    BY LenProperties DEF Types
  <2> HIDE DEF fold, prior
  <2>4. f \in Post /\ f.seen = post[n].seen /\ f.fold = fold /\ f.prior = prior
    BY <1>0, <2>1, <2>2, <2>3, ZenonT(60) DEF Post, Statement
  <2>5. CASE Ends(n, "end")
    BY <1>0, <1>1, <1>18, <2>5, Zenon DEF ReadBoundary, Ends, Statement
  <2>6. CASE post' = [post EXCEPT ![n] = f]
    BY <1>0, <1>18, <2>1, <2>2, <2>4, <2>6, FrameTypes, Zenon DEF ReadBoundary, Types
  <2>7. QED
    BY <1>18, <2>5, <2>6, Zenon DEF ReadBoundary, raw, fold, prior
<1>19. ASSUME NEW n \in Turns, InsertBoundary(n) PROVE Types'
  <2> DEFINE b == [upTo |-> Max(post[n].fold), covers |-> post[n].fold \cup post[n].prior]
  <2>1. post' \in [Turns -> Post]
        /\ \A m \in Turns : /\ post'[m].seen \subseteq DOMAIN timeline
                            /\ post'[m].fold \subseteq DOMAIN timeline
                            /\ post'[m].prior \subseteq DOMAIN timeline
    <3>1. Over(n, "closed", "end") \in Post
          /\ Over(n, "closed", "end").seen = {} /\ Over(n, "closed", "end").fold = {}
          /\ Over(n, "closed", "end").prior = {}
      <4>1. "closed" \in Statement
        BY DEF Statement
      <4>2. QED
        BY <4>1, OverType
    <3>2. QED
      BY <1>0, <1>19, <3>1, Zenon DEF InsertBoundary, Ends, Types
  <2>2. CASE boundaries' = boundaries
    BY <1>0, <1>19, <2>1, <2>2, QuietTypes, Zenon DEF InsertBoundary, Types, TypeOK
  <2>3. CASE Max(post[n].fold) \in Live /\ boundaries' = Append(boundaries, b)
    <3>1. DOMAIN timeline \subseteq Nat
      BY LenProperties DEF Types
    <3>2. b \in Boundary /\ b.upTo \in DOMAIN timeline /\ b.covers \subseteq DOMAIN timeline
      BY <2>3, <3>1 DEF Types, Live, Boundary
    <3>3. /\ boundaries' \in Seq(Boundary) /\ Len(boundaries') = Len(boundaries) + 1
          /\ \A i \in 1 .. Len(boundaries) : boundaries'[i] = boundaries[i]
          /\ boundaries'[Len(boundaries) + 1] = b
      BY <2>3, <3>2, AppendProperties DEF Types
    <3>4. DOMAIN boundaries' = 1 .. Len(boundaries) + 1 /\ DOMAIN boundaries = 1 .. Len(boundaries)
          /\ Len(boundaries) \in Nat
      BY <3>3, LenProperties DEF Types
    <3>5. \A i \in DOMAIN boundaries' :
            boundaries'[i].upTo \in DOMAIN timeline /\ boundaries'[i].covers \subseteq DOMAIN timeline
      BY <3>2, <3>3, <3>4 DEF Types, TypeOK
    <3>6. QED
      BY <1>0, <1>19, <2>1, <3>3, <3>5, Zenon DEF InsertBoundary, Types, TypeOK
  <2>4. QED
    BY <1>19, <2>2, <2>3, Zenon DEF InsertBoundary
<1>20. ASSUME NEW n \in Turns, PostProcessingFails(n) PROVE Types'
  BY <1>0, <1>1, <1>20, Zenon DEF PostProcessingFails, Ends, Statement
<1>21. ASSUME NEW n \in Turns, Stop(n) PROVE Types'
  <2> DEFINE f == [post[n] EXCEPT !.aborted = TRUE]
  <2>1. f \in Post /\ f.seen = post[n].seen /\ f.fold = post[n].fold /\ f.prior = post[n].prior
    BY <1>0 DEF Post
  <2>2. post' = [post EXCEPT ![n] = f]
    BY <1>0, <1>21 DEF Stop
  <2>3. QED
    BY <1>0, <1>21, <2>1, <2>2, FrameTypes DEF Stop, Types
<1>22. ASSUME NEW n \in Turns, Listen(n) \/ ReadStatus(n) \/ ReadOutcome(n) PROVE Types'
  <2>1. reconnect' \in [Turns -> Reconnect]
    <3>1. NoStream \in Reconnect /\ [at |-> "listening", signal |-> FALSE] \in Reconnect
          /\ [reconnect[n] EXCEPT !.at = "waiting"] \in Reconnect
      BY <1>0 DEF NoStream, Reconnect
    <3>2. QED
      BY <1>0, <1>22, <3>1 DEF Listen, ReadStatus, ReadOutcome
  <2>2. QED
    BY <1>22, <2>1, QuietTypes DEF Listen, ReadStatus, ReadOutcome, Types, TypeOK
<1>23. ASSUME NEW p \in DOMAIN timeline, DeleteMessages(p) PROVE Types'
  <2>1. row' \in [Turns -> Row]
    BY <1>0, <1>23, ChatAssumption DEF DeleteMessages, NoRow, Row
  <2>2. truncation' \in [from : {0} \cup DOMAIN timeline, count : 0 .. MaxTruncations]
    BY <1>23, ChatAssumption DEF DeleteMessages, Types, TypeOK
  <2>3. deleted' \subseteq DOMAIN timeline
    BY <1>23 DEF DeleteMessages, Messages, Types, TypeOK
  <2>4. QED
    BY <1>23, <2>1, <2>2, <2>3, QuietTypes DEF DeleteMessages, Types, TypeOK
<1>24. CASE DeleteArtifacts
  <2>1. truncation' \in [from : {0} \cup DOMAIN timeline, count : 0 .. MaxTruncations]
    BY <1>24 DEF DeleteArtifacts, Types, TypeOK
  <2>2. deleted' \subseteq DOMAIN timeline
    BY <1>24 DEF DeleteArtifacts, Types, TypeOK
  <2>3. QED
    BY <1>24, <2>1, <2>2, QuietTypes DEF DeleteArtifacts, Types, TypeOK
<1>25. CASE Restart
  <2>1. row' \in [Turns -> Row]
    BY <1>0, <1>25 DEF Restart, Swept, Row
  <2>2. \A n \in Turns : post[n].told \in {"nothing", "end", "error"}
    BY <1>0 DEF Post
  <2>3. ASSUME NEW n \in Turns
        PROVE  /\ post'[n] \in Post /\ post'[n].seen \subseteq DOMAIN timeline
               /\ post'[n].fold \subseteq DOMAIN timeline /\ post'[n].prior \subseteq DOMAIN timeline
    <3>1. post'[n] = post[n] \/ post'[n] = Over(n, "dead", post[n].told)
      BY <1>25 DEF Restart
    <3>2. /\ Over(n, "dead", post[n].told) \in Post /\ Over(n, "dead", post[n].told).seen = {}
          /\ Over(n, "dead", post[n].told).fold = {} /\ Over(n, "dead", post[n].told).prior = {}
      <4>1. "dead" \in Statement
        BY DEF Statement
      <4>2. QED
        BY <2>2, <4>1, OverType
    <3>3. QED
      BY <1>0, <3>1, <3>2 DEF Types
  <2>4. post' \in [Turns -> Post]
    BY <1>25, <2>3 DEF Restart
  <2>5. reconnect' \in [Turns -> Reconnect]
    BY <1>25 DEF Restart, NoStream, Reconnect
  <2>6. truncation' \in [from : {0} \cup DOMAIN timeline, count : 0 .. MaxTruncations]
        /\ restarts' \in 0 .. MaxRestarts
    BY <1>25, ChatAssumption, SMTT(30) DEF Restart, Types, TypeOK
  <2>7. QED
    BY <1>25, <2>1, <2>3, <2>4, <2>5, <2>6, QuietTypes DEF Restart, Types, TypeOK
<1>26. CASE UNCHANGED vars
  BY <1>26 DEF vars, Types, TypeOK
<1>27. QED
  BY <1>3, <1>4, <1>5, <1>6, <1>7, <1>8, <1>9, <1>10, <1>12, <1>13, <1>14, <1>15, <1>16, <1>17,
     <1>18, <1>19, <1>20, <1>21, <1>22, <1>23, <1>24, <1>25, <1>26
  DEF Next, Serve, Generate, Answer

-----------------------------------------------------------------------------
(* What a step does to the messages that are left. *)

LEMMA Grows ==
  ASSUME [Next]_vars
  PROVE  \/ UNCHANGED <<timeline, deleted>>
         \/ \E n \in Turns, role \in {"user", "assistant", "artifact"} :
              Create(n, role) /\ deleted' = deleted /\ (role = "assistant" => InsertAnswer(n))
         \/ timeline' = timeline /\ deleted \subseteq deleted'
<1>1. ASSUME NEW n \in Turns,
             InsertQuestion(n) \/ InsertAnswer(n) \/ PersistArtifact(n)
      PROVE  \E role \in {"user", "assistant", "artifact"} :
              Create(n, role) /\ deleted' = deleted /\ (role = "assistant" => InsertAnswer(n))
  BY <1>1, Zenon DEF InsertQuestion, InsertAnswer, PersistArtifact
<1>2. ASSUME NEW n \in Turns,
             \/ RequestFails(n) \/ Register(n) \/ Say(n) \/ LoopEnds(n) \/ Save(n) \/ Notify(n)
             \/ TryFails(n) \/ SaveError(n) \/ NotifyError(n) \/ CatchFails(n)
      PROVE  UNCHANGED <<timeline, deleted>>
  BY <1>2, Zenon DEF RequestFails, Register, Say, LoopEnds, Save, Notify, TryFails, SaveError,
              NotifyError, CatchFails
<1>3. ASSUME NEW n \in Turns,
             \/ ReadMessages(n) \/ ReadBoundary(n) \/ InsertBoundary(n) \/ PostProcessingFails(n)
             \/ Stop(n) \/ Listen(n) \/ ReadStatus(n) \/ ReadOutcome(n)
      PROVE  UNCHANGED <<timeline, deleted>>
  BY <1>3, Zenon DEF ReadMessages, ReadBoundary, InsertBoundary, PostProcessingFails, Stop, Listen,
              ReadStatus, ReadOutcome
<1>4. ASSUME NEW p, DeleteMessages(p) PROVE timeline' = timeline /\ deleted \subseteq deleted'
  BY <1>4 DEF DeleteMessages
<1>5. CASE DeleteArtifacts
  BY <1>5 DEF DeleteArtifacts
<1>6. CASE Restart
  BY <1>6 DEF Restart
<1>7. CASE UNCHANGED vars
  BY <1>7 DEF vars
<1>8. QED
  BY <1>1, <1>2, <1>3, <1>4, <1>5, <1>6, <1>7 DEF Next, Serve, Generate, Answer

\* Messages come at the end or go, and none comes back.
LEMMA Onward ==
  ASSUME Types, [Next]_vars
  PROVE  /\ \A p \in Messages' \cap Live' :
              p \in Messages \cap Live \/ \A q \in DOMAIN timeline : q < p
         /\ Live' \cap DOMAIN timeline \subseteq Live
         /\ \A m \in Turns : Stored(m)' => Stored(m) \/ InsertAnswer(m)
<1>1. CASE UNCHANGED <<timeline, deleted>>
  BY <1>1 DEF Messages, Live, Stored
<1>2. ASSUME NEW n \in Turns, NEW role \in {"user", "assistant", "artifact"},
             Create(n, role), deleted' = deleted, role = "assistant" => InsertAnswer(n)
      PROVE  /\ \A p \in Messages' \cap Live' :
                   p \in Messages \cap Live \/ \A q \in DOMAIN timeline : q < p
             /\ Live' \cap DOMAIN timeline \subseteq Live
             /\ \A m \in Turns : Stored(m)' => Stored(m) \/ InsertAnswer(m)
  <2> DEFINE new == Len(timeline) + 1
  <2>1. new \notin DOMAIN timeline /\ \A q \in DOMAIN timeline : q < new
    BY <1>2, CreateViews
  <2>2. Live' = Live \cup {new} /\ Messages' \subseteq Messages \cup {new}
        /\ \A m \in Turns : Stored(m)' <=> Stored(m) \/ (m = n /\ role = "assistant")
    BY <1>2, CreateGrows
  <2> HIDE DEF new
  <2>3. Messages \subseteq DOMAIN timeline /\ Live \subseteq DOMAIN timeline
    BY DEF Messages, Live
  <2>4. QED
    BY <1>2, <2>1, <2>2, <2>3
<1>3. CASE timeline' = timeline /\ deleted \subseteq deleted'
  <2>1. Live' \subseteq Live /\ Messages' = Messages
    BY <1>3 DEF Live, Messages
  <2>2. \A m \in Turns : Stored(m)' => Stored(m)
    BY <1>3, <2>1 DEF Stored
  <2>3. QED
    BY <2>1, <2>2
<1>4. QED
  BY <1>1, <1>2, <1>3, Grows

-----------------------------------------------------------------------------
(* What the client was told. *)

\* A step that leaves the frame of a turn, and its row while it is stored.
LEMMA ToldKept ==
  ASSUME NEW m \in Turns, Told(m), post'[m] = post[m],
         Stored(m)' => Stored(m) /\ row'[m] = row[m]
  PROVE  Told(m)'
BY Zenon DEF Told, At

\* A frame that is over was told the end before, or is not told so.
LEMMA ToldOver ==
  ASSUME Types, NEW m \in Turns, Told(m), NEW s \in {"closed", "dead"},
         NEW told \in {"nothing", "end", "error"}, told = "end" => post[m].told = "end",
         post' = [post EXCEPT ![m] = Over(m, s, told)],
         Stored(m)' => Stored(m) /\ row'[m] = row[m]
  PROVE  Told(m)'
<1>1. s \in Statement
  BY Zenon DEF Statement
<1>2. post'[m].next = s /\ post'[m].told = told /\ post'[m].said = post[m].said
  BY <1>1, OverType DEF Types, TypeOK
<1>3. QED
  BY <1>2, Zenon DEF Told, At

LEMMA InsertAnswerMoves ==
  ASSUME Types, NEW m \in Turns, InsertAnswer(m)
  PROVE  post[m].next = "insert answer" /\ post'[m].next = "register"
BY ZenonT(60) DEF Types, TypeOK, Post, InsertAnswer, Becomes, At

LEMMA StepTold ==
  ASSUME IInv, [Next]_vars, NEW m \in Turns
  PROVE  Told(m)'
<1>0. /\ Types /\ Told(m) /\ post \in [Turns -> Post] /\ row \in [Turns -> Row]
      /\ post[m].told \in {"nothing", "end", "error"}
  BY DEF IInv, Types, TypeOK, Post
<1>1. Stored(m)' => Stored(m) \/ InsertAnswer(m)
  BY <1>0, Onward
<1>2. CASE post'[m] = post[m] /\ (Stored(m)' => row'[m] = row[m]) /\ ~InsertAnswer(m)
  BY <1>0, <1>1, <1>2, ToldKept
<1>3. ASSUME NEW n \in Turns, n # m,
             \/ InsertQuestion(n) \/ RequestFails(n) \/ Generate(n) \/ PersistArtifact(n)
             \/ TryFails(n) \/ CatchFails(n) \/ Stop(n) \/ Listen(n) \/ Answer(n)
      PROVE  post'[m] = post[m] /\ row'[m] = row[m]
  BY <1>0, <1>3, Zenon DEF InsertQuestion, RequestFails, Generate, PersistArtifact, TryFails, CatchFails,
       Stop, Listen, Answer, InsertAnswer, Register, Say, LoopEnds, Save, Notify, SaveError,
       NotifyError, ReadMessages, ReadBoundary, InsertBoundary, PostProcessingFails, ReadStatus,
       ReadOutcome, Becomes, Ends, Write
<1>4. CASE \E p \in DOMAIN timeline : DeleteMessages(p)
  <2>1. post'[m] = post[m] /\ (Stored(m)' => row'[m] = row[m])
    BY <1>4 DEF DeleteMessages
  <2>2. ~InsertAnswer(m)
    BY <1>0, <2>1, InsertAnswerMoves, Zenon
  <2>3. QED
    BY <1>2, <2>1, <2>2
<1>5. CASE DeleteArtifacts \/ UNCHANGED vars
  <2>1. post' = post /\ row' = row
    BY <1>5 DEF DeleteArtifacts, vars
  <2>2. ~InsertAnswer(m)
    BY <1>0, <2>1, InsertAnswerMoves, Zenon
  <2>3. QED
    BY <1>2, <2>1, <2>2
<1>6. CASE Restart
  <2>1. Stored(m)' = Stored(m)
    BY <1>6 DEF Restart, Stored, Live
  <2>2. ASSUME NEW said, row[m] = [status |-> "done", text |-> said] PROVE row'[m] = row[m]
    <3>1. row[m].status = "done"
      BY <2>2
    <3>2. QED
      BY <1>6, <3>1 DEF Restart, Swept
  <2>3. CASE post'[m] = post[m]
    <3>1. At(m, "unsent") \/ At(m, "closed") \/ post[m] = Over(m, "dead", post[m].told)
      BY <1>6, <2>3 DEF Restart, At
    <3>2. "dead" \in Statement
      BY DEF Statement
    <3>3. post[m].next \in {"unsent", "closed", "dead"}
      BY <1>0, <3>1, <3>2, OverType DEF At
    <3>4. QED
      BY <1>0, <2>1, <2>2, <2>3, <3>3, Zenon DEF Told, At
  <2>4. CASE post'[m] = Over(m, "dead", post[m].told)
    <3>1. "dead" \in Statement
      BY DEF Statement
    <3>2. post'[m].next = "dead" /\ post'[m].told = post[m].told /\ post'[m].said = post[m].said
      BY <1>0, <2>4, <3>1, OverType
    <3>3. QED
      BY <1>0, <2>1, <2>2, <3>2, Zenon DEF Told, At
  <2>5. QED
    BY <1>6, <2>3, <2>4 DEF Restart
<1>7. CASE InsertQuestion(m) \/ Register(m)
  <2>1. post'[m].next \in {"insert answer", "generate"} /\ post'[m].told = post[m].told
        /\ post[m].next \in {"unsent", "register"}
    BY <1>0, <1>7, Zenon DEF InsertQuestion, Register, Becomes, At, Post
  <2>2. QED
    BY <1>0, <2>1, Zenon DEF Told, At
<1>8. CASE InsertAnswer(m)
  <2>1. post'[m].next = "register" /\ post'[m].told = post[m].told /\ post[m].next = "insert answer"
    BY <1>0, <1>8, Zenon DEF InsertAnswer, Becomes, At, Post
  <2>2. QED
    BY <1>0, <2>1, Zenon DEF Told, At
<1>9. CASE RequestFails(m)
  <2>1. row' = row /\ Stored(m)' = Stored(m)
    BY <1>9, Zenon DEF RequestFails, Stored, Live
  <2>2. QED
    BY <1>0, <1>9, <2>1, ToldOver, Zenon DEF RequestFails, Ends
<1>10. CASE Say(m)
  <2>1. post'[m].next = "generate" /\ post'[m].told = post[m].told /\ post[m].next = "generate"
    BY <1>0, <1>10 DEF Say, At, Post
  <2>2. QED
    BY <1>0, <2>1 DEF Told, At
<1>11. CASE PersistArtifact(m) \/ Listen(m) \/ Answer(m)
  <2>1. post'[m] = post[m] /\ row' = row
    BY <1>11 DEF PersistArtifact, Listen, Answer, ReadStatus, ReadOutcome
  <2>2. ~InsertAnswer(m)
    BY <1>0, <2>1, InsertAnswerMoves, Zenon
  <2>3. QED
    BY <1>2, <2>1, <2>2
<1>12. CASE LoopEnds(m)
  <2>1. post'[m].next \in {"save", "save error"} /\ post[m].next = "generate"
        /\ post'[m].told \in {post[m].told, "error"}
    <3>1. CASE Becomes(m, "save") \/ Becomes(m, "save error")
      BY <1>0, <1>12, <3>1, Zenon DEF LoopEnds, Becomes, At, Post
    <3>2. CASE post' = [post EXCEPT ![m].next = "save", ![m].errored = TRUE, ![m].told = "error"]
      BY <1>0, <1>12, <3>2 DEF LoopEnds, At, Post
    <3>3. QED
      BY <1>12, <3>1, <3>2, Zenon DEF LoopEnds
  <2>2. QED
    BY <1>0, <2>1, Zenon DEF Told, At
<1>13. CASE Save(m)
  <2>1. post[m].next = "save" /\ post'[m].next = "notify" /\ post'[m].told = post[m].told
        /\ post'[m].said = post[m].said /\ post'[m].errored = post[m].errored
    BY <1>0, <1>13 DEF Save, Becomes, At, Post
  <2>2. Stored(m)' = Stored(m)
    BY <1>13 DEF Save, Stored, Live
  <2>3. Stored(m) /\ ~post[m].errored => row'[m] = [status |-> "done", text |-> post[m].said]
    BY <1>0, <1>13 DEF Save, Write
  <2>4. QED
    BY <1>0, <2>1, <2>2, <2>3 DEF Told, At
<1>14. CASE Notify(m)
  <2>1. row' = row /\ Stored(m)' = Stored(m) /\ At(m, "notify")
    BY <1>14, Zenon DEF Notify, Stored, Live
  <2>2. CASE post[m].errored
    BY <1>0, <1>14, <2>1, <2>2, ToldOver DEF Notify, Ends
  <2>3. CASE ~post[m].errored
    <3>1. post'[m].next = "read messages" /\ post'[m].told = "end" /\ post'[m].said = post[m].said
      BY <1>0, <1>14, <2>3, ZenonT(60) DEF Notify, Post
    <3>2. QED
      BY <1>0, <2>1, <2>3, <3>1, Zenon DEF Told, At
  <2>4. QED
    BY <2>2, <2>3
<1>15. CASE TryFails(m)
  <2>1. post'[m].next = "save error" /\ post'[m].told = post[m].told
        /\ post[m].next \in {"save", "notify"}
    BY <1>0, <1>15, Zenon DEF TryFails, Becomes, At, Post
  <2>2. QED
    BY <1>0, <2>1, Zenon DEF Told, At
<1>16. CASE SaveError(m)
  <2>1. post'[m].next = "notify error" /\ post'[m].told = post[m].told
        /\ post[m].next = "save error"
    BY <1>0, <1>16, Zenon DEF SaveError, Becomes, At, Post
  <2>2. QED
    BY <1>0, <2>1, Zenon DEF Told, At
<1>17. CASE NotifyError(m) \/ CatchFails(m)
  <2>1. row' = row /\ Stored(m)' = Stored(m)
    BY <1>17, Zenon DEF NotifyError, CatchFails, Stored, Live
  <2>2. QED
    BY <1>0, <1>17, <2>1, ToldOver, Zenon DEF NotifyError, CatchFails, Ends
<1>18. CASE ReadMessages(m)
  <2>1. post[m].next = "read messages" /\ post'[m].next = "read boundary"
        /\ post'[m].told = post[m].told /\ post'[m].said = post[m].said
    BY <1>0, <1>18, Zenon DEF ReadMessages, At, Post
  <2>2. row' = row /\ Stored(m)' = Stored(m)
    BY <1>18, Zenon DEF ReadMessages, Stored, Live
  <2>3. QED
    BY <1>0, <2>1, <2>2, Zenon DEF Told, At
<1>19. ASSUME Ends(m, "end"), UNCHANGED <<timeline, deleted, row>>,
              post[m].next \in {"read messages", "read boundary", "insert boundary"}
       PROVE  Told(m)'
  <2>1. row' = row /\ Stored(m)' = Stored(m)
    BY <1>19, Zenon DEF Stored, Live
  <2>2. post[m].told = "end"
    BY <1>0, <1>19, Zenon DEF Told
  <2>3. QED
    BY <1>0, <1>19, <2>1, <2>2, ToldOver, Zenon DEF Ends
<1>20. CASE ReadBoundary(m)
  <2>1. row' = row /\ Stored(m)' = Stored(m) /\ At(m, "read boundary")
    BY <1>20, Zenon DEF ReadBoundary, Stored, Live
  <2>2. CASE Ends(m, "end")
    BY <1>19, <1>20, <2>1, <2>2, Zenon DEF ReadBoundary, At
  <2>3. CASE ~Ends(m, "end")
    <3>1. post'[m].next = "insert boundary" /\ post'[m].told = post[m].told
          /\ post'[m].said = post[m].said
      <4>1. PICK fold, prior :
              post' = [post EXCEPT ![m] = [@ EXCEPT
                        !.next = "insert boundary", !.fold = fold, !.prior = prior]]
        BY <1>20, <2>3, Zenon DEF ReadBoundary
      <4>2. QED
        BY <1>0, <4>1 DEF Post
    <3>2. QED
      BY <1>0, <2>1, <3>1, Zenon DEF Told, At
  <2>4. QED
    BY <2>2, <2>3
<1>21. CASE InsertBoundary(m) \/ PostProcessingFails(m)
  BY <1>19, <1>21, Zenon DEF InsertBoundary, PostProcessingFails, At
<1>22. CASE Stop(m)
  <2>1. post'[m].next = post[m].next /\ post'[m].told = post[m].told /\ post'[m].said = post[m].said
        /\ post'[m].errored = post[m].errored
    BY <1>0, <1>22 DEF Stop, Post
  <2>2. row' = row /\ Stored(m)' = Stored(m)
    BY <1>22 DEF Stop, Stored, Live
  <2>3. QED
    BY <1>0, <2>1, <2>2, Zenon DEF Told, At
<1>23. ASSUME NEW n \in Turns, n # m,
             \/ InsertQuestion(n) \/ RequestFails(n) \/ Generate(n) \/ PersistArtifact(n)
             \/ TryFails(n) \/ CatchFails(n) \/ Stop(n) \/ Listen(n) \/ Answer(n)
       PROVE  Told(m)'
  <2>1. post'[m] = post[m] /\ row'[m] = row[m]
    BY <1>3, <1>23
  <2>2. ~InsertAnswer(m)
    BY <1>0, <2>1, InsertAnswerMoves, Zenon
  <2>3. QED
    BY <1>2, <2>1, <2>2
<1>24. QED
  BY <1>4, <1>5, <1>6, <1>7, <1>8, <1>9, <1>10, <1>11, <1>12, <1>13, <1>14, <1>15, <1>16, <1>17,
     <1>18, <1>20, <1>21, <1>22, <1>23
  DEF Next, Serve, Generate

-----------------------------------------------------------------------------
(* What a summary covers. *)

\* All but the last k elements: some, if there are more, and the first ones.
LEMMA AllButLastIs ==
  ASSUME NEW n \in Nat, NEW S, S \subseteq 0 .. n, NEW k \in Nat, Cardinality(S) > k
  PROVE  /\ AllButLast(S, k) # {} /\ AllButLast(S, k) \subseteq S
         /\ \A p \in S, q \in AllButLast(S, k) : p <= q => p \in AllButLast(S, k)
<1> DEFINE above(p) == {q \in S : p < q}
<1>1. IsFiniteSet(S) /\ Cardinality(S) \in Nat /\ S \subseteq Nat
  BY BoundedIsFinite
<1>2. \A p \in S : IsFiniteSet(above(p)) /\ Cardinality(above(p)) \in Nat
  BY <1>1, FS_Subset, FS_CardinalityType
<1>3. AllButLast(S, k) # {}
  <2>1. S # {}
    BY <1>1, FS_EmptySet
  <2>2. PICK x \in S : \A y \in S : x <= y
    BY <1>1, <2>1, LeastExists
  <2>3. above(x) = S \ {x}
    <3>1. x \in Nat /\ S \subseteq Nat
      BY <1>1, <2>2
    <3>2. \A y \in S : x < y <=> y # x
      BY <2>2, <3>1
    <3>3. QED
      BY <3>2
  <2>4. Cardinality(above(x)) = Cardinality(S) - 1
    BY <1>1, <2>3, FS_RemoveElement
  <2>5. Cardinality(above(x)) >= k
    BY <1>1, <2>4
  <2>6. QED
    BY <2>5 DEF AllButLast
<1>4. ASSUME NEW p \in S, NEW q \in AllButLast(S, k), p <= q
      PROVE  p \in AllButLast(S, k)
  <2>1. q \in S /\ Cardinality(above(q)) >= k
    BY DEF AllButLast
  <2>2. above(q) \subseteq above(p)
    <3>1. p \in Nat /\ q \in Nat /\ S \subseteq Nat
      BY <1>1, <2>1
    <3>2. \A r \in S : q < r => p < r
      BY <1>4, <3>1
    <3>3. QED
      BY <3>2
  <2>3. Cardinality(above(q)) <= Cardinality(above(p))
    BY <1>2, <2>2, FS_Subset
  <2>4. Cardinality(above(p)) >= k
    BY <1>2, <2>1, <2>3
  <2>5. QED
    BY <2>4 DEF AllButLast
<1>5. QED
  BY <1>3, <1>4 DEF AllButLast

LEMMA TimelineIsNat ==
  ASSUME Types
  PROVE  /\ DOMAIN timeline = 1 .. Len(timeline) /\ Len(timeline) \in Nat
         /\ DOMAIN timeline \subseteq 0 .. Len(timeline) /\ DOMAIN timeline \subseteq Nat
         /\ Messages \subseteq DOMAIN timeline /\ Live \subseteq DOMAIN timeline
<1>1. DOMAIN timeline = 1 .. Len(timeline) /\ Len(timeline) \in Nat
  BY LenProperties DEF Types
<1>2. QED
  BY <1>1 DEF Messages, Live

\* The summary that is being written covers all that is left up to its end.
LEMMA FoldCovers ==
  ASSUME Types, SummariesReachBack, NEW n \in Turns,
         \A p \in Messages \cap Live, q \in post[n].seen : p <= q => p \in post[n].seen,
         ~(Cardinality(Uncompacted(post[n].seen, LiveBoundaries)) <= CompactThreshold)
  PROVE  LET fold  == AllButLast(Uncompacted(post[n].seen, LiveBoundaries), KeepRaw)
             prior == IF LiveBoundaries = {} THEN {} ELSE boundaries[Max(LiveBoundaries)].covers
         IN  /\ fold # {}
             /\ \A p \in Messages \cap Live : p <= Max(fold) => p \in fold \cup prior
<1> DEFINE raw    == Uncompacted(post[n].seen, LiveBoundaries)
           fold   == AllButLast(raw, KeepRaw)
           newest == boundaries[Max(LiveBoundaries)]
           prior  == IF LiveBoundaries = {} THEN {} ELSE newest.covers
<1>1. raw \subseteq post[n].seen /\ post[n].seen \subseteq DOMAIN timeline
  BY DEF Types, Uncompacted
<1>2. raw \subseteq 0 .. Len(timeline) /\ Len(timeline) \in Nat
  BY <1>1, TimelineIsNat
<1>3. Cardinality(raw) > KeepRaw /\ KeepRaw \in Nat
  <2>1. ~(Cardinality(raw) <= CompactThreshold)
    OBVIOUS
  <2>2. Cardinality(raw) \in Nat
    BY <1>2, BoundedIsFinite
  <2>3. KeepRaw \in Nat /\ CompactThreshold \in Nat /\ KeepRaw <= CompactThreshold
    BY ChatAssumption
  <2> HIDE DEF raw
  <2>4. QED
    BY <2>1, <2>2, <2>3
<1>4. /\ fold # {} /\ fold \subseteq raw
      /\ \A p \in raw, q \in fold : p <= q => p \in fold
  <2> HIDE DEF raw
  <2>1. QED
    BY <1>2, <1>3, AllButLastIs
<1>5. Max(fold) \in fold
  <2> HIDE DEF raw, fold
  <2>1. fold \subseteq 0 .. Len(timeline)
    BY <1>2, <1>4
  <2>2. QED
    BY <1>2, <1>4, <2>1, MaxIs
<1>6. ASSUME NEW p \in Messages \cap Live, p <= Max(fold)
      PROVE  p \in fold \cup prior
  <2>1. p \in post[n].seen
    <3> HIDE DEF raw, fold
    <3>1. QED
      BY <1>1, <1>4, <1>5, <1>6
  <2>2. CASE p \in raw
    <3> HIDE DEF raw, fold
    <3>1. QED
      BY <1>4, <1>5, <1>6, <2>2
  <2>3. CASE p \notin raw
    <3>1. LiveBoundaries # {} /\ ~(p > newest.upTo)
      BY <2>1, <2>3 DEF Uncompacted
    <3>2. Max(LiveBoundaries) \in LiveBoundaries /\ newest.upTo \in DOMAIN timeline
      BY <3>1, NewestBoundary DEF Types, TypeOK
    <3>3. p \in Nat /\ newest.upTo \in Nat
      BY <3>2, TimelineIsNat
    <3>4. p <= newest.upTo
      <4> HIDE DEF newest, fold
      <4>1. QED
        BY <3>1, <3>3
    <3>5. p \in newest.covers
      BY <3>2, <3>4 DEF SummariesReachBack
    <3>6. QED
      BY <3>1, <3>5
  <2>4. QED
    BY <2>2, <2>3
<1>7. QED
  BY <1>4, <1>6

\* A set that has all that is left up to a position keeps having it.
LEMMA CoverKept ==
  ASSUME Types, [Next]_vars, NEW u \in DOMAIN timeline, NEW C,
         \A p \in Messages \cap Live : p <= u => p \in C
  PROVE  \A p \in Messages' \cap Live' : p <= u => p \in C
<1>1. \A p \in Messages' \cap Live' : p \in Messages \cap Live \/ \A q \in DOMAIN timeline : q < p
  BY Onward
<1>2. DOMAIN timeline \subseteq Nat
  BY TimelineIsNat
<1>3. Messages' \subseteq Nat
  <2>1. timeline' \in Seq(Event)
    BY StepTypes DEF Types
  <2>2. DOMAIN timeline' = 1 .. Len(timeline') /\ Len(timeline') \in Nat
    BY <2>1, LenProperties
  <2>3. QED
    BY <2>2 DEF Messages
<1>4. QED
  BY <1>1, <1>2, <1>3

\* What was read stays enough while its frame stands.
LEMMA ReadKept ==
  ASSUME IInv, [Next]_vars, NEW m \in Turns,
         \/ post'[m].next \notin {"read boundary", "insert boundary"}
         \/ /\ post'[m].next = post[m].next /\ post'[m].seen = post[m].seen
            /\ post'[m].fold = post[m].fold /\ post'[m].prior = post[m].prior
  PROVE  Read(m)'
<1>1. Types /\ Read(m)
  BY Zenon DEF IInv
<1>2. post[m].seen \subseteq DOMAIN timeline /\ post[m].fold \subseteq DOMAIN timeline
  BY <1>1, Zenon DEF Types
<1>3. CASE post'[m].next \notin {"read boundary", "insert boundary"}
  BY <1>3, Zenon DEF Read, At
<1>4. CASE /\ post'[m].next = post[m].next /\ post'[m].seen = post[m].seen
           /\ post'[m].fold = post[m].fold /\ post'[m].prior = post[m].prior
  <2>1. ASSUME At(m, "read boundary"), NEW q \in post[m].seen
        PROVE  \A p \in Messages' \cap Live' : p <= q => p \in post[m].seen
    <3>1. q \in DOMAIN timeline /\ \A p \in Messages \cap Live : p <= q => p \in post[m].seen
      BY <1>1, <1>2, <2>1, Zenon DEF Read
    <3>2. QED
      BY <1>1, <3>1, CoverKept, Zenon
  <2>2. ASSUME At(m, "insert boundary")
        PROVE  /\ post[m].fold # {}
               /\ \A p \in Messages' \cap Live' :
                    p <= Max(post[m].fold) => p \in post[m].fold \cup post[m].prior
    <3>1. /\ post[m].fold # {}
          /\ \A p \in Messages \cap Live :
               p <= Max(post[m].fold) => p \in post[m].fold \cup post[m].prior
      BY <1>1, <2>2, Zenon DEF Read
    <3>2. Max(post[m].fold) \in DOMAIN timeline
      BY <1>1, <1>2, <3>1, MaxIs, TimelineIsNat, Zenon
    <3>3. QED
      BY <1>1, <3>1, <3>2, CoverKept, Zenon
  <2>3. QED
    BY <1>4, <2>1, <2>2, Zenon DEF Read, At
<1>5. QED
  BY <1>3, <1>4, Zenon

LEMMA StepRead ==
  ASSUME IInv, [Next]_vars, NEW m \in Turns
  PROVE  Read(m)'
<1>0. Types /\ Read(m) /\ SummariesReachBack /\ post \in [Turns -> Post]
  BY DEF IInv, Types, TypeOK
<1>1. CASE ReadMessages(m)
  <2>1. post'[m].next = "read boundary" /\ post'[m].seen = Messages \cap Live
    BY <1>0, <1>1, Zenon DEF ReadMessages, Post
  <2>2. Messages' = Messages /\ Live' = Live
    BY <1>1, Zenon DEF ReadMessages, Messages, Live
  <2>3. QED
    BY <2>1, <2>2, Zenon DEF Read, At
<1>2. CASE ReadBoundary(m) /\ ~Ends(m, "end")
  <2> DEFINE fold  == AllButLast(Uncompacted(post[m].seen, LiveBoundaries), KeepRaw)
             prior == IF LiveBoundaries = {} THEN {} ELSE boundaries[Max(LiveBoundaries)].covers
  <2>1. /\ ~(Cardinality(Uncompacted(post[m].seen, LiveBoundaries)) <= CompactThreshold)
        /\ post' = [post EXCEPT ![m] = [@ EXCEPT
                       !.next = "insert boundary", !.fold = fold, !.prior = prior]]
    BY <1>2, Zenon DEF ReadBoundary
  <2>2. \A p \in Messages \cap Live, q \in post[m].seen : p <= q => p \in post[m].seen
    BY <1>0, <1>2, Zenon DEF Read, ReadBoundary
  <2>3. fold # {} /\ \A p \in Messages \cap Live : p <= Max(fold) => p \in fold \cup prior
    BY <1>0, <2>1, <2>2, FoldCovers
  <2> HIDE DEF fold, prior
  <2>4. post'[m].next = "insert boundary" /\ post'[m].fold = fold /\ post'[m].prior = prior
    BY <1>0, <2>1 DEF Post
  <2>5. Messages' = Messages /\ Live' = Live
    BY <1>2, Zenon DEF ReadBoundary, Messages, Live
  <2>6. QED
    BY <2>3, <2>4, <2>5, Zenon DEF Read, At
<1>3. CASE \/ post'[m].next \notin {"read boundary", "insert boundary"}
           \/ /\ post'[m].next = post[m].next /\ post'[m].seen = post[m].seen
              /\ post'[m].fold = post[m].fold /\ post'[m].prior = post[m].prior
  BY <1>3, ReadKept, Zenon
<1>4. ASSUME NEW told \in {"nothing", "end", "error"}, Ends(m, told) PROVE Read(m)'
  <2>1. "closed" \in Statement
    BY DEF Statement
  <2>2. post'[m].next = "closed"
    BY <1>0, <1>4, <2>1, OverType DEF Ends
  <2>3. QED
    BY <1>3, <2>2
<1>5. ASSUME NEW s \in Statement, Becomes(m, s), s \notin {"read boundary", "insert boundary"}
      PROVE  Read(m)'
  <2>1. post'[m].next = s
    BY <1>0, <1>5, Zenon DEF Becomes, Post
  <2>2. QED
    BY <1>3, <1>5, <2>1, Zenon
<1>6. CASE post'[m] = post[m]
  BY <1>3, <1>6
<1>7. CASE \/ InsertQuestion(m) \/ InsertAnswer(m) \/ Register(m) \/ Save(m)
           \/ TryFails(m) \/ SaveError(m)
  BY <1>5, <1>7, Zenon DEF InsertQuestion, InsertAnswer, Register, Save, TryFails, SaveError, Statement
<1>8. CASE \/ RequestFails(m) \/ NotifyError(m) \/ CatchFails(m)
           \/ InsertBoundary(m) \/ PostProcessingFails(m)
  BY <1>4, <1>8, Zenon DEF RequestFails, NotifyError, CatchFails, InsertBoundary, PostProcessingFails
<1>9. CASE PersistArtifact(m) \/ Listen(m) \/ Answer(m)
  BY <1>6, <1>9 DEF PersistArtifact, Listen, Answer, ReadStatus, ReadOutcome
<1>10. CASE Say(m) \/ Stop(m)
  <2>1. /\ post'[m].next = post[m].next /\ post'[m].seen = post[m].seen
        /\ post'[m].fold = post[m].fold /\ post'[m].prior = post[m].prior
    BY <1>0, <1>10 DEF Say, Stop, Post
  <2>2. QED
    BY <1>3, <2>1
<1>11. CASE LoopEnds(m)
  <2>1. post'[m].next \in {"save", "save error"}
    <3>1. CASE Becomes(m, "save") \/ Becomes(m, "save error")
      BY <1>0, <3>1, Zenon DEF Becomes, Post
    <3>2. CASE post' = [post EXCEPT ![m].next = "save", ![m].errored = TRUE, ![m].told = "error"]
      BY <1>0, <3>2 DEF Post
    <3>3. QED
      BY <1>11, <3>1, <3>2, Zenon DEF LoopEnds
  <2>2. QED
    BY <1>3, <2>1, Zenon
<1>12. CASE Notify(m)
  <2>1. CASE post[m].errored
    BY <1>4, <1>12, <2>1 DEF Notify
  <2>2. CASE ~post[m].errored
    <3>1. post'[m].next = "read messages"
      BY <1>0, <1>12, <2>2, Zenon DEF Notify, Post
    <3>2. QED
      BY <1>3, <3>1, Zenon
  <2>3. QED
    BY <2>1, <2>2
<1>13. CASE ReadBoundary(m)
  BY <1>2, <1>4, <1>13
<1>14. ASSUME NEW n \in Turns, n # m,
             \/ InsertQuestion(n) \/ RequestFails(n) \/ Generate(n) \/ PersistArtifact(n)
             \/ TryFails(n) \/ CatchFails(n) \/ Stop(n) \/ Listen(n) \/ Answer(n)
       PROVE  Read(m)'
  <2>1. post'[m] = post[m]
    BY <1>0, <1>14, Zenon DEF InsertQuestion, RequestFails, Generate, PersistArtifact, TryFails, CatchFails,
       Stop, Listen, Answer, InsertAnswer, Register, Say, LoopEnds, Save, Notify, SaveError,
       NotifyError, ReadMessages, ReadBoundary, InsertBoundary, PostProcessingFails, ReadStatus,
       ReadOutcome, Becomes, Ends
  <2>2. QED
    BY <1>6, <2>1
<1>15. CASE (\E p \in DOMAIN timeline : DeleteMessages(p)) \/ DeleteArtifacts \/ UNCHANGED vars
  BY <1>6, <1>15 DEF DeleteMessages, DeleteArtifacts, vars
<1>16. CASE Restart
  <2>1. CASE post'[m] = post[m]
    BY <1>6, <2>1
  <2>2. CASE post'[m] = Over(m, "dead", post[m].told)
    <3>1. "dead" \in Statement /\ post[m].told \in {"nothing", "end", "error"}
      BY <1>0, Zenon DEF Statement, Post
    <3>2. post'[m].next = "dead"
      BY <1>0, <2>2, <3>1, OverType
    <3>3. QED
      BY <1>3, <3>2
  <2>3. QED
    BY <1>16, <2>1, <2>2 DEF Restart
<1>17. QED
  BY <1>1, <1>7, <1>8, <1>9, <1>10, <1>11, <1>12, <1>13, <1>14, <1>15, <1>16
  DEF Next, Serve, Generate

LEMMA StepSummaries == IInv /\ [Next]_vars => SummariesReachBack'
<1> SUFFICES ASSUME IInv, [Next]_vars, NEW b \in LiveBoundaries'
             PROVE  \A p \in Messages' \cap Live' :
                      p <= boundaries'[b].upTo => p \in boundaries'[b].covers
  BY DEF SummariesReachBack
<1>0. Types /\ SummariesReachBack
  BY DEF IInv
<1>1. Live' \cap DOMAIN timeline \subseteq Live
  BY <1>0, Onward
<1>2. ASSUME b \in DOMAIN boundaries, boundaries'[b] = boundaries[b]
      PROVE  \A p \in Messages' \cap Live' :
               p <= boundaries'[b].upTo => p \in boundaries'[b].covers
  <2>1. boundaries[b].upTo \in DOMAIN timeline
    BY <1>0, <1>2 DEF Types, TypeOK
  <2>2. b \in LiveBoundaries
    BY <1>1, <1>2, <2>1 DEF LiveBoundaries
  <2>3. \A p \in Messages \cap Live : p <= boundaries[b].upTo => p \in boundaries[b].covers
    BY <1>0, <2>2 DEF SummariesReachBack
  <2>4. QED
    BY <1>0, <1>2, <2>1, <2>3, CoverKept
<1>3. CASE boundaries' = boundaries
  BY <1>2, <1>3 DEF LiveBoundaries
<1>4. ASSUME NEW n \in Turns, InsertBoundary(n), boundaries' # boundaries
      PROVE  \A p \in Messages' \cap Live' :
               p <= boundaries'[b].upTo => p \in boundaries'[b].covers
  <2> DEFINE new == [upTo |-> Max(post[n].fold), covers |-> post[n].fold \cup post[n].prior]
  <2>1. boundaries' = Append(boundaries, new)
    BY <1>4, Zenon DEF InsertBoundary
  <2>2. DOMAIN boundaries = 1 .. Len(boundaries) /\ Len(boundaries) \in Nat
    BY <1>0, LenProperties DEF Types
  <2>3. DOMAIN boundaries' = 1 .. Len(boundaries) + 1
        /\ boundaries'[Len(boundaries) + 1] = new
        /\ \A i \in DOMAIN boundaries : boundaries'[i] = boundaries[i]
    <3>1. /\ Len(boundaries') = Len(boundaries) + 1 /\ DOMAIN boundaries' = 1 .. Len(boundaries')
      BY <2>1, LenProperties, StepTypes DEF IInv, Types
    <3>2. QED
      BY <2>1, <2>2, <3>1
  <2>4. CASE b \in DOMAIN boundaries
    BY <1>2, <2>3, <2>4
  <2>5. CASE b = Len(boundaries) + 1
    <3>1. \A p \in Messages \cap Live : p <= Max(post[n].fold) => p \in post[n].fold \cup post[n].prior
      BY <1>4, Zenon DEF InsertBoundary, IInv, Read
    <3>2. Messages' = Messages /\ Live' = Live
      BY <1>4, Zenon DEF InsertBoundary, Messages, Live
    <3>3. QED
      BY <2>3, <2>5, <3>1, <3>2
  <2>6. b \in DOMAIN boundaries'
    BY DEF LiveBoundaries
  <2>7. QED
    BY <2>2, <2>3, <2>4, <2>5, <2>6
<1>5. (\A n \in Turns : ~InsertBoundary(n)) => boundaries' = boundaries
  BY Zenon DEF Next, Serve, Generate, Answer, vars, InsertQuestion, RequestFails, PersistArtifact, TryFails,
     CatchFails, Stop, Listen, InsertAnswer, Register, Say, LoopEnds, Save, Notify, SaveError,
     NotifyError, ReadMessages, ReadBoundary, PostProcessingFails, ReadStatus,
     ReadOutcome, DeleteMessages, DeleteArtifacts, Restart
<1>6. QED
  BY <1>3, <1>4, <1>5

-----------------------------------------------------------------------------
(* Messages that stay streaming. *)

\* A turn that has not got to its answer has none, and one that is past its save
\* left no streaming message behind.
Settled(n) ==
  /\ post[n].next \in {"unsent", "insert answer"} =>
       \A p \in DOMAIN timeline : timeline[p] # [turn |-> n, role |-> "assistant"]
  /\ post[n].next \in {"notify", "notify error", "read messages", "read boundary",
                       "insert boundary", "closed", "dead"} /\ Stored(n) =>
       row[n].status # "streaming"

LEMMA InitSettled == Init => \A n \in Turns : Settled(n)
<1>1. Init => timeline = <<>> /\ \A n \in Turns : post[n].next = "unsent"
  BY DEF Init, Unsent
<1>2. DOMAIN <<>> = {}
  OBVIOUS
<1>3. QED
  BY <1>1, <1>2, Zenon DEF Settled

LEMMA SettledNotOrphan == (\A n \in Turns : Settled(n)) => NoOrphanStream
BY Zenon DEF Settled, NoOrphanStream, Stored, Live

\* Only InsertAnswer(n) appends the answer of n.
LEMMA AnswersOnly ==
  ASSUME Types, [Next]_vars, NEW n \in Turns, ~InsertAnswer(n),
         \A p \in DOMAIN timeline : timeline[p] # [turn |-> n, role |-> "assistant"]
  PROVE  \A p \in DOMAIN timeline' : timeline'[p] # [turn |-> n, role |-> "assistant"]
<1>1. CASE timeline' = timeline
  BY <1>1
<1>2. ASSUME NEW m \in Turns, NEW role \in {"user", "assistant", "artifact"},
             Create(m, role), deleted' = deleted, role = "assistant" => InsertAnswer(m)
      PROVE  \A p \in DOMAIN timeline' : timeline'[p] # [turn |-> n, role |-> "assistant"]
  <2>1. DOMAIN timeline = 1 .. Len(timeline) /\ Len(timeline) \in Nat
    BY TimelineIsNat
  <2>2. /\ DOMAIN timeline' = 1 .. Len(timeline) + 1
        /\ \A p \in DOMAIN timeline : timeline'[p] = timeline[p]
        /\ timeline'[Len(timeline) + 1] = [turn |-> m, role |-> role]
    BY <1>2, CreateViews
  <2>3. [turn |-> m, role |-> role] # [turn |-> n, role |-> "assistant"]
    BY <1>2
  <2>4. \A p \in DOMAIN timeline' : p \in DOMAIN timeline \/ p = Len(timeline) + 1
    BY <2>1, <2>2
  <2>5. QED
    BY <2>2, <2>3, <2>4
<1>3. QED
  BY <1>1, <1>2, Grows

\* A step of a turn after which it is still before, or still past, its save.
LEMMA SettledKept ==
  ASSUME Types, [Next]_vars, NEW m \in Turns, Settled(m), ~InsertAnswer(m),
         post'[m].next \in {"unsent", "insert answer"} => post[m].next \in {"unsent", "insert answer"},
         post'[m].next \in {"notify", "notify error", "read messages", "read boundary",
                           "insert boundary", "closed", "dead"} =>
           post[m].next \in {"unsent", "insert answer", "notify", "notify error", "read messages",
                            "read boundary", "insert boundary", "closed", "dead"},
         Stored(m)' => row'[m] = row[m]
  PROVE  Settled(m)'
<1>1. Stored(m)' => Stored(m)
  BY Onward, Zenon
<1>2. ASSUME post[m].next \in {"unsent", "insert answer"} PROVE ~Stored(m)
  BY <1>2, Zenon DEF Settled, Stored, Live
<1>3. ASSUME post'[m].next \in {"unsent", "insert answer"}
      PROVE  \A p \in DOMAIN timeline' : timeline'[p] # [turn |-> m, role |-> "assistant"]
  <2>1. \A p \in DOMAIN timeline : timeline[p] # [turn |-> m, role |-> "assistant"]
    BY <1>3, Zenon DEF Settled
  <2>2. QED
    BY <2>1, AnswersOnly, Zenon
<1>4. QED
  BY <1>1, <1>2, <1>3, Zenon DEF Settled

\* A step after which the message of the turn is not streaming.
LEMMA SettledAnew ==
  ASSUME NEW m \in Turns, post'[m].next \notin {"unsent", "insert answer"},
         Stored(m)' => row'[m].status # "streaming"
  PROVE  Settled(m)'
BY Zenon DEF Settled

LEMMA StepSettled ==
  ASSUME MaxFaults = 0, Types, [Next]_vars, NEW m \in Turns, Settled(m)
  PROVE  Settled(m)'
<1>0. /\ post \in [Turns -> Post] /\ row \in [Turns -> Row] /\ faults = 0
      /\ post[m].next \in Statement /\ post[m].told \in {"nothing", "end", "error"}
  BY DEF Types, TypeOK, Post
<1>1. CASE post'[m] = post[m] /\ (Stored(m)' => row'[m] = row[m]) /\ ~InsertAnswer(m)
  BY <1>1, SettledKept, Zenon
<1>2. CASE \E p \in DOMAIN timeline : DeleteMessages(p)
  <2>1. post'[m] = post[m] /\ (Stored(m)' => row'[m] = row[m])
    BY <1>2 DEF DeleteMessages
  <2>2. QED
    BY <1>0, <1>1, <2>1, InsertAnswerMoves, Zenon
<1>3. CASE DeleteArtifacts \/ UNCHANGED vars
  <2>1. post' = post /\ row' = row
    BY <1>3 DEF DeleteArtifacts, vars
  <2>2. QED
    BY <1>0, <1>1, <2>1, InsertAnswerMoves, Zenon
<1>4. CASE Restart
  <2>1. row'[m].status # "streaming"
    BY <1>0, <1>4 DEF Restart, Swept, Row
  <2>2. CASE post[m].next \in {"unsent", "closed"}
    <3>1. post'[m] = post[m] /\ timeline' = timeline
      BY <1>4, <2>2 DEF Restart
    <3>2. QED
      BY <2>1, <2>2, <3>1, Zenon DEF Settled
  <2>3. CASE post[m].next \notin {"unsent", "closed"}
    <3>1. "dead" \in Statement
      BY DEF Statement
    <3>2. post'[m].next = "dead"
      BY <1>0, <1>4, <2>3, <3>1, OverType DEF Restart
    <3>3. QED
      BY <2>1, <3>2, SettledAnew, Zenon
  <2>4. QED
    BY <2>2, <2>3
<1>5. ASSUME NEW n \in Turns, n # m,
             \/ InsertQuestion(n) \/ RequestFails(n) \/ Generate(n) \/ PersistArtifact(n)
             \/ TryFails(n) \/ CatchFails(n) \/ Stop(n) \/ Listen(n) \/ Answer(n)
      PROVE  Settled(m)'
  <2>1. post'[m] = post[m] /\ row'[m] = row[m]
    BY <1>0, <1>5, Zenon DEF InsertQuestion, RequestFails, Generate, PersistArtifact, TryFails, CatchFails,
         Stop, Listen, Answer, InsertAnswer, Register, Say, LoopEnds, Save, Notify, SaveError,
         NotifyError, ReadMessages, ReadBoundary, InsertBoundary, PostProcessingFails, ReadStatus,
         ReadOutcome, Becomes, Ends, Write
  <2>2. QED
    BY <1>0, <1>1, <2>1, InsertAnswerMoves, Zenon
<1>6. CASE TryFails(m) \/ CatchFails(m)
  BY <1>0, <1>6 DEF TryFails, CatchFails
<1>7. CASE InsertAnswer(m)
  <2>1. post'[m].next = "register"
    BY <1>7, InsertAnswerMoves, Zenon
  <2>2. QED
    BY <2>1, Zenon DEF Settled
<1>8. CASE InsertQuestion(m)
  <2>1. post[m].next = "unsent" /\ post'[m].next = "insert answer" /\ row' = row
    BY <1>0, <1>8, Zenon DEF InsertQuestion, Becomes, At, Post
  <2>2. QED
    BY <1>0, <2>1, SettledKept, InsertAnswerMoves, Zenon
<1>9. CASE Save(m) \/ SaveError(m)
  <2>1. post'[m].next \in {"notify", "notify error"}
    BY <1>0, <1>9, ZenonT(60) DEF Save, SaveError, Becomes, Post
  <2>2. Stored(m)' = Stored(m)
    BY <1>9, Zenon DEF Save, SaveError, Stored, Live
  <2>3. Stored(m) => row'[m].status # "streaming"
    <3>1. PICK s \in {"done", "error"} : Write(m, s)
      BY <1>9, Zenon DEF Save, SaveError
    <3>2. Stored(m) => row'[m] = [status |-> s, text |-> post[m].said]
      BY <1>0, <3>1 DEF Write
    <3>3. QED
      BY <3>2
  <2>4. QED
    BY <2>1, <2>2, <2>3, SettledAnew, Zenon
<1>10. ASSUME post[m].next \in {"insert answer", "notify", "notify error", "read messages",
                               "read boundary", "insert boundary"},
              post'[m].next \notin {"unsent", "insert answer", "register"}, row' = row
       PROVE  Settled(m)'
  BY <1>0, <1>10, SettledKept, InsertAnswerMoves, Zenon
<1>11. ASSUME NEW told \in {"nothing", "end", "error"}, Ends(m, told), row' = row,
              post[m].next \in {"insert answer", "notify", "notify error", "read messages",
                               "read boundary", "insert boundary"}
       PROVE  Settled(m)'
  <2>1. "closed" \in Statement
    BY DEF Statement
  <2>2. Over(m, "closed", told).next = "closed"
    BY <2>1, OverType
  <2>3. post'[m] = Over(m, "closed", told)
    BY <1>0, <1>11, Zenon DEF Ends
  <2>4. QED
    BY <1>10, <1>11, <2>2, <2>3, Zenon
<1>12. CASE RequestFails(m) \/ NotifyError(m) \/ InsertBoundary(m) \/ PostProcessingFails(m)
  BY <1>11, <1>12, Zenon DEF RequestFails, NotifyError, InsertBoundary, PostProcessingFails, At
<1>13. CASE Notify(m)
  <2>1. CASE post[m].errored
    BY <1>11, <1>13, <2>1 DEF Notify, At
  <2>2. CASE ~post[m].errored
    <3>1. post'[m].next = "read messages" /\ row' = row /\ post[m].next = "notify"
      BY <1>0, <1>13, <2>2, Zenon DEF Notify, At, Post
    <3>2. QED
      BY <1>10, <3>1, Zenon
  <2>3. QED
    BY <2>1, <2>2
<1>14. CASE ReadMessages(m)
  <2>1. post'[m].next = "read boundary" /\ row' = row /\ post[m].next = "read messages"
    BY <1>0, <1>14, Zenon DEF ReadMessages, At, Post
  <2>2. QED
    BY <1>10, <2>1, Zenon
<1>15. CASE ReadBoundary(m)
  <2>1. row' = row /\ post[m].next = "read boundary"
    BY <1>15, Zenon DEF ReadBoundary, At
  <2>2. CASE Ends(m, "end")
    BY <1>11, <2>1, <2>2, Zenon
  <2>3. CASE ~Ends(m, "end")
    <3>1. PICK fold, prior :
              post' = [post EXCEPT ![m] = [@ EXCEPT
                        !.next = "insert boundary", !.fold = fold, !.prior = prior]]
      BY <1>15, <2>3, Zenon DEF ReadBoundary
    <3>2. post'[m].next = "insert boundary"
      BY <1>0, <3>1 DEF Post
    <3>3. QED
      BY <1>10, <2>1, <3>2, Zenon
  <2>4. QED
    BY <2>2, <2>3
<1>16. CASE PersistArtifact(m) \/ Listen(m) \/ Answer(m) \/ Stop(m)
  <2>1. post'[m].next = post[m].next /\ row' = row
    BY <1>0, <1>16 DEF PersistArtifact, Listen, Answer, ReadStatus, ReadOutcome, Stop, Post
  <2>2. QED
    BY <1>0, <2>1, SettledKept, InsertAnswerMoves, Zenon
<1>17. CASE Register(m) \/ Say(m)
  <2>1. post'[m].next = "generate"
    BY <1>0, <1>17 DEF Register, Say, Becomes, At, Post
  <2>2. QED
    BY <2>1, Zenon DEF Settled
<1>18. CASE LoopEnds(m)
  <2>1. post'[m].next \in {"save", "save error"}
    <3>1. CASE Becomes(m, "save") \/ Becomes(m, "save error")
      BY <1>0, <3>1, ZenonT(60) DEF Becomes, Post
    <3>2. CASE post' = [post EXCEPT ![m].next = "save", ![m].errored = TRUE, ![m].told = "error"]
      BY <1>0, <3>2 DEF Post
    <3>3. QED
      BY <1>18, <3>1, <3>2, Zenon DEF LoopEnds
  <2>2. QED
    BY <2>1, Zenon DEF Settled
<1>19. QED
  BY <1>2, <1>3, <1>4, <1>5, <1>6, <1>7, <1>8, <1>9, <1>12, <1>13, <1>14, <1>15, <1>16, <1>17, <1>18
  DEF Next, Serve, Generate

-----------------------------------------------------------------------------
(* Theorems. *)

LEMMA InitIInv == Init => IInv
<1> SUFFICES ASSUME Init PROVE IInv
  OBVIOUS
<1>1. Types
  BY InitTypes
<1>2. SummariesReachBack
  BY DEF Init, SummariesReachBack, LiveBoundaries
<1>3. \A n \in Turns : Told(n) /\ Read(n)
  BY Zenon DEF Init, Told, Read, At, Unsent
<1>4. QED
  BY <1>1, <1>2, <1>3 DEF IInv

LEMMA StepIInv == IInv /\ [Next]_vars => IInv'
<1> SUFFICES ASSUME IInv, [Next]_vars PROVE IInv'
  OBVIOUS
<1>1. Types' /\ SummariesReachBack'
  BY StepTypes, StepSummaries DEF IInv
<1>2. \A n \in Turns : Told(n)' /\ Read(n)'
  BY StepTold, StepRead
<1>3. QED
  BY <1>1, <1>2 DEF IInv

\* The inductive invariant holds of every run of the server.
THEOREM ChatInvariant == Spec => []IInv
BY InitIInv, StepIInv, PTL DEF Spec

\* The runs without reconnect streams (ServeSpec) are runs of Spec.
THEOREM ServeIsSpec == ServeSpec => Spec
<1>1. [Serve]_vars => [Next]_vars
  BY DEF Next
<1>2. QED
  BY <1>1, PTL DEF ServeSpec, Spec

\* Type correctness of the chat server.
THEOREM ChatTypesCorrect == Spec => []TypeOK
<1>1. IInv => TypeOK
  BY DEF IInv, Types
<1>2. QED
  BY <1>1, ChatInvariant, PTL

\* An answer the client was told is complete stays done and whole, through failures,
\* truncations of others and restarts (route.ts:203-206).
THEOREM ToldAnswerIsDurable == Spec => []EndIsDurable
<1>1. IInv => EndIsDurable
  BY Zenon DEF IInv, Told, EndIsDurable
<1>2. QED
  BY <1>1, ChatInvariant, PTL

\* A boundary's summary accounts for every message that is left up to it, however
\* many turns compact at once (compaction.ts:4-5).
THEOREM SummariesCoverAll == Spec => []SummariesReachBack
<1>1. IInv => SummariesReachBack
  BY DEF IInv
<1>2. QED
  BY <1>1, ChatInvariant, PTL

\* As long as no save of the handler fails, every streaming message has someone who
\* will settle it (startup-sweep.ts:5-13).
THEOREM StreamsAreSettled == MaxFaults = 0 => (Spec => []NoOrphanStream)
<1>1. SUFFICES ASSUME MaxFaults = 0 PROVE Spec => []NoOrphanStream
  OBVIOUS
<1> DEFINE SInv == Types /\ \A n \in Turns : Settled(n)
<1>2. Init => SInv
  BY InitTypes, InitSettled
<1>3. SInv /\ [Next]_vars => SInv'
  <2> SUFFICES ASSUME SInv, [Next]_vars PROVE SInv'
    OBVIOUS
  <2>1. Types'
    BY StepTypes
  <2>2. \A n \in Turns : Settled(n)'
    BY <1>1, StepSettled
  <2>3. QED
    BY <2>1, <2>2
<1>4. SInv => NoOrphanStream
  BY SettledNotOrphan
<1>5. QED
  BY <1>2, <1>3, <1>4, PTL DEF Spec
=============================================================================
