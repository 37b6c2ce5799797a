----------------------------- MODULE MCCanvasBoard -----------------------------
(* Small canvases for TLC: one aspect with room in each, the others small. *)
EXTENDS CanvasBoard

CONSTANTS p1, p2, n1

\* One page on a blank canvas, with more room for drawing, or for questions.
Alone  == [opening |-> {p1}, left |-> {}, gestures |-> 3, asks |-> 1, hides |-> 0, leaves |-> 0,
           faults |-> 0, hadFaults |-> 0]
Asking == [Alone EXCEPT !.gestures = 2, !.asks = 2]

\* A request of it is lost.
Slip == [Alone EXCEPT !.gestures = 1, !.hides = 1, !.faults = 1, !.hadFaults = 1]

\* It is left while the tutor replies.
Away == [Alone EXCEPT !.gestures = 2, !.leaves = 1]

\* Two pages, one of which may be hidden.
Aside == [Alone EXCEPT !.opening = {p1, p2}, !.asks = 0, !.hides = 1]

\* Two pages, one of which may be left, and a note that no page took.
Apart == [Aside EXCEPT !.left = {n1}, !.gestures = 2, !.hides = 0, !.leaves = 1]

CanvasScenarios == {Alone, Asking, Slip, Away, Aside, Apart}

\* Logging the first edit and appending the others is what the loop over the edits
\* does (chatServer.ts:79-90), on every log of up to two entries and every two boards.
SmallEntry == [of : Elements, before : 0 .. 2, after : 0 .. 2]
SmallBoard == [Elements -> 0 .. 2]

ASSUME LoopLogsEach ==
  \A was, now \in SmallBoard, log \in UNION {[1 .. k -> SmallEntry] : k \in 0 .. 2} :
    LoggedAll(log, Edits(was, now)) = FoldLeft(Logged, log, Edits(was, now))
=============================================================================
