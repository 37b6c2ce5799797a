------------------------------ MODULE MCChatTurn ------------------------------
(* Small instances of the chat for TLC. *)
EXTENDS ChatTurn, TLC

\* Turns are interchangeable.  Only for runs without a liveness property.
TurnSymmetry == Permutations(Turns)
=============================================================================
