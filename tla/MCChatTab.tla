------------------------------- MODULE MCChatTab -------------------------------
(* A tab on a small chat for TLC. *)
EXTENDS ChatTab
=============================================================================
