----------------------------- MODULE MCJobQueue -----------------------------
(* Small instances of the job queue for TLC: the .cfg files name the worker   *)
(* and request processes as model values.                                     *)
EXTENDS JobQueue
=============================================================================
