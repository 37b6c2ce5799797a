-------------------------- MODULE MCIngestPipeline --------------------------
(* Small instances of the ingest pipeline for TLC. *)
EXTENDS IngestPipeline, TLC

\* Workers are interchangeable.  Only for runs without a liveness property.
WorkerSymmetry == Permutations(Workers)
=============================================================================
