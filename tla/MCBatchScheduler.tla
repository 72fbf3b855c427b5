-------------------------- MODULE MCBatchScheduler --------------------------
(* Small instances of BatchScheduler for TLC.                              *)
EXTENDS BatchScheduler
=============================================================================
