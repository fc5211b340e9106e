-------------------------- MODULE MCQueueFileLock --------------------------
(* Model-checking instances of QueueFileLock. *)
EXTENDS QueueFileLock

CONSTANTS c1, c2, c3
=============================================================================
