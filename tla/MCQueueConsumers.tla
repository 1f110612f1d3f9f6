-------------------------- MODULE MCQueueConsumers --------------------------
(* Queue.consume() with a parent and up to two children. *)
EXTENDS QueueConsumers
=============================================================================
