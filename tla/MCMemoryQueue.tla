--------------------------- MODULE MCMemoryQueue ---------------------------
(* A small MemoryQueue: three messages, one of them unreadable, and two      *)
(* callers of receiveMessage that give up after a timeout.                   *)
EXTENDS MemoryQueue
=============================================================================
