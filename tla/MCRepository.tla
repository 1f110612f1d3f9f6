---------------------------- MODULE MCRepository ----------------------------
(* Two callers of one MemoryRepository. *)
EXTENDS Repository
=============================================================================
