---------------------------- MODULE MCDebouncer ----------------------------
(* One debounced function whose maxWait is shorter than its wait. *)
EXTENDS Debouncer
=============================================================================
