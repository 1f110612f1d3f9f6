--------------------------- MODULE MCKeyRotation ---------------------------
(* Three instances of the CryptoService: one that creates the entry, one   *)
(* that merges over it and one that only watches.                          *)
EXTENDS KeyRotation
=============================================================================
