------------------------- MODULE MCStorePersistence -------------------------
(* Two keys, and room for the timer's persist() and the one of stop(). *)
EXTENDS StorePersistence, TLC

\* For the safety run only: keys and slots are interchangeable
Symmetry == Permutations(Keys) \union Permutations(Streams)
=============================================================================
