---------------------------- MODULE MCUtilities ----------------------------
(* Five components that share nothing, each explored on its own: `focus`   *)
(* says which one moves.                                                   *)
EXTENDS MCThrottler, Debouncer, MCMethodCache, CoreLifecycle, MCThreeWayMerge, TLC

VARIABLE focus

Init ==
  /\ focus \in {"throttler", "debouncer", "cache", "lifecycle", "merge"}
  /\ ThrottlerInit /\ (focus # "throttler" => ~failFast /\ concurrency = MaxConcurrency)
  /\ DebouncerInit
  /\ focus # "debouncer" => options = [leading |-> FALSE, trailing |-> TRUE, maxWait |-> 0]
  /\ CacheInit /\ (focus # "cache" => maxSize = 1)
  /\ LifecycleInit /\ (focus # "lifecycle" => deps = [s \in Services |-> {}])
  /\ focus = "merge" \/ (base = ObjectOf(<<>>) /\ ours = base /\ theirs = base)
  /\ MergeInit

Next ==
  \/ /\ focus = "throttler" /\ ThrottlerNext
     /\ UNCHANGED <<focus, debounceVars, cacheVars, lifecycleVars, mergeVars>>
  \/ /\ focus = "debouncer" /\ DebouncerNext
     /\ UNCHANGED <<focus, throttlerVars, cacheVars, lifecycleVars, mergeVars>>
  \/ /\ focus = "cache" /\ CacheNext
     /\ UNCHANGED <<focus, throttlerVars, debounceVars, lifecycleVars, mergeVars>>
  \/ /\ focus = "lifecycle" /\ LifecycleNext
     /\ UNCHANGED <<focus, throttlerVars, debounceVars, cacheVars, mergeVars>>
  \/ /\ focus = "merge" /\ MergeNext
     /\ UNCHANGED <<focus, throttlerVars, debounceVars, cacheVars, lifecycleVars>>

vars == <<focus, throttlerVars, debounceVars, cacheVars, lifecycleVars, mergeVars>>

Spec == Init /\ [][Next]_vars

\* Only liveness of the throttler is checked; the others need no fairness.
FairSpec == Spec /\ ThrottlerFairness

TypesOK ==
  ThrottlerTypeOK /\ DebouncerTypeOK /\ CacheTypeOK /\ LifecycleTypeOK /\ MergeTypeOK
=============================================================================
