---------------------------- MODULE MCThrottler ----------------------------
(* A throttler alone, and what its comments say of failures                *)
EXTENDS Throttler

\* A function that is called returns or throws, its promise settles, and its finally
\* callback runs.
ThrottlerFairness ==
  /\ WF_throttlerVars(MethodReturns \/ MethodThrows)
  /\ \A r \in Run : WF_throttlerVars(RunSettles(r) \/ Finally(r))

ThrottlerFairSpec == ThrottlerSpec /\ ThrottlerFairness

\* "When `true` (default), reject all pending items immediately on the first
\* failure": once a task has failed and its callbacks have run, none is still
\* pending in the queue.
PendingAreRejected ==
  failFast /\ failed = "error" /\ settling = {} => \A t \in Tasks : item[t] # "queued"

\* "A Promise that resolves when the queue is empty, or rejects if `failFast` is
\* enabled and any item failed": with failFast a wait() that is released finds
\* the queue empty, whatever an item failed with.
ReleasedWhenEmpty ==
  [][\A w \in WaitCalls :
       failFast /\ waiting[w] = "waiting" /\ waiting'[w] = "released" => queue' = <<>>]_throttlerVars
=============================================================================
