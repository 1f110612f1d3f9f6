----------------------------- MODULE Throttler -----------------------------
(***************************************************************************)
(* Throttler of @webda/utils (packages/utils/src/throttler.ts): a queue of *)
(* promise-returning functions of which at most `concurrency` run at once. *)
(*                                                                         *)
(* An action is the code from one call of a queued function to the next,   *)
(* or one microtask.  add() calls the function before it stores the        *)
(* promise, and the function may call the throttler: `calling` is the      *)
(* stack of functions that have not returned yet.  A promise that settles  *)
(* calls back in one microtask and gives its slot back in a later one      *)
(* (.finally), so it is settling in between.  queue() of an array is a     *)
(* sequence of queue() calls with nothing in between, which the model does *)
(* not force.                                                              *)
(***************************************************************************)
EXTENDS Integers, Sequences, SequencesExt, FiniteSets, FiniteSetsExt

CONSTANTS
  Tasks,           \* the functions given to queue(), each once
  Throwers,        \* those that may throw before they return a promise
  Reentrants,      \* those that may call the throttler before they return
  WaitCalls,       \* the calls of wait()
  MaxConcurrency   \* bound: the largest concurrency that is set

ASSUME ThrottlerAssumption ==
  /\ IsFiniteSet(Tasks) /\ Throwers \subseteq Tasks /\ Reentrants \subseteq Tasks
  /\ MaxConcurrency \in Nat

VARIABLES
  queue,        \* _queue: the tasks whose item is in it
  item,         \* "started": the item has a promise
  held,         \* the calls of a function that hold a slot and did not throw
  settling,     \* those of them whose promise has settled
  calling,      \* those under way, and where the loop that called them is
  failFast,     \* the constructor's second parameter
  concurrency,
  current,      \* promises the throttler believes in progress
  failed,       \* _failed: null, an error, or what else a function rejected with
  waiting,      \* the state of each wait()
  thrown,       \* history: slots taken by a function that threw
  reentered     \* history: add() called a function while one was being called

throttlerVars ==
  <<queue, item, held, settling, calling, failFast, concurrency, current, failed, waiting,
    thrown, reentered>>

\* A call of a task's function, told from another one by the count when it began
Run == [task : Tasks, slot : 1..MaxConcurrency]

ThrottlerTypeOK ==
  /\ queue \in Seq(Tasks) /\ IsInjective(queue)
  /\ item \in [Tasks -> {"new", "queued", "started", "refused"}]
  /\ held \subseteq Run /\ settling \subseteq held
  /\ calling \in Seq([run : Run, next : 0..MaxConcurrency])
  /\ failFast \in BOOLEAN
  /\ concurrency \in 0..MaxConcurrency
  /\ current \in 0..MaxConcurrency
  /\ failed \in {"null", "error", "falsy"}
  /\ waiting \in [WaitCalls -> {"new", "waiting", "released", "rejected"}]
  /\ thrown \in Nat
  /\ reentered \in BOOLEAN

ThrottlerInit ==
  /\ queue = <<>>
  /\ item = [t \in Tasks |-> "new"]
  /\ held = {} /\ settling = {} /\ calling = <<>>
  /\ failFast \in BOOLEAN
  /\ concurrency \in 1..MaxConcurrency
  /\ current = 0
  /\ failed = "null"
  /\ waiting = [w \in WaitCalls |-> "new"]
  /\ thrown = 0 /\ reentered = FALSE

----------------------------------------------------------------------------
(* add() *)

\* Positions of the items without a promise
Unstarted(q, items) == {i \in DOMAIN q : items[q[i]] = "queued"}

\* Mutant: the queue is searched from its end
FoundLast(q, items) == q[Max(Unstarted(q, items))]

\* _queue.find(p => !p.promise)
Found(q, items) == q[Min(Unstarted(q, items))]

\* Mutant: the waiters are released as soon as nothing runs
FlushedEarly(unstarted, used) == used = 0

Flushed(unstarted, used) == unstarted = {} /\ used = 0

FlushWaiters(state) == waiting' = [w \in WaitCalls |-> IF waiting[w] = "waiting" THEN state ELSE waiting[w]]

\* Mutant: the limit may be exceeded by one
OpenAtLimit(used) == used <= concurrency' /\ failed # "error"

\* What add() asks first
Open(used) == used < concurrency' /\ failed # "error"

\* add() on the queue', item' and concurrency' that its caller leaves, with `used`
\* slots taken, those of `kept` among them, and the functions of `outer` being
\* called; `next` is for the caller to go on with when the function returns.
Add(next, outer, kept, used) ==
  LET unstarted == Unstarted(queue', item')
      run == [task |-> Found(queue', item'), slot |-> used + 1]
  IN /\ IF Open(used) /\ unstarted # {}
        THEN /\ current' = used + 1 /\ held' = kept \union {run}
             /\ calling' = Append(outer, [run |-> run, next |-> next])
             /\ reentered' = (reentered \/ outer # <<>>)
        ELSE current' = used /\ held' = kept /\ calling' = outer /\ UNCHANGED reentered
     /\ IF Open(used) /\ Flushed(unstarted, used) THEN FlushWaiters("released") ELSE UNCHANGED waiting

\* add() until the count that started at `old` reaches the concurrency; once add()
\* calls no function, neither do the calls that follow
AddsFrom(old, outer, kept, used) ==
  IF old < concurrency'
  THEN Add(old + 1, outer, kept, used)
  ELSE /\ current' = used /\ held' = kept /\ calling' = outer
       /\ UNCHANGED <<waiting, reentered>>

AddOnce(outer, kept, used) == Add(MaxConcurrency, outer, kept, used)

----------------------------------------------------------------------------
(* The calls of the throttler, by others or by a function being called *)

MayCall == calling # <<>> => Last(calling).run.task \in Reentrants

\* queue() and its alias execute()
Queue(t) ==
  /\ MayCall /\ item[t] = "new" /\ failed # "error"
  /\ item' = [item EXCEPT ![t] = "queued"]
  /\ queue' = Append(queue, t)
  /\ UNCHANGED <<settling, failFast, concurrency, failed, thrown>>
  /\ AddOnce(calling, held, current)

QueueRefused(t) ==
  /\ MayCall /\ item[t] = "new" /\ failed = "error"
  /\ item' = [item EXCEPT ![t] = "refused"]
  /\ UNCHANGED <<queue, held, settling, calling, failFast, concurrency, current, failed,
                 waiting, thrown, reentered>>

SetConcurrency(n) ==
  /\ MayCall /\ n # concurrency
  /\ concurrency' = n
  /\ UNCHANGED <<queue, item, settling, failFast, failed, thrown>>
  /\ AddsFrom(concurrency, calling, held, current)

Wait(w) ==
  /\ MayCall /\ waiting[w] = "new"
  /\ waiting' = [waiting EXCEPT ![w] = IF failed = "error" THEN "rejected"
                                       ELSE IF current = 0 THEN "released"
                                       ELSE "waiting"]
  /\ UNCHANGED <<queue, item, held, settling, calling, failFast, concurrency, current, failed,
                 thrown, reentered>>

----------------------------------------------------------------------------
(* The functions and their promises *)

\* next.promise is set, and setConcurrency() goes on with its loop.
MethodReturns ==
  /\ calling # <<>>
  /\ item' = [item EXCEPT ![Last(calling).run.task] = "started"]
  /\ UNCHANGED <<queue, settling, failFast, concurrency, failed, thrown>>
  /\ AddsFrom(Last(calling).next, Front(calling), held, current)

\* The slot stays taken, the item in the queue, and the loop is left.
MethodThrows ==
  /\ calling # <<>> /\ Last(calling).run.task \in Throwers
  /\ calling' = Front(calling)
  /\ held' = held \ {Last(calling).run}
  /\ thrown' = thrown + 1
  /\ UNCHANGED <<queue, item, settling, failFast, concurrency, current, failed, waiting, reentered>>

Settles(r) == calling = <<>> /\ r \in held \ settling /\ settling' = settling \union {r}

Fulfil(r) ==
  /\ Settles(r)
  /\ UNCHANGED <<queue, item, held, calling, failFast, concurrency, current, failed, waiting,
                 thrown, reentered>>

\* _failed is whatever the function rejected with: a falsy value is no failure, and
\* flushWaiters then resolves the waiters.
Reject(r, value) ==
  /\ Settles(r)
  /\ IF failFast
     THEN failed' = value /\ FlushWaiters(IF value = "error" THEN "rejected" ELSE "released")
     ELSE UNCHANGED <<failed, waiting>>
  /\ UNCHANGED <<queue, item, held, calling, failFast, concurrency, current, thrown, reentered>>

\* _queue.splice(_queue.indexOf(next), 1): the index -1 of an item that is not in the
\* queue means the last one.
Spliced(q, t) ==
  IF q = <<>> THEN q
  ELSE RemoveAt(q, IF t \in ToSet(q) THEN CHOOSE i \in DOMAIN q : q[i] = t ELSE Len(q))

\* Mutant: the slot is given back but nothing is started with it
FinallyOnly(r) ==
  /\ calling = <<>> /\ r \in settling
  /\ settling' = settling \ {r} /\ held' = held \ {r}
  /\ queue' = Spliced(queue, r.task)
  /\ current' = current - 1
  /\ UNCHANGED <<item, calling, failFast, concurrency, failed, waiting, thrown, reentered>>

Finally(r) ==
  /\ calling = <<>> /\ r \in settling
  /\ settling' = settling \ {r}
  /\ queue' = Spliced(queue, r.task)
  /\ UNCHANGED <<item, failFast, concurrency, failed, thrown>>
  /\ AddOnce(calling, held \ {r}, current - 1)

RunSettles(r) == Fulfil(r) \/ \E value \in {"error", "falsy"} : Reject(r, value)

ThrottlerNext ==
  \/ \E t \in Tasks : Queue(t) \/ QueueRefused(t)
  \/ \E n \in 0..MaxConcurrency : SetConcurrency(n)
  \/ \E w \in WaitCalls : Wait(w)
  \/ MethodReturns \/ MethodThrows
  \/ \E r \in held : RunSettles(r) \/ Finally(r)

ThrottlerSpec == ThrottlerInit /\ [][ThrottlerNext]_throttlerVars

----------------------------------------------------------------------------
\* Every slot in use is held by a call of a function in progress or was lost to one
\* that threw; items get their promises in the order of the queue; and outside of
\* its calls a throttler with a free slot leaves no item in the queue without a
\* promise, unless a function threw, failed in failFast mode, or called the
\* throttler back so that add() called it again.
SlotsAreUsed ==
  /\ current = Cardinality(held) + thrown
  /\ \A i, j \in DOMAIN queue :
       i < j /\ item[queue[j]] = "started" => item[queue[i]] = "started"
  /\ calling = <<>> /\ current < concurrency /\ failed = "null" /\ thrown = 0 /\ ~reentered
     => Unstarted(queue, item) = {}

\* Queued, and neither called nor settled; or called and not settled to the end
Unfinished == {t \in Tasks : item[t] = "queued"} \union {r.task : r \in held}

\* "Wait until all queued and in-progress items have settled": a wait() is released
\* only when nothing is queued or in progress - unless the throttler is set to
\* concurrency 0, which leaves tasks queued; a function rejected with a falsy value
\* in failFast mode; or a function called the throttler back and was called twice:
\* the second end of its item takes another one out of the queue.
ReleasedWhenDrained ==
  [][\A w \in WaitCalls :
       waiting[w] # "released" /\ waiting'[w] = "released"
       => \/ Unfinished = {} \/ \E r \in settling : Unfinished = {r.task} /\ held = {r}
          \/ concurrency = 0 \/ failed' = "falsy" \/ reentered]_throttlerVars

OftenOpen == []<>(concurrency > 0)

Disturbed == failed # "null" \/ thrown > 0 \/ reentered

\* Whatever is queued is run to its end and every wait() is answered: there are
\* finitely many of them, so again and again none is left - as long as the throttler
\* is opened again and again, nothing failed in failFast mode, and no function threw
\* or called the throttler back so that it was called twice.
TasksAreRun ==
  OftenOpen =>
    []<>(Disturbed \/ (Unfinished = {} /\ \A w \in WaitCalls : waiting[w] # "waiting"))
=============================================================================
