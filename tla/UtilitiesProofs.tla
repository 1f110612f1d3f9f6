-------------------------- MODULE UtilitiesProofs --------------------------
(***************************************************************************)
(* What holds of Throttler, Debouncer, MethodCache, CoreLifecycle and      *)
(* ThreeWayMerge for every set of tasks, calls, keys, services and         *)
(* documents, and of the five together.                                    *)
(*                                                                         *)
(* Throttler.  ThrottlerInv says that the functions being called are those *)
(* of items whose turn it is and that the next call has a slot of its own  *)
(* (SlotsFit), what the loop under way leaves to be started (NoneWaits),   *)
(* and that every unfinished item is in the queue with one call as long as *)
(* no function called the throttler back to be called twice (Undisturbed). *)
(*                                                                         *)
(* Debouncer.  DebouncerInv says that every timeout, forgotten or not, is  *)
(* due within `wait` of now and of the last call (TimersAreNear), and that *)
(* a pending call has one that is due in time (PendingIsTimed).            *)
(*                                                                         *)
(* MethodCache.  CacheInv says whose promise each entry holds (EntriesFit) *)
(* and that a call in progress still has its own unless a clear or an      *)
(* eviction took it (PromisesAreKept).                                     *)
(*                                                                         *)
(* CoreLifecycle.  LifecycleInv says that the nesting counters count the   *)
(* calls under way (NestingCounts), that init() begins one service at a    *)
(* time (InitInTurn) and what each state tells of the calls (StatesShow).  *)
(* OrderInv adds that the services under resolution inject one another,    *)
(* and that the resolved ones come after those they inject, the excused    *)
(* ones left aside (OrdersFit, DependenciesFirst).                         *)
(*                                                                         *)
(* ThreeWayMerge.  Every fact of the three documents is inside exactly one *)
(* leaf of mergeAt's recursion, or at a path where it goes on              *)
(* (LeafOrVisited, OneLeaf), and a leaf without conflict has what the      *)
(* reference expects (MergeIsExpected).  MergeInv says that the disputed   *)
(* paths are not inside one another, so that what resolve() writes at one  *)
(* is nothing to the others nor to what lies outside of them.              *)
(*                                                                         *)
(* MCUtilities.  A behaviour of the five together is one of each.          *)
(***************************************************************************)
EXTENDS MCUtilities, FiniteSetTheorems, SequenceTheorems, WellFoundedInduction, TLAPS

-----------------------------------------------------------------------------
\* Throttler

LEMMA LeastElement ==
  ASSUME NEW T \in SUBSET Nat, T # {}
  PROVE  \E n \in T : \A m \in T : n <= m
<1>. DEFINE R == {p \in Nat \X Nat : p[1] < p[2]}
<1>1. IsWellFoundedOn(R, Nat)
  BY NatLessThanWellFounded DEF OpToRel
<1>. HIDE DEF R
<1>2. PICK x \in T : \A y \in T : ~ (<<y, x>> \in R)
  BY <1>1, WFMin
<1>3. ASSUME NEW m \in T PROVE x <= m
  <2>1. x \in Nat /\ m \in Nat /\ <<m, x>> \notin R
    BY <1>2
  <2>2. ~(m < x)
    BY <2>1 DEF R
  <2>. QED BY <2>1, <2>2
<1>. QED BY <1>2, <1>3

Frame == [run : Run, next : 0..MaxConcurrency]

\* The queue's items up to that of `t` are started.
OnTurn(q, items, t) == \E i \in DOMAIN q : q[i] = t /\ \A j \in 1..(i - 1) : items[q[j]] = "started"

\* Slots are counted; the functions being called are those of queued items whose turn
\* it is; and an item without a promise has no call that `frames` does not know,
\* so that the next call of its function has a slot that none had.
SlotsFit(q, items, runs, done, frames, used, lost) ==
  /\ used = Cardinality(runs) + lost
  /\ \A i \in DOMAIN frames : frames[i].run \in runs \ done /\ OnTurn(q, items, frames[i].run.task)
  /\ \A i, j \in DOMAIN frames : frames[i].run = frames[j].run => i = j
  /\ \A r \in runs : items[r.task] \in {"queued", "started"}
  /\ \A r \in runs : items[r.task] = "queued"
       => r.slot <= used /\ \E i \in DOMAIN frames : frames[i].run = r
  /\ \A i \in DOMAIN q : items[q[i]] \in {"queued", "started"}
  /\ \A i, j \in DOMAIN q : i < j /\ items[q[j]] = "started" => items[q[i]] = "started"

\* While no function calls the throttler: one is called at most, every item that is
\* not settled is in the queue, and has one call.
Undisturbed(q, items, runs, frames) ==
  /\ Len(frames) <= 1
  /\ \A i \in DOMAIN frames : items[frames[i].run.task] = "queued"
  /\ \A t \in Tasks : items[t] = "queued" => t \in ToSet(q)
  /\ \A r \in runs : r.task \in ToSet(q)
  /\ \A r, s \in runs : r.task = s.task => r = s

\* No item waits beside a free slot, but for what the loop under way will call.
NoneWaits(q, items, frames, used, limit) ==
  \/ used >= limit
  \/ frames = <<>> /\ Unstarted(q, items) = {}
  \/ frames # <<>> /\ (\/ \A i \in Unstarted(q, items) : q[i] = frames[1].run.task
                       \/ frames[1].next <= used)

ThrottlerInv ==
  /\ ThrottlerTypeOK
  /\ SlotsFit(queue, item, held, settling, calling, current, thrown)
  /\ failed # "null" => failFast
  /\ ~reentered => Undisturbed(queue, item, held, calling)
  /\ ~reentered /\ failed = "null" /\ thrown = 0
     => NoneWaits(queue, item, calling, current, concurrency)

\* A step leaves `queue`, `item` and the rest as given, before it calls add(): the
\* fields have their types.
Typed(q, items, runs, done, frames, used, limit, lost) ==
  /\ q \in Seq(Tasks) /\ IsInjective(q)
  /\ items \in [Tasks -> {"new", "queued", "started", "refused"}]
  /\ runs \subseteq Run /\ done \subseteq runs
  /\ frames \in Seq(Frame)
  /\ used \in 0..MaxConcurrency /\ limit \in 0..MaxConcurrency
  /\ lost \in Nat

LEMMA RunsAreFinite ==
  ASSUME NEW runs \in SUBSET Run
  PROVE  IsFiniteSet(runs) /\ Cardinality(runs) \in Nat
<1>. DEFINE pairs == Tasks \X (1..MaxConcurrency)
            f == [p \in pairs |-> [task |-> p[1], slot |-> p[2]]]
<1>1. IsFiniteSet(pairs)
  <2>1. IsFiniteSet(1..MaxConcurrency) /\ IsFiniteSet(Tasks)
    BY ThrottlerAssumption, FS_Interval DEF ThrottlerAssumption
  <2>. QED BY <2>1, FS_Product
<1>2. f \in Surjection(pairs, Run)
  <2>1. f \in [pairs -> Run]
    BY DEF Run
  <2>2. ASSUME NEW r \in Run PROVE \E p \in pairs : f[p] = r
    <3>1. <<r.task, r.slot>> \in pairs /\ r = [task |-> r.task, slot |-> r.slot]
      BY DEF Run
    <3>. QED BY <3>1
  <2>. QED BY <2>1, <2>2 DEF Surjection
<1>3. IsFiniteSet(Run)
  BY <1>1, <1>2, FS_Surjection
<1>. QED BY <1>3, FS_Subset, FS_CardinalityType

\* find() gives the first item without a promise.
LEMMA FoundFacts ==
  ASSUME NEW q \in Seq(Tasks), NEW items, Unstarted(q, items) # {}
  PROVE  \E i \in DOMAIN q : /\ q[i] = Found(q, items) /\ items[q[i]] = "queued" /\ q[i] \in Tasks
                             /\ \A j \in 1..(i - 1) : j \in DOMAIN q /\ items[q[j]] # "queued"
<1>1. Len(q) \in Nat /\ DOMAIN q = 1..Len(q) /\ \A i \in DOMAIN q : q[i] \in Tasks
  BY LenProperties
<1>2. Unstarted(q, items) \in SUBSET Nat
  BY <1>1 DEF Unstarted
<1>3. \E n \in Unstarted(q, items) : \A m \in Unstarted(q, items) : n <= m
  BY <1>2, LeastElement
<1>4. PICK n \in Unstarted(q, items) :
        n = Min(Unstarted(q, items)) /\ \A m \in Unstarted(q, items) : n <= m
  BY <1>3 DEF Min
<1>5. ASSUME NEW j \in 1..(n - 1) PROVE j \in DOMAIN q /\ items[q[j]] # "queued"
  <2>1. n \in 1..Len(q)
    BY <1>1, <1>4 DEF Unstarted
  <2>2. j \in DOMAIN q /\ ~(n <= j)
    BY <1>1, <2>1
  <2>. QED BY <1>4, <2>2 DEF Unstarted
<1>. QED BY <1>1, <1>4, <1>5 DEF Found, Unstarted

\* What add() pushes on the stack when it calls a function
Calling(run, pushed, q, items, frames, used, next) ==
  /\ run = [task |-> Found(q, items), slot |-> used + 1]
  /\ pushed = Append(frames, [run |-> run, next |-> next])

\* The next call of a function takes a slot of its own and is on top of the stack.
LEMMA CallFits ==
  ASSUME NEW q, NEW items, NEW runs, NEW done, NEW frames, NEW used, NEW limit, NEW lost,
         Typed(q, items, runs, done, frames, used, limit, lost),
         SlotsFit(q, items, runs, done, frames, used, lost),
         NEW next \in 0..MaxConcurrency, Unstarted(q, items) # {}, used < limit,
         NEW run, NEW pushed, Calling(run, pushed, q, items, frames, used, next)
  PROVE  /\ run \in Run /\ run \notin runs /\ items[run.task] = "queued" /\ run.task \in ToSet(q)
         /\ Typed(q, items, runs \union {run}, done, pushed, used + 1, limit, lost)
         /\ SlotsFit(q, items, runs \union {run}, done, pushed, used + 1, lost)
<1>. USE DEF Calling
<1>1. PICK i \in DOMAIN q :
        /\ q[i] = Found(q, items) /\ items[q[i]] = "queued" /\ q[i] \in Tasks
        /\ \A j \in 1..(i - 1) : j \in DOMAIN q /\ items[q[j]] # "queued"
  BY FoundFacts DEF Typed
<1>2. run \in Run /\ run.task = q[i] /\ run.slot = used + 1 /\ items[run.task] = "queued"
      /\ run.task \in ToSet(q)
  BY <1>1, ThrottlerAssumption DEF ThrottlerAssumption, Run, Typed, ToSet
<1>3. run \notin runs
  BY <1>2 DEF SlotsFit, Typed
<1>4. OnTurn(q, items, run.task)
  BY <1>1, <1>2 DEF OnTurn, SlotsFit
<1>5. /\ pushed \in Seq(Frame) /\ Len(frames) \in Nat
      /\ DOMAIN pushed = 1..(Len(frames) + 1) /\ DOMAIN frames = 1..Len(frames)
      /\ \A k \in DOMAIN frames : pushed[k] = frames[k]
      /\ pushed[Len(frames) + 1] = [run |-> run, next |-> next]
  <2>1. [run |-> run, next |-> next] \in Frame /\ frames \in Seq(Frame)
    BY <1>2 DEF Frame, Typed
  <2>. QED BY <2>1, AppendProperties, LenProperties
<1>6. Typed(q, items, runs \union {run}, done, pushed, used + 1, limit, lost)
  <2>1. used + 1 \in 0..MaxConcurrency
    BY ThrottlerAssumption DEF ThrottlerAssumption, Typed
  <2>. QED BY <1>2, <1>5, <2>1 DEF Typed
<1>7. SlotsFit(q, items, runs \union {run}, done, pushed, used + 1, lost)
  <2>1. used + 1 = Cardinality(runs \union {run}) + lost
    <3>1. Cardinality(runs \union {run}) = Cardinality(runs) + 1
      BY <1>3, RunsAreFinite, FS_AddElement DEF Typed
    <3>2. Cardinality(runs) \in Nat /\ used = Cardinality(runs) + lost /\ lost \in Nat
      BY RunsAreFinite DEF Typed, SlotsFit
    <3>. QED BY <3>1, <3>2
  <2>2. ASSUME NEW k \in DOMAIN pushed
        PROVE  pushed[k].run \in (runs \union {run}) \ done /\ OnTurn(q, items, pushed[k].run.task)
    <3>1. CASE k \in DOMAIN frames
      BY <1>5, <3>1 DEF SlotsFit
    <3>2. CASE k = Len(frames) + 1
      <4>1. pushed[k].run = run
        BY <1>5, <3>2
      <4>2. run \notin done
        BY <1>3 DEF Typed
      <4>. QED BY <1>4, <4>1, <4>2
    <3>. QED BY <1>5, <3>1, <3>2
  <2>3. ASSUME NEW k \in DOMAIN pushed, NEW l \in DOMAIN pushed, pushed[k].run = pushed[l].run
        PROVE  k = l
    <3>1. \A m \in DOMAIN frames : frames[m].run # run
      BY <1>3 DEF SlotsFit
    <3>. QED BY <1>5, <2>3, <3>1 DEF SlotsFit
  <2>4. ASSUME NEW r \in runs \union {run}, items[r.task] = "queued"
        PROVE  r.slot <= used + 1 /\ \E k \in DOMAIN pushed : pushed[k].run = r
    <3>1. CASE r \in runs
      BY <1>5, <2>4, <3>1 DEF SlotsFit, Typed, Run
    <3>2. CASE r = run
      <4>1. Len(frames) + 1 \in DOMAIN pushed /\ pushed[Len(frames) + 1].run = r
        BY <1>5, <3>2
      <4>2. r.slot <= used + 1
        BY <1>2, <3>2 DEF Typed
      <4>. QED BY <4>1, <4>2
    <3>. QED BY <3>1, <3>2
  <2>5. \A r \in runs \union {run} : items[r.task] \in {"queued", "started"}
    BY <1>2 DEF SlotsFit
  <2>. QED BY <2>1, <2>2, <2>3, <2>4, <2>5 DEF SlotsFit
<1>. QED BY <1>2, <1>3, <1>6, <1>7

\* add() is left a state in which all but the item it may call fits.
LEMMA AddKeepsInv ==
  ASSUME ThrottlerInv, NEW next \in 0..MaxConcurrency, NEW outer, NEW kept, NEW used,
         Add(next, outer, kept, used),
         UNCHANGED <<failFast, failed>>,
         Typed(queue', item', kept, settling', outer, used, concurrency', thrown'),
         SlotsFit(queue', item', kept, settling', outer, used, thrown'),
         ~reentered => Undisturbed(queue', item', kept, outer),
         ~reentered /\ failed = "null" /\ thrown' = 0 /\ outer = <<>>
         => \/ NoneWaits(queue', item', <<>>, used, concurrency')
            \/ next <= used + 1 \/ used + 1 >= concurrency'
            \/ \A i \in Unstarted(queue', item') : queue'[i] = Found(queue', item')
  PROVE  ThrottlerInv'
<1>. PICK q, items, done, limit, lost :
       q = queue' /\ items = item' /\ done = settling' /\ limit = concurrency' /\ lost = thrown'
  OBVIOUS
<1>1. /\ Typed(q, items, kept, done, outer, used, limit, lost)
      /\ SlotsFit(q, items, kept, done, outer, used, lost)
  OBVIOUS
<1>2. /\ failFast' \in BOOLEAN /\ failed' \in {"null", "error", "falsy"}
      /\ failed' # "null" => failFast'
      /\ waiting' \in [WaitCalls -> {"new", "waiting", "released", "rejected"}]
      /\ reentered \in BOOLEAN
  BY DEF ThrottlerInv, ThrottlerTypeOK, Add, FlushWaiters
<1>3. CASE Open(used) /\ Unstarted(q, items) # {}
  <2>. PICK run : run = [task |-> Found(q, items), slot |-> used + 1]
    OBVIOUS
  <2>. PICK pushed : pushed = Append(outer, [run |-> run, next |-> next])
    OBVIOUS
  <2>1. /\ current' = used + 1 /\ held' = kept \union {run} /\ calling' = pushed
        /\ reentered' = (reentered \/ outer # <<>>)
    BY <1>3 DEF Add
  <2>2. used < limit
    BY <1>3 DEF Open
  <2>3. /\ run \in Run /\ run \notin kept /\ items[run.task] = "queued" /\ run.task \in ToSet(q)
        /\ Typed(q, items, kept \union {run}, done, pushed, used + 1, limit, lost)
        /\ SlotsFit(q, items, kept \union {run}, done, pushed, used + 1, lost)
    <3>. Calling(run, pushed, q, items, outer, used, next)
      BY DEF Calling
    <3>. QED BY <1>1, <1>3, <2>2, CallFits, SMTT(20)
  <2>4. ThrottlerTypeOK'
    BY <1>2, <2>1, <2>3 DEF Typed, ThrottlerTypeOK, Frame
  <2>5. ASSUME ~reentered'
        PROVE  /\ Undisturbed(q, items, kept \union {run}, pushed) /\ ~reentered /\ outer = <<>>
               /\ Len(pushed) = 1 /\ pushed[1] = [run |-> run, next |-> next]
    <3>1. ~reentered /\ outer = <<>>
      BY <1>2, <2>1, <2>5
    <3>2. Len(pushed) = 1 /\ DOMAIN pushed = {1} /\ pushed[1] = [run |-> run, next |-> next]
      BY <3>1
    <3>3. \A r \in kept : r.task # run.task
      BY <2>3, <3>1, <1>1 DEF SlotsFit
    <3>. QED BY <2>3, <3>1, <3>2, <3>3 DEF Undisturbed
  <2>6. ASSUME ~reentered', failed' = "null", thrown' = 0
        PROVE  NoneWaits(q, items, pushed, used + 1, limit)
    <3>1. pushed[1].run.task = Found(q, items) /\ pushed[1].next = next /\ pushed # <<>>
      BY <2>5, <2>6
    <3>2. /\ \/ used >= limit \/ next <= used + 1 \/ used + 1 >= limit
             \/ \A i \in Unstarted(q, items) : q[i] = Found(q, items)
      BY <1>3, <2>5, <2>6 DEF NoneWaits
    <3>3. used \in Int /\ limit \in Int
      BY <1>1 DEF Typed
    <3>. QED BY <3>1, <3>2, <3>3 DEF NoneWaits
  <2>. QED BY <1>2, <2>1, <2>3, <2>4, <2>5, <2>6 DEF ThrottlerInv
<1>4. CASE ~(Open(used) /\ Unstarted(q, items) # {})
  <2>1. current' = used /\ held' = kept /\ calling' = outer /\ reentered' = reentered
    BY <1>4 DEF Add
  <2>2. ThrottlerTypeOK'
    BY <1>1, <1>2, <2>1 DEF Typed, ThrottlerTypeOK, Frame
  <2>3. ASSUME ~reentered', failed' = "null", thrown' = 0
        PROVE  NoneWaits(q, items, outer, used, limit)
    <3>1. CASE ~Open(used)
      <4>1. used >= limit
        BY <1>1, <2>3, <3>1 DEF Open, Typed
      <4>. QED BY <4>1 DEF NoneWaits
    <3>2. CASE Unstarted(q, items) = {}
      <4>1. outer = <<>>
        <5>. SUFFICES ASSUME outer # <<>> PROVE FALSE
          OBVIOUS
        <5>1. 1 \in DOMAIN outer
          BY <1>1, EmptySeq, LenProperties DEF Typed
        <5>2. items[outer[1].run.task] = "queued" /\ OnTurn(q, items, outer[1].run.task)
          BY <1>1, <2>1, <2>3, <5>1 DEF Undisturbed, SlotsFit
        <5>. QED BY <3>2, <5>2 DEF OnTurn, Unstarted
      <4>. QED BY <3>2, <4>1 DEF NoneWaits
    <3>. QED BY <1>4, <3>1, <3>2
  <2>. QED BY <1>1, <1>2, <2>1, <2>2, <2>3 DEF ThrottlerInv
<1>. QED BY <1>3, <1>4

LEMMA AddsFromKeepsInv ==
  ASSUME ThrottlerInv, NEW old \in 0..MaxConcurrency, NEW outer, NEW kept, NEW used,
         AddsFrom(old, outer, kept, used),
         UNCHANGED <<failFast, failed>>,
         Typed(queue', item', kept, settling', outer, used, concurrency', thrown'),
         SlotsFit(queue', item', kept, settling', outer, used, thrown'),
         ~reentered => Undisturbed(queue', item', kept, outer),
         ~reentered /\ failed = "null" /\ thrown' = 0
         => \/ NoneWaits(queue', item', outer, used, concurrency')
            \/ NoneWaits(queue', item', outer, used, old)
  PROVE  ThrottlerInv'
<1>. PICK limit : limit = concurrency'
  OBVIOUS
<1>1. limit \in 0..MaxConcurrency /\ used \in Int /\ MaxConcurrency \in Nat
  BY ThrottlerAssumption DEF ThrottlerAssumption, Typed
<1>2. CASE old < limit
  <2>1. Add(old + 1, outer, kept, used)
    BY <1>2 DEF AddsFrom
  <2>2. old + 1 \in 0..MaxConcurrency
    BY <1>1, <1>2
  <2>3. ASSUME ~reentered, failed = "null", thrown' = 0, outer = <<>>
        PROVE  NoneWaits(queue', item', <<>>, used, limit) \/ old + 1 <= used + 1
    BY <1>1, <2>3 DEF NoneWaits
  <2>. QED BY <2>1, <2>2, <2>3, AddKeepsInv
<1>3. CASE ~(old < limit)
  <2>1. /\ current' = used /\ held' = kept /\ calling' = outer
        /\ waiting' = waiting /\ reentered' = reentered
    BY <1>3 DEF AddsFrom
  <2>2. ThrottlerTypeOK'
    BY <2>1 DEF ThrottlerInv, Typed, ThrottlerTypeOK, Frame
  <2>3. ASSUME ~reentered', failed' = "null", thrown' = 0
        PROVE  NoneWaits(queue', item', outer, used, limit)
    BY <1>1, <1>3, <2>1, <2>3 DEF NoneWaits
  <2>. QED BY <2>1, <2>2, <2>3 DEF ThrottlerInv
<1>. QED BY <1>2, <1>3

LEMMA InvIsTyped ==
  ThrottlerInv => Typed(queue, item, held, settling, calling, current, concurrency, thrown)
BY DEF ThrottlerInv, ThrottlerTypeOK, Typed, Frame

LEMMA QueueKeepsInv ==
  ASSUME ThrottlerInv, NEW t \in Tasks, Queue(t)
  PROVE  ThrottlerInv'
<1>1. /\ item[t] = "new" /\ item' = [item EXCEPT ![t] = "queued"] /\ queue' = Append(queue, t)
      /\ UNCHANGED <<settling, failFast, concurrency, failed, thrown>>
      /\ Add(MaxConcurrency, calling, held, current)
  BY DEF Queue, AddOnce
<1>2. /\ Typed(queue, item, held, settling, calling, current, concurrency, thrown)
      /\ SlotsFit(queue, item, held, settling, calling, current, thrown)
  BY InvIsTyped DEF ThrottlerInv
<1>3. /\ queue' \in Seq(Tasks) /\ Len(queue) \in Nat
      /\ DOMAIN queue = 1..Len(queue) /\ DOMAIN queue' = 1..(Len(queue) + 1)
      /\ \A i \in DOMAIN queue : queue'[i] = queue[i] /\ queue[i] \in Tasks
      /\ queue'[Len(queue) + 1] = t
  BY <1>1, <1>2, AppendProperties, LenProperties DEF Typed
<1>4. /\ \A u \in Tasks : item'[u] = IF u = t THEN "queued" ELSE item[u]
      /\ \A i \in DOMAIN queue : queue[i] # t /\ item'[queue'[i]] = item[queue[i]]
      /\ \A r \in held : r.task # t /\ item'[r.task] = item[r.task]
  BY <1>1, <1>2, <1>3 DEF Typed, SlotsFit, Run
<1>5. Typed(queue', item', held, settling', calling, current, concurrency', thrown')
  <2>1. IsInjective(queue')
    BY <1>2, <1>3, <1>4 DEF IsInjective, Typed
  <2>. QED BY <1>1, <1>2, <1>3, <2>1 DEF Typed
<1>6. SlotsFit(queue', item', held, settling', calling, current, thrown')
  <2>1. ASSUME NEW i \in DOMAIN calling PROVE OnTurn(queue', item', calling[i].run.task)
    <3>1. PICK p \in DOMAIN queue :
            queue[p] = calling[i].run.task /\ \A j \in 1..(p - 1) : item[queue[j]] = "started"
      BY <1>2 DEF SlotsFit, OnTurn
    <3>2. p \in DOMAIN queue' /\ queue'[p] = calling[i].run.task
      BY <1>3, <3>1
    <3>3. ASSUME NEW j \in 1..(p - 1) PROVE item'[queue'[j]] = "started"
      <4>1. j \in DOMAIN queue
        BY <1>3
      <4>. QED BY <1>4, <3>1, <4>1
    <3>. QED BY <3>2, <3>3 DEF OnTurn
  <2>2. ASSUME NEW i \in DOMAIN queue', NEW j \in DOMAIN queue'
        PROVE  /\ item'[queue'[i]] \in {"queued", "started"}
               /\ i < j /\ item'[queue'[j]] = "started" => item'[queue'[i]] = "started"
    <3>1. item'[queue'[Len(queue) + 1]] = "queued"
      BY <1>3, <1>4
    <3>2. i \in DOMAIN queue \/ i = Len(queue) + 1
      BY <1>3
    <3>3. j \in DOMAIN queue \/ j = Len(queue) + 1
      BY <1>3
    <3>4. i = Len(queue) + 1 => ~(i < j)
      BY <1>3
    <3>. QED BY <1>2, <1>4, <3>1, <3>2, <3>3, <3>4 DEF SlotsFit
  <2>. QED BY <1>1, <1>2, <1>4, <2>1, <2>2 DEF SlotsFit
<1>7. ASSUME ~reentered PROVE Undisturbed(queue', item', held, calling)
  <2>1. Undisturbed(queue, item, held, calling)
    BY <1>7 DEF ThrottlerInv
  <2>2. ToSet(queue') = ToSet(queue) \union {t}
    BY <1>3 DEF ToSet
  <2>3. \A i \in DOMAIN calling : calling[i].run \in held
    BY <1>2 DEF SlotsFit
  <2>. QED BY <1>4, <2>1, <2>2, <2>3 DEF Undisturbed
<1>8. ASSUME ~reentered, failed = "null", thrown' = 0, calling = <<>>
      PROVE  \/ current + 1 >= concurrency'
             \/ \A i \in Unstarted(queue', item') : queue'[i] = Found(queue', item')
  <2>1. current >= concurrency \/ Unstarted(queue, item) = {}
    BY <1>1, <1>8 DEF ThrottlerInv, NoneWaits
  <2>2. CASE current >= concurrency
    BY <1>1, <1>2, <2>2 DEF Typed
  <2>3. CASE Unstarted(queue, item) = {}
    <3>1. Unstarted(queue', item') \subseteq {Len(queue) + 1}
      BY <1>3, <1>4, <2>3 DEF Unstarted
    <3>. SUFFICES ASSUME NEW i \in Unstarted(queue', item') PROVE queue'[i] = Found(queue', item')
      OBVIOUS
    <3>2. PICK j \in DOMAIN queue' : queue'[j] = Found(queue', item') /\ item'[queue'[j]] = "queued"
      BY <1>3, FoundFacts
    <3>3. j \in Unstarted(queue', item')
      BY <3>2 DEF Unstarted
    <3>. QED BY <3>1, <3>2, <3>3
  <2>. QED BY <2>1, <2>2, <2>3
<1>9. MaxConcurrency \in 0..MaxConcurrency
  BY ThrottlerAssumption DEF ThrottlerAssumption
<1>. QED BY <1>1, <1>5, <1>6, <1>7, <1>8, <1>9, AddKeepsInv

LEMMA SetConcurrencyKeepsInv ==
  ASSUME ThrottlerInv, NEW n \in 0..MaxConcurrency, SetConcurrency(n)
  PROVE  ThrottlerInv'
<1>1. /\ UNCHANGED <<queue, item, settling, failFast, failed, thrown>> /\ concurrency' = n
      /\ AddsFrom(concurrency, calling, held, current)
  BY DEF SetConcurrency
<1>2. /\ Typed(queue, item, held, settling, calling, current, concurrency, thrown)
      /\ concurrency \in 0..MaxConcurrency
  BY InvIsTyped DEF Typed
<1>3. Typed(queue', item', held, settling', calling, current, concurrency', thrown')
  BY <1>1, <1>2 DEF Typed
<1>4. SlotsFit(queue', item', held, settling', calling, current, thrown')
  BY <1>1 DEF ThrottlerInv
<1>5. ~reentered => Undisturbed(queue', item', held, calling)
  BY <1>1 DEF ThrottlerInv
<1>6. ~reentered /\ failed = "null" /\ thrown' = 0
      => NoneWaits(queue', item', calling, current, concurrency)
  BY <1>1 DEF ThrottlerInv
<1>. QED BY <1>1, <1>2, <1>3, <1>4, <1>5, <1>6, AddsFromKeepsInv

\* What is left of the stack when the function on top of it returns or throws
LEMMA FrontFacts ==
  ASSUME NEW S, NEW s \in Seq(S), s # <<>>
  PROVE  /\ Front(s) \in Seq(S) /\ Len(s) \in Nat \ {0} /\ Last(s) = s[Len(s)]
         /\ Len(Front(s)) = Len(s) - 1 /\ DOMAIN Front(s) = 1..(Len(s) - 1)
         /\ DOMAIN s = 1..Len(s) /\ Len(s) \in DOMAIN s
         /\ \A i \in 1..(Len(s) - 1) : Front(s)[i] = s[i] /\ i \in DOMAIN s /\ i # Len(s)
<1>1. Len(s) \in Nat \ {0} /\ \A i \in 1..(Len(s) - 1) : s[i] \in S
  BY LenProperties, EmptySeq
<1>2. /\ Front(s) \in Seq(S) /\ Len(Front(s)) = Len(s) - 1
      /\ \A i \in 1..(Len(s) - 1) : Front(s)[i] = s[i]
  <2>. Len(s) - 1 \in Nat
    BY <1>1
  <2>. PICK m \in Nat : m = Len(s) - 1
    OBVIOUS
  <2>1. /\ SubSeq(s, 1, m) \in Seq(S) /\ Len(SubSeq(s, 1, m)) = (IF 1 <= m THEN m - 1 + 1 ELSE 0)
        /\ \A i \in 1..(m - 1 + 1) : SubSeq(s, 1, m)[i] = s[1 + i - 1]
    <3>1. 1 \in Int /\ m \in Int /\ \A i \in 1..m : s[i] \in S
      BY <1>1
    <3>. QED BY <3>1, SubSeqProperties
  <2>2. \A i \in 1..m : SubSeq(s, 1, m)[i] = s[i]
    BY <2>1
  <2>3. Front(s) = SubSeq(s, 1, m)
    BY DEF Front
  <2>. QED BY <2>1, <2>2, <2>3
<1>. QED BY <1>1, <1>2, LenProperties DEF Last

LEMMA MethodReturnsKeepsInv ==
  ASSUME ThrottlerInv, MethodReturns
  PROVE  ThrottlerInv'
<1>. PICK t, next, outer :
       t = Last(calling).run.task /\ next = Last(calling).next /\ outer = Front(calling)
  OBVIOUS
<1>1. /\ calling # <<>> /\ item' = [item EXCEPT ![t] = "started"]
      /\ UNCHANGED <<queue, settling, failFast, concurrency, failed, thrown>>
      /\ AddsFrom(next, outer, held, current)
  BY DEF MethodReturns
<1>2. /\ Typed(queue, item, held, settling, calling, current, concurrency, thrown)
      /\ SlotsFit(queue, item, held, settling, calling, current, thrown)
  BY InvIsTyped DEF ThrottlerInv
<1>. PICK n : n = Len(calling)
  OBVIOUS
<1>3. /\ outer \in Seq(Frame) /\ n \in Nat \ {0} /\ Last(calling) = calling[n]
      /\ DOMAIN outer = 1..(n - 1) /\ DOMAIN calling = 1..n /\ n \in DOMAIN calling
      /\ \A i \in DOMAIN outer : outer[i] = calling[i] /\ i \in DOMAIN calling /\ i # n
  BY <1>1, <1>2, FrontFacts DEF Typed
<1>4. next \in 0..MaxConcurrency /\ t \in Tasks /\ calling[n].run \in held /\ calling[n].run.task = t
  <2>1. calling[n] \in Frame
    BY <1>2, <1>3, ElementOfSeq DEF Typed
  <2>. QED BY <1>2, <1>3, <2>1 DEF Frame, Run, SlotsFit
<1>5. /\ \A u \in Tasks : item'[u] = IF u = t THEN "started" ELSE item[u]
      /\ \A i \in DOMAIN queue : queue[i] \in Tasks
      /\ \A r \in held : r.task \in Tasks
  BY <1>1, <1>2, LenProperties DEF Typed, Run
<1>6. PICK p \in DOMAIN queue : queue[p] = t /\ \A j \in 1..(p - 1) : item[queue[j]] = "started"
  BY <1>2, <1>3, <1>4 DEF SlotsFit, OnTurn
<1>7. Len(queue) \in Nat /\ DOMAIN queue = 1..Len(queue)
  BY <1>2, LenProperties DEF Typed
<1>8. Typed(queue', item', held, settling', outer, current, concurrency', thrown')
  BY <1>1, <1>2, <1>3 DEF Typed
<1>9. SlotsFit(queue', item', held, settling', outer, current, thrown')
  <2>1. ASSUME NEW i \in DOMAIN outer
        PROVE  outer[i].run \in held \ settling /\ OnTurn(queue, item', outer[i].run.task)
    <3>1. outer[i].run \in held \ settling /\ OnTurn(queue, item, outer[i].run.task)
      BY <1>2, <1>3 DEF SlotsFit
    <3>2. PICK k \in DOMAIN queue :
            queue[k] = outer[i].run.task /\ \A j \in 1..(k - 1) : item[queue[j]] = "started"
      BY <3>1 DEF OnTurn
    <3>3. \A j \in 1..(k - 1) : item'[queue[j]] = "started"
      BY <1>5, <1>7, <3>2
    <3>. QED BY <3>1, <3>2, <3>3 DEF OnTurn
  <2>2. \A i, j \in DOMAIN outer : outer[i].run = outer[j].run => i = j
    BY <1>2, <1>3 DEF SlotsFit
  <2>3. ASSUME NEW r \in held, item'[r.task] = "queued"
        PROVE  r.slot <= current /\ \E i \in DOMAIN outer : outer[i].run = r
    <3>1. r.task # t /\ item[r.task] = "queued"
      BY <1>5, <2>3
    <3>2. PICK i \in DOMAIN calling : calling[i].run = r
      BY <1>2, <3>1 DEF SlotsFit
    <3>3. i # n
      BY <1>4, <3>1, <3>2
    <3>4. i \in DOMAIN outer
      BY <1>3, <3>3
    <3>. QED BY <1>2, <1>3, <3>1, <3>2, <3>4 DEF SlotsFit
  <2>4. ASSUME NEW i \in DOMAIN queue, NEW j \in DOMAIN queue, i < j, item'[queue[j]] = "started"
        PROVE  item'[queue[i]] = "started"
    <3>1. CASE j = p
      <4>1. i \in 1..(p - 1)
        BY <1>7, <2>4, <3>1
      <4>. QED BY <1>5, <1>6, <4>1
    <3>2. CASE j # p
      <4>1. queue[j] # t
        BY <1>2, <1>6, <3>2 DEF Typed, IsInjective
      <4>. QED BY <1>2, <1>5, <2>4, <4>1 DEF SlotsFit
    <3>. QED BY <3>1, <3>2
  <2>5. /\ \A i \in DOMAIN queue : item'[queue[i]] \in {"queued", "started"}
        /\ \A r \in held : item'[r.task] \in {"queued", "started"}
    BY <1>2, <1>5 DEF SlotsFit
  <2>6. current = Cardinality(held) + thrown
    BY <1>2 DEF SlotsFit
  <2>7. /\ queue' = queue /\ settling' = settling /\ thrown' = thrown
    BY <1>1
  <2>. QED BY <2>1, <2>2, <2>3, <2>4, <2>5, <2>6, <2>7 DEF SlotsFit
<1>10. ASSUME ~reentered
       PROVE  /\ outer = <<>> /\ n = 1 /\ Undisturbed(queue, item, held, calling)
              /\ Undisturbed(queue', item', held, outer)
  <2>1. Undisturbed(queue, item, held, calling)
    BY <1>10 DEF ThrottlerInv
  <2>2. n = 1 /\ outer = <<>>
    <3>1. n = 1
      BY <1>3, <2>1 DEF Undisturbed
    <3>. QED BY <1>3, <3>1, EmptySeq
  <2>. QED BY <1>1, <1>5, <2>1, <2>2 DEF Undisturbed
<1>11. ASSUME ~reentered, failed = "null", thrown' = 0
       PROVE  NoneWaits(queue', item', outer, current, concurrency')
              \/ NoneWaits(queue', item', outer, current, next)
  <2>1. /\ NoneWaits(queue, item, calling, current, concurrency)
        /\ outer = <<>> /\ calling[1].run.task = t /\ calling[1].next = next
    BY <1>1, <1>3, <1>4, <1>10, <1>11 DEF ThrottlerInv
  <2>2. CASE current >= concurrency
    BY <1>1, <2>2 DEF NoneWaits
  <2>3. CASE \A i \in Unstarted(queue, item) : queue[i] = t
    <3>1. Unstarted(queue', item') = {}
      BY <1>1, <1>5, <2>3 DEF Unstarted
    <3>. QED BY <2>1, <3>1 DEF NoneWaits
  <2>4. CASE next <= current
    BY <1>2, <1>4, <2>4 DEF NoneWaits, Typed
  <2>. QED BY <1>1, <2>1, <2>2, <2>3, <2>4 DEF NoneWaits
<1>. QED BY <1>1, <1>4, <1>8, <1>9, <1>10, <1>11, AddsFromKeepsInv

LEMMA MethodThrowsKeepsInv ==
  ASSUME ThrottlerInv, MethodThrows
  PROVE  ThrottlerInv'
<1>. PICK run, outer : run = Last(calling).run /\ outer = Front(calling)
  OBVIOUS
<1>1. /\ calling # <<>> /\ calling' = outer /\ held' = held \ {run} /\ thrown' = thrown + 1
      /\ UNCHANGED <<queue, item, settling, failFast, concurrency, current, failed, waiting, reentered>>
  BY DEF MethodThrows
<1>2. /\ Typed(queue, item, held, settling, calling, current, concurrency, thrown)
      /\ SlotsFit(queue, item, held, settling, calling, current, thrown)
  BY InvIsTyped DEF ThrottlerInv
<1>. PICK n : n = Len(calling)
  OBVIOUS
<1>3. /\ outer \in Seq(Frame) /\ n \in Nat \ {0} /\ run = calling[n].run
      /\ Len(outer) = n - 1 /\ DOMAIN outer = 1..(n - 1)
      /\ DOMAIN calling = 1..n /\ n \in DOMAIN calling
      /\ \A i \in DOMAIN outer : outer[i] = calling[i] /\ i \in DOMAIN calling /\ i # n
  BY <1>1, <1>2, FrontFacts DEF Typed
<1>4. run \in held \ settling
  BY <1>2, <1>3 DEF SlotsFit
<1>5. Typed(queue, item, held', settling, outer, current, concurrency, thrown')
  BY <1>1, <1>2, <1>3, <1>4 DEF Typed
<1>6. SlotsFit(queue, item, held', settling, outer, current, thrown')
  <2>1. current = Cardinality(held') + thrown'
    <3>1. Cardinality(held') = Cardinality(held) - 1 /\ Cardinality(held) \in Nat
      BY <1>1, <1>2, <1>4, RunsAreFinite, FS_RemoveElement DEF Typed
    <3>. QED BY <1>1, <1>2, <3>1 DEF SlotsFit, Typed
  <2>2. ASSUME NEW i \in DOMAIN outer
        PROVE  outer[i].run \in held' \ settling /\ OnTurn(queue, item, outer[i].run.task)
    BY <1>1, <1>2, <1>3 DEF SlotsFit
  <2>3. \A i, j \in DOMAIN outer : outer[i].run = outer[j].run => i = j
    BY <1>2, <1>3 DEF SlotsFit
  <2>4. ASSUME NEW r \in held', item[r.task] = "queued"
        PROVE  r.slot <= current /\ \E i \in DOMAIN outer : outer[i].run = r
    <3>1. PICK i \in DOMAIN calling : calling[i].run = r
      BY <1>1, <1>2, <2>4 DEF SlotsFit
    <3>2. i \in DOMAIN outer
      BY <1>1, <1>3, <3>1
    <3>. QED BY <1>1, <1>2, <1>3, <2>4, <3>1, <3>2 DEF SlotsFit
  <2>. QED BY <1>1, <1>2, <2>1, <2>2, <2>3, <2>4 DEF SlotsFit
<1>7. ASSUME ~reentered PROVE Undisturbed(queue, item, held', outer)
  BY <1>1, <1>3, <1>7 DEF ThrottlerInv, Undisturbed
<1>8. thrown' # 0
  BY <1>1, <1>2 DEF Typed
<1>9. ThrottlerTypeOK'
  BY <1>1, <1>5 DEF ThrottlerInv, ThrottlerTypeOK, Typed, Frame
<1>. QED BY <1>1, <1>6, <1>7, <1>8, <1>9 DEF ThrottlerInv

LEMMA RemoveAtProperties ==
  ASSUME NEW S, NEW s \in Seq(S), NEW i \in 1..Len(s)
  PROVE  /\ RemoveAt(s, i) \in Seq(S)
         /\ Len(RemoveAt(s, i)) = Len(s) - 1
         /\ \A j \in 1..(Len(s) - 1) : RemoveAt(s, i)[j] = IF j < i THEN s[j] ELSE s[j + 1]
<1>. DEFINE a == SubSeq(s, 1, i - 1)
            b == SubSeq(s, i + 1, Len(s))
<1>1. Len(s) \in Nat /\ \A j \in 1..Len(s) : s[j] \in S
  BY LenProperties
<1>2. /\ a \in Seq(S) /\ Len(a) = i - 1
      /\ \A j \in 1..(i - 1) : a[j] = s[j]
  BY <1>1, SubSeqProperties
<1>3. /\ b \in Seq(S) /\ Len(b) = Len(s) - i
      /\ \A j \in 1..(Len(s) - i) : b[j] = s[i + j]
  BY <1>1, SubSeqProperties
<1>. HIDE DEF a, b
<1>4. /\ a \o b \in Seq(S) /\ Len(a \o b) = Len(a) + Len(b)
      /\ \A j \in 1..(Len(a) + Len(b)) : (a \o b)[j] = IF j <= Len(a) THEN a[j] ELSE b[j - Len(a)]
  BY <1>2, <1>3, ConcatProperties
<1>5. Len(a) + Len(b) = Len(s) - 1
  BY <1>1, <1>2, <1>3
<1>6. \A j \in 1..(Len(s) - 1) : (a \o b)[j] = IF j < i THEN s[j] ELSE s[j + 1]
  <2>. SUFFICES ASSUME NEW j \in 1..(Len(s) - 1)
                PROVE  (a \o b)[j] = IF j < i THEN s[j] ELSE s[j + 1]
    OBVIOUS
  <2>1. CASE j < i
    BY <1>1, <1>2, <1>4, <1>5, <2>1
  <2>2. CASE j >= i
    <3>1. (a \o b)[j] = b[j - (i - 1)] /\ j - (i - 1) \in 1..(Len(s) - i)
      BY <1>1, <1>2, <1>4, <1>5, <2>2
    <3>2. b[j - (i - 1)] = s[i + (j - (i - 1))] /\ i + (j - (i - 1)) = j + 1
      BY <1>1, <1>3, <3>1
    <3>3. ~(j < i)
      BY <1>1, <2>2
    <3>. QED BY <3>1, <3>2, <3>3
  <2>3. j < i \/ j >= i
    BY <1>1
  <2>. QED BY <2>1, <2>2, <2>3
<1>7. RemoveAt(s, i) = a \o b
  BY DEF RemoveAt, a, b
<1>. QED BY <1>4, <1>5, <1>6, <1>7

\* splice() leaves the other items in their order, and removes the one that it is
\* given if that is in the queue.
LEMMA SplicedFacts ==
  ASSUME NEW q \in Seq(Tasks), IsInjective(q), NEW t
  PROVE  /\ Spliced(q, t) \in Seq(Tasks) /\ IsInjective(Spliced(q, t))
         /\ \A i, j \in DOMAIN Spliced(q, t) : i < j =>
              \E k, l \in DOMAIN q : /\ k < l
                                     /\ Spliced(q, t)[i] = q[k] /\ Spliced(q, t)[j] = q[l]
         /\ \A i \in DOMAIN Spliced(q, t) : \E k \in DOMAIN q : Spliced(q, t)[i] = q[k]
         /\ t \in ToSet(q) => ToSet(Spliced(q, t)) = ToSet(q) \ {t}
<1>. DEFINE s == Spliced(q, t)
<1>1. CASE q = <<>>
  <2>1. s = q
    BY <1>1 DEF Spliced
  <2>2. DOMAIN q = {}
    BY <1>1
  <2>. QED BY <2>1, <2>2 DEF ToSet
<1>2. CASE q # <<>>
  <2>1. Len(q) \in Nat \ {0} /\ DOMAIN q = 1..Len(q)
    BY <1>2, LenProperties, EmptySeq
  <2>2. PICK p \in DOMAIN q : s = RemoveAt(q, p) /\ (t \in ToSet(q) => q[p] = t)
    <3>1. CASE t \in ToSet(q)
      <4>. DEFINE c == CHOOSE i \in DOMAIN q : q[i] = t
      <4>1. s = RemoveAt(q, c)
        BY <1>2, <3>1 DEF Spliced
      <4>2. c \in DOMAIN q /\ q[c] = t
        BY <3>1 DEF ToSet
      <4>. QED BY <4>1, <4>2
    <3>2. CASE t \notin ToSet(q)
      <4>1. s = RemoveAt(q, Len(q)) /\ Len(q) \in DOMAIN q
        BY <1>2, <2>1, <3>2 DEF Spliced
      <4>. QED BY <3>2, <4>1
    <3>. QED BY <3>1, <3>2
  <2>. DEFINE from(k) == IF k < p THEN k ELSE k + 1
  <2>. HIDE DEF s
  <2>3. /\ s \in Seq(Tasks) /\ DOMAIN s = 1..(Len(q) - 1)
        /\ \A k \in DOMAIN s : s[k] = IF k < p THEN q[k] ELSE q[k + 1]
    <3>1. p \in 1..Len(q)
      BY <2>1
    <3>2. /\ s \in Seq(Tasks) /\ Len(s) = Len(q) - 1
          /\ \A k \in 1..(Len(q) - 1) : s[k] = IF k < p THEN q[k] ELSE q[k + 1]
      BY <2>2, <3>1, RemoveAtProperties
    <3>3. DOMAIN s = 1..Len(s)
      BY <3>2, LenProperties
    <3>. QED BY <3>2, <3>3
  <2>4. ASSUME NEW k \in DOMAIN s PROVE from(k) \in DOMAIN q /\ from(k) # p /\ s[k] = q[from(k)]
    BY <2>1, <2>3
  <2>5. ASSUME NEW k \in DOMAIN s, NEW l \in DOMAIN s
        PROVE  (k < l => from(k) < from(l)) /\ (from(k) = from(l) => k = l)
    BY <2>1, <2>3
  <2>6. ASSUME NEW k \in DOMAIN q, k # p PROVE \E l \in DOMAIN s : from(l) = k
    <3>1. CASE k < p
      BY <2>1, <2>3, <3>1
    <3>2. CASE k > p
      <4>1. k - 1 \in DOMAIN s /\ from(k - 1) = k
        BY <2>1, <2>3, <3>2
      <4>. QED BY <4>1
    <3>. QED BY <2>1, <2>6, <3>1, <3>2
  <2>. HIDE DEF from
  <2>7. IsInjective(s)
    <3>1. ASSUME NEW k \in DOMAIN s, NEW l \in DOMAIN s, s[k] = s[l] PROVE k = l
      BY <2>4, <2>5, <3>1 DEF IsInjective
    <3>. QED BY <3>1 DEF IsInjective
  <2>8. \A i, j \in DOMAIN s : i < j => \E k, l \in DOMAIN q : k < l /\ s[i] = q[k] /\ s[j] = q[l]
    BY <2>4, <2>5
  <2>9. \A i \in DOMAIN s : \E k \in DOMAIN q : s[i] = q[k]
    BY <2>4
  <2>10. ASSUME t \in ToSet(q) PROVE ToSet(s) = ToSet(q) \ {t}
    <3>1. \A k \in DOMAIN q : k # p => q[k] # t
      BY <2>2, <2>10 DEF IsInjective
    <3>2. ASSUME NEW u \in ToSet(s) PROVE u \in ToSet(q) \ {t}
      <4>1. PICK k \in DOMAIN s : u = s[k]
        BY <3>2 DEF ToSet
      <4>. QED BY <2>4, <3>1, <4>1 DEF ToSet
    <3>3. ASSUME NEW u \in ToSet(q) \ {t} PROVE u \in ToSet(s)
      <4>1. PICK k \in DOMAIN q : u = q[k] /\ k # p
        BY <2>2, <2>10, <3>3 DEF ToSet
      <4>2. PICK l \in DOMAIN s : from(l) = k
        BY <2>6, <4>1
      <4>. QED BY <2>4, <4>1, <4>2 DEF ToSet
    <3>. QED BY <3>2, <3>3
  <2>. QED BY <2>3, <2>7, <2>8, <2>9, <2>10 DEF s
<1>. QED BY <1>1, <1>2

\* A call that ended gives its slot back and takes its item out of the queue.
LEMMA EndFits ==
  ASSUME ThrottlerInv, calling = <<>>, NEW r \in settling
  PROVE  /\ Typed(Spliced(queue, r.task), item, held \ {r}, settling \ {r}, <<>>, current - 1,
                  concurrency, thrown)
         /\ SlotsFit(Spliced(queue, r.task), item, held \ {r}, settling \ {r}, <<>>, current - 1,
                     thrown)
         /\ ~reentered => Undisturbed(Spliced(queue, r.task), item, held \ {r}, <<>>)
         /\ Unstarted(queue, item) = {} => Unstarted(Spliced(queue, r.task), item) = {}
<1>. PICK q : q = Spliced(queue, r.task)
  OBVIOUS
<1>1. /\ Typed(queue, item, held, settling, <<>>, current, concurrency, thrown)
      /\ SlotsFit(queue, item, held, settling, <<>>, current, thrown)
  BY InvIsTyped DEF ThrottlerInv
<1>2. /\ q \in Seq(Tasks) /\ IsInjective(q)
      /\ \A i, j \in DOMAIN q : i < j =>
           \E k, l \in DOMAIN queue : k < l /\ q[i] = queue[k] /\ q[j] = queue[l]
      /\ \A i \in DOMAIN q : \E k \in DOMAIN queue : q[i] = queue[k]
      /\ r.task \in ToSet(queue) => ToSet(q) = ToSet(queue) \ {r.task}
  BY <1>1, SplicedFacts DEF Typed
<1>3. r \in held /\ r \in Run /\ \A s \in held : item[s.task] = "started"
  BY <1>1, EmptySeq DEF Typed, SlotsFit
<1>4. Cardinality(held \ {r}) = Cardinality(held) - 1 /\ Cardinality(held \ {r}) \in Nat
      /\ Cardinality(held) \in Nat
  BY <1>1, <1>3, RunsAreFinite, FS_RemoveElement DEF Typed
<1>5. current - 1 = Cardinality(held \ {r}) + thrown /\ current - 1 \in 0..MaxConcurrency
  BY <1>1, <1>4, ThrottlerAssumption DEF ThrottlerAssumption, Typed, SlotsFit
<1>6. Typed(q, item, held \ {r}, settling \ {r}, <<>>, current - 1, concurrency, thrown)
  BY <1>1, <1>2, <1>5 DEF Typed
<1>7. SlotsFit(q, item, held \ {r}, settling \ {r}, <<>>, current - 1, thrown)
  <2>1. ASSUME NEW i \in DOMAIN q, NEW j \in DOMAIN q, i < j, item[q[j]] = "started"
        PROVE  item[q[i]] = "started"
    BY <1>1, <1>2, <2>1 DEF SlotsFit
  <2>2. \A i \in DOMAIN q : item[q[i]] \in {"queued", "started"}
    BY <1>1, <1>2 DEF SlotsFit
  <2>. QED BY <1>3, <1>5, <2>1, <2>2 DEF SlotsFit
<1>8. ASSUME ~reentered PROVE Undisturbed(q, item, held \ {r}, <<>>)
  <2>1. Undisturbed(queue, item, held, <<>>)
    BY <1>8 DEF ThrottlerInv
  <2>2. ToSet(q) = ToSet(queue) \ {r.task} /\ item[r.task] = "started"
    BY <1>2, <1>3, <2>1 DEF Undisturbed
  <2>3. \A s \in held \ {r} : s.task # r.task
    BY <1>3, <2>1 DEF Undisturbed
  <2>. QED BY <2>1, <2>2, <2>3 DEF Undisturbed
<1>9. ASSUME Unstarted(queue, item) = {} PROVE Unstarted(q, item) = {}
  BY <1>2, <1>9 DEF Unstarted
<1>. QED BY <1>6, <1>7, <1>8, <1>9

LEMMA FinallyKeepsInv ==
  ASSUME ThrottlerInv, NEW r, Finally(r)
  PROVE  ThrottlerInv'
<1>. PICK kept, used : kept = held \ {r} /\ used = current - 1
  OBVIOUS
<1>1. /\ calling = <<>> /\ r \in settling /\ settling' = settling \ {r}
      /\ queue' = Spliced(queue, r.task)
      /\ UNCHANGED <<item, failFast, concurrency, failed, thrown>>
      /\ Add(MaxConcurrency, <<>>, kept, used)
  BY DEF Finally, AddOnce
<1>2. /\ Typed(queue', item', kept, settling', <<>>, used, concurrency', thrown')
      /\ SlotsFit(queue', item', kept, settling', <<>>, used, thrown')
      /\ ~reentered => Undisturbed(queue', item', kept, <<>>)
      /\ Unstarted(queue, item) = {} => Unstarted(queue', item') = {}
  BY <1>1, EndFits
<1>3. ASSUME ~reentered, failed = "null", thrown' = 0
      PROVE  NoneWaits(queue', item', <<>>, used, concurrency') \/ used + 1 >= concurrency'
  <2>1. current \in Int /\ concurrency' = concurrency
    BY <1>1 DEF ThrottlerInv, ThrottlerTypeOK
  <2>2. current >= concurrency \/ Unstarted(queue, item) = {}
    BY <1>1, <1>3 DEF ThrottlerInv, NoneWaits
  <2>. QED BY <1>2, <2>1, <2>2 DEF NoneWaits
<1>4. MaxConcurrency \in 0..MaxConcurrency
  BY ThrottlerAssumption DEF ThrottlerAssumption
<1>. QED BY <1>1, <1>2, <1>3, <1>4, AddKeepsInv

\* The steps that neither give nor take a slot
LEMMA RestKeepsInv ==
  ASSUME ThrottlerInv,
         \/ \E t \in Tasks : QueueRefused(t)
         \/ \E w \in WaitCalls : Wait(w)
         \/ \E r \in held : RunSettles(r)
         \/ UNCHANGED throttlerVars
  PROVE  ThrottlerInv'
<1>1. CASE UNCHANGED throttlerVars
  BY <1>1 DEF ThrottlerInv, ThrottlerTypeOK, throttlerVars
<1>2. ASSUME NEW t \in Tasks, QueueRefused(t) PROVE ThrottlerInv'
  <2>1. /\ item[t] = "new" /\ item' = [item EXCEPT ![t] = "refused"]
        /\ UNCHANGED <<queue, held, settling, calling, failFast, concurrency, current, failed,
                       waiting, thrown, reentered>>
    BY <1>2 DEF QueueRefused
  <2>2. /\ SlotsFit(queue, item, held, settling, calling, current, thrown)
        /\ Typed(queue, item, held, settling, calling, current, concurrency, thrown)
    BY InvIsTyped DEF ThrottlerInv
  <2>3. /\ \A u \in Tasks : item'[u] = IF u = t THEN "refused" ELSE item[u]
        /\ \A i \in DOMAIN queue : queue[i] \in Tasks /\ queue[i] # t
        /\ \A r \in held : r.task \in Tasks /\ r.task # t
    BY <2>1, <2>2, LenProperties DEF Typed, SlotsFit, Run
  <2>4. /\ \A i \in DOMAIN queue : item'[queue[i]] = item[queue[i]]
        /\ \A r \in held : item'[r.task] = item[r.task]
        /\ \A i \in DOMAIN calling : calling[i].run \in held
    BY <2>2, <2>3 DEF SlotsFit
  <2>5. SlotsFit(queue, item', held, settling, calling, current, thrown)
    <3>1. ASSUME NEW i \in DOMAIN calling PROVE OnTurn(queue, item', calling[i].run.task)
      <4>1. PICK p \in DOMAIN queue :
              queue[p] = calling[i].run.task /\ \A j \in 1..(p - 1) : item[queue[j]] = "started"
        BY <2>2 DEF SlotsFit, OnTurn
      <4>2. \A j \in 1..(p - 1) : j \in DOMAIN queue
        BY <2>2, <4>1, LenProperties DEF Typed
      <4>. QED BY <2>4, <4>1, <4>2 DEF OnTurn
    <3>. QED BY <2>2, <2>4, <3>1 DEF SlotsFit
  <2>6. ASSUME ~reentered PROVE Undisturbed(queue, item', held, calling)
    BY <2>3, <2>4, <2>6 DEF ThrottlerInv, Undisturbed
  <2>7. Unstarted(queue, item') = Unstarted(queue, item)
    BY <2>4 DEF Unstarted
  <2>8. ThrottlerTypeOK'
    BY <2>1 DEF ThrottlerInv, ThrottlerTypeOK
  <2>. QED BY <2>1, <2>5, <2>6, <2>7, <2>8 DEF ThrottlerInv, NoneWaits
<1>3. ASSUME NEW w \in WaitCalls, Wait(w) PROVE ThrottlerInv'
  BY <1>3 DEF Wait, ThrottlerInv, ThrottlerTypeOK
<1>4. ASSUME NEW r \in held, RunSettles(r) PROVE ThrottlerInv'
  <2>1. /\ calling = <<>> /\ settling' = settling \union {r}
        /\ UNCHANGED <<queue, item, held, calling, failFast, concurrency, current, thrown, reentered>>
        /\ failed' = failed \/ failFast
        /\ failed' \in {"null", "error", "falsy"} /\ (failed' = "null" => failed = "null")
        /\ waiting' \in [WaitCalls -> {"new", "waiting", "released", "rejected"}]
    BY <1>4 DEF RunSettles, Fulfil, Reject, Settles, FlushWaiters, ThrottlerInv, ThrottlerTypeOK
  <2>2. SlotsFit(queue, item, held, settling', calling, current, thrown)
    BY <2>1, EmptySeq DEF ThrottlerInv, SlotsFit
  <2>3. ThrottlerTypeOK'
    BY <2>1 DEF ThrottlerInv, ThrottlerTypeOK
  <2>. QED BY <2>1, <2>2, <2>3 DEF ThrottlerInv
<1>. QED BY <1>1, <1>2, <1>3, <1>4

LEMMA ThrottlerStarts == ThrottlerInit => ThrottlerInv
<1>. SUFFICES ASSUME ThrottlerInit PROVE ThrottlerInv
  OBVIOUS
<1>. USE DEF ThrottlerInit
<1>1. ThrottlerTypeOK
  <2>1. <<>> \in Seq(Tasks) /\ <<>> \in Seq(Frame) /\ IsInjective(<<>>)
    BY EmptySeq DEF IsInjective
  <2>2. concurrency \in 0..MaxConcurrency /\ 0 \in 0..MaxConcurrency
    BY ThrottlerAssumption DEF ThrottlerAssumption
  <2>. QED BY <2>1, <2>2 DEF ThrottlerTypeOK, Frame
<1>2. SlotsFit(queue, item, held, settling, calling, current, thrown)
  BY FS_EmptySet, EmptySeq DEF SlotsFit
<1>3. Undisturbed(queue, item, held, calling)
  BY EmptySeq DEF Undisturbed
<1>4. NoneWaits(queue, item, calling, current, concurrency)
  BY EmptySeq DEF NoneWaits, Unstarted
<1>. QED BY <1>1, <1>2, <1>3, <1>4 DEF ThrottlerInv

LEMMA ThrottlerIsInvariant == ThrottlerSpec => []ThrottlerInv
<1>1. ThrottlerInv /\ [ThrottlerNext]_throttlerVars => ThrottlerInv'
  <2>. SUFFICES ASSUME ThrottlerInv, [ThrottlerNext]_throttlerVars PROVE ThrottlerInv'
    OBVIOUS
  <2>1. CASE \E t \in Tasks : Queue(t)
    BY <2>1, QueueKeepsInv
  <2>2. CASE \E n \in 0..MaxConcurrency : SetConcurrency(n)
    BY <2>2, SetConcurrencyKeepsInv
  <2>3. CASE MethodReturns \/ MethodThrows
    BY <2>3, MethodReturnsKeepsInv, MethodThrowsKeepsInv
  <2>4. CASE \E r \in held : Finally(r)
    BY <2>4, FinallyKeepsInv
  <2>5. CASE \/ \E t \in Tasks : QueueRefused(t)
             \/ \E w \in WaitCalls : Wait(w)
             \/ \E r \in held : RunSettles(r)
             \/ UNCHANGED throttlerVars
    BY <2>5, RestKeepsInv
  <2>. QED BY <2>1, <2>2, <2>3, <2>4, <2>5 DEF ThrottlerNext
<1>. QED BY <1>1, ThrottlerStarts, PTL DEF ThrottlerSpec

\* A throttler's fields stay in their types, and a failure is only ever recorded by
\* one that was constructed with failFast.
THEOREM ThrottlerTypeCorrect == ThrottlerSpec => [](ThrottlerTypeOK /\ (failed # "null" => failFast))
BY ThrottlerIsInvariant, PTL DEF ThrottlerInv

\* However queue(), setConcurrency(), wait(), the functions that call them back and
\* the settling of promises are mixed, every slot in use is held by a call or was
\* lost to a function that threw, items are started in the order of the queue, and
\* none stays without a promise beside a free slot, with the exceptions named.
THEOREM SlotsAreAccountedFor == ThrottlerSpec => []SlotsAreUsed
<1>1. ThrottlerInv => SlotsAreUsed
  <2>. SUFFICES ASSUME ThrottlerInv PROVE SlotsAreUsed
    OBVIOUS
  <2>1. ASSUME calling = <<>>, current < concurrency, failed = "null", thrown = 0, ~reentered
        PROVE  Unstarted(queue, item) = {}
    BY <2>1 DEF ThrottlerInv, ThrottlerTypeOK, NoneWaits
  <2>. QED BY <2>1 DEF ThrottlerInv, SlotsFit, SlotsAreUsed
<1>. QED BY <1>1, ThrottlerIsInvariant, PTL

\* While no function was called twice, a queue without an item to start has nothing
\* unfinished but what holds a slot.
LEMMA NothingIsQueued ==
  ASSUME NEW q, NEW items, NEW runs, NEW frames, Undisturbed(q, items, runs, frames),
         Unstarted(q, items) = {}
  PROVE  \A t \in Tasks : items[t] # "queued"
BY DEF Undisturbed, Unstarted, ToSet

LEMMA NothingIsHeld ==
  ASSUME ThrottlerInv, current = 0
  PROVE  held = {} /\ thrown = 0 /\ calling = <<>>
<1>1. /\ Typed(queue, item, held, settling, calling, current, concurrency, thrown)
      /\ SlotsFit(queue, item, held, settling, calling, current, thrown)
  BY InvIsTyped DEF ThrottlerInv
<1>2. IsFiniteSet(held) /\ Cardinality(held) \in Nat
  BY <1>1, RunsAreFinite DEF Typed
<1>3. Cardinality(held) = 0 /\ thrown = 0
  BY <1>1, <1>2 DEF Typed, SlotsFit
<1>4. held = {}
  BY <1>2, <1>3, FS_EmptySet
<1>5. DOMAIN calling = {}
  BY <1>1, <1>4 DEF SlotsFit
<1>6. calling = <<>>
  BY <1>1, <1>5, EmptySeq, LenProperties DEF Typed
<1>. QED BY <1>3, <1>4, <1>6

\* The last call to end is the only one that holds a slot.
LEMMA FinallyDrains ==
  ASSUME ThrottlerInv, NEW r, Finally(r), waiting' # waiting, ~reentered
  PROVE  r \in settling /\ Unfinished = {r.task} /\ held = {r}
<1>. PICK kept, used : kept = held \ {r} /\ used = current - 1
  OBVIOUS
<1>1. /\ calling = <<>> /\ r \in settling /\ item' = item
      /\ queue' = Spliced(queue, r.task)
      /\ Add(MaxConcurrency, <<>>, kept, used)
  BY DEF Finally, AddOnce
<1>2. Unstarted(queue', item) = {} /\ used = 0
  BY <1>1 DEF Add, Flushed
<1>3. /\ Undisturbed(queue', item, kept, <<>>)
      /\ used = Cardinality(kept) + thrown /\ kept \in SUBSET Run /\ thrown \in Nat
      /\ r \in held
  BY <1>1, EndFits DEF SlotsFit, Typed, ThrottlerInv, ThrottlerTypeOK
<1>4. kept = {}
  <2>1. IsFiniteSet(kept) /\ Cardinality(kept) \in Nat
    BY <1>3, RunsAreFinite
  <2>2. Cardinality(kept) = 0
    BY <1>2, <1>3, <2>1
  <2>. QED BY <2>1, <2>2, FS_EmptySet
<1>5. \A t \in Tasks : item[t] # "queued"
  BY <1>2, <1>3, NothingIsQueued
<1>6. held = {r}
  BY <1>3, <1>4
<1>. QED BY <1>1, <1>5, <1>6 DEF Unfinished

LEMMA ReleasesAreDrained ==
  ASSUME ThrottlerInv, ThrottlerNext, NEW w \in WaitCalls,
         waiting[w] # "released", waiting'[w] = "released",
         concurrency # 0, failed' # "falsy", ~reentered
  PROVE  Unfinished = {} \/ \E r \in settling : Unfinished = {r.task} /\ held = {r}
<1>1. ASSUME NEW t \in Tasks, Queue(t) PROVE FALSE
  <2>1. /\ item' = [item EXCEPT ![t] = "queued"] /\ queue' = Append(queue, t)
        /\ Add(MaxConcurrency, calling, held, current)
    BY <1>1 DEF Queue, AddOnce
  <2>2. queue \in Seq(Tasks) /\ item' \in [Tasks -> {"new", "queued", "started", "refused"}]
    BY <2>1 DEF ThrottlerInv, ThrottlerTypeOK
  <2>3. Len(queue) + 1 \in DOMAIN queue' /\ queue'[Len(queue) + 1] = t
    BY <2>1, <2>2, AppendProperties, LenProperties
  <2>4. item'[t] = "queued"
    BY <2>1 DEF ThrottlerInv, ThrottlerTypeOK
  <2>5. Unstarted(queue', item') # {}
    BY <2>3, <2>4 DEF Unstarted
  <2>. QED BY <2>1, <2>5 DEF Add, Flushed
<1>2. ASSUME NEW n \in 0..MaxConcurrency, SetConcurrency(n) PROVE Unfinished = {}
  <2>1. /\ queue' = queue /\ item' = item
        /\ AddsFrom(concurrency, calling, held, current)
    BY <1>2 DEF SetConcurrency
  <2>2. Unstarted(queue, item) = {} /\ current = 0
    BY <2>1 DEF AddsFrom, Add, Flushed
  <2>3. \A t \in Tasks : item[t] # "queued"
    BY <2>2, NothingIsQueued DEF ThrottlerInv
  <2>. QED BY <2>2, <2>3, NothingIsHeld DEF Unfinished
<1>3. ASSUME Wait(w) PROVE Unfinished = {}
  <2>1. failed # "error" /\ current = 0 /\ failed' = failed
    BY <1>3 DEF Wait, ThrottlerInv, ThrottlerTypeOK
  <2>2. held = {} /\ thrown = 0 /\ calling = <<>>
    BY <2>1, NothingIsHeld
  <2>3. failed = "null"
    BY <2>1 DEF ThrottlerInv, ThrottlerTypeOK
  <2>4. Unstarted(queue, item) = {}
    BY <2>1, <2>2, <2>3 DEF ThrottlerInv, ThrottlerTypeOK, NoneWaits
  <2>5. \A t \in Tasks : item[t] # "queued"
    BY <2>4, NothingIsQueued DEF ThrottlerInv
  <2>. QED BY <2>2, <2>5 DEF Unfinished
<1>4. ASSUME NEW v \in WaitCalls, Wait(v) PROVE v = w
  BY <1>4 DEF Wait, ThrottlerInv, ThrottlerTypeOK
<1>5. ASSUME MethodReturns PROVE FALSE
  <2>1. calling # <<>> /\ AddsFrom(Last(calling).next, Front(calling), held, current)
    BY <1>5 DEF MethodReturns
  <2>2. current = 0
    BY <2>1 DEF AddsFrom, Add, Flushed
  <2>. QED BY <2>1, <2>2, NothingIsHeld
<1>6. ASSUME NEW r \in held, Finally(r) PROVE r \in settling /\ Unfinished = {r.task} /\ held = {r}
  BY <1>6, FinallyDrains
<1>7. ASSUME NEW r \in held, RunSettles(r) PROVE FALSE
  BY <1>7 DEF RunSettles, Fulfil, Reject, FlushWaiters, ThrottlerInv, ThrottlerTypeOK
<1>8. ~MethodThrows /\ \A t \in Tasks : ~QueueRefused(t)
  BY DEF MethodThrows, QueueRefused
<1>. QED BY <1>1, <1>2, <1>3, <1>4, <1>5, <1>6, <1>7, <1>8 DEF ThrottlerNext

\* A wait() ends well only once every call has ended and nothing is queued, with the
\* exceptions named.
THEOREM WaitsAreDrained == ThrottlerSpec => ReleasedWhenDrained
<1>1. ThrottlerInv /\ [ThrottlerNext]_throttlerVars
      => [\A w \in WaitCalls :
            waiting[w] # "released" /\ waiting'[w] = "released"
            => \/ Unfinished = {} \/ \E r \in settling : Unfinished = {r.task} /\ held = {r}
               \/ concurrency = 0 \/ failed' = "falsy" \/ reentered]_throttlerVars
  BY ReleasesAreDrained
<1>. QED BY <1>1, ThrottlerIsInvariant, PTL DEF ThrottlerSpec, ReleasedWhenDrained

-----------------------------------------------------------------------------
\* Debouncer

\* Every timeout is due within `wait`, counted from now and from the last call.
TimersAreNear ==
  \A t \in timeouts :
    /\ now <= t.at /\ t.at <= now + WaitTime
    /\ lastCallTime # Undefined => t.at <= lastCallTime + WaitTime

\* What a pending call has: a timeout, and every timeout is due in time for it.
PendingIsTimed ==
  lastArgs # 0 =>
    /\ timerId # Undefined /\ lastCallTime # Undefined /\ oldest # Undefined
    /\ lastInvokeTime <= oldest
    /\ Limited => \A t \in timeouts : t.at <= oldest + Largest(WaitTime, options.maxWait)

\* What waits is the last call, and a trailing edge does not lose it.
NothingIsDropped ==
  /\ lastArgs \in {0, calls}
  /\ options.trailing /\ lastArgs = 0 => handled = calls

DebouncerInv ==
  /\ DebouncerTypeOK
  /\ NothingIsDropped
  /\ IsFiniteSet(timeouts)
  /\ lastCallTime <= now /\ lastInvokeTime <= now /\ oldest <= now
  /\ TimersAreNear
  /\ PendingIsTimed

LEMMA ClockIsNat ==
  ASSUME DebouncerTypeOK
  PROVE  /\ now \in Nat /\ now # Undefined /\ Clock \subseteq Nat
         /\ WaitTime \in Nat \ {0} /\ options.maxWait \in Nat
         /\ lastCallTime \in Nat /\ lastInvokeTime \in Nat /\ oldest \in Nat
         /\ Start + Duration \in Nat
<1>1. options.maxWait \in MaxWaits /\ options.maxWait \in Nat /\ Start >= options.maxWait + WaitTime
  BY DebouncerAssumption DEF DebouncerAssumption, DebouncerTypeOK
<1>2. Start \in Nat /\ Duration \in Nat /\ WaitTime \in Nat \ {0} /\ Clock \subseteq Nat
  BY DebouncerAssumption DEF DebouncerAssumption, Clock
<1>3. now \in Nat /\ now >= Start
  BY <1>2 DEF DebouncerTypeOK, Clock
<1>4. now # Undefined
  BY <1>1, <1>2, <1>3 DEF Undefined
<1>5. lastCallTime \in Nat /\ lastInvokeTime \in Nat /\ oldest \in Nat
  BY <1>2 DEF DebouncerTypeOK, Undefined
<1>. QED BY <1>1, <1>2, <1>3, <1>4, <1>5

\* setTimeout has an identifier to give: there are more of them than timeouts.
LEMMA NewIdIsFresh ==
  ASSUME IsFiniteSet(timeouts)
  PROVE  NewId \in Nat \ {0}
<1>. PICK n \in Nat : n = Cardinality(timeouts)
  BY FS_CardinalityType
<1>. DEFINE ids == {t.id : t \in timeouts}
<1>. DEFINE f == [t \in timeouts |-> t.id]
<1>1. IsFiniteSet(ids) /\ Cardinality(ids) <= n /\ Cardinality(ids) \in Nat
  <2>1. f \in Surjection(timeouts, ids)
    BY DEF Surjection
  <2>2. IsFiniteSet(ids) /\ Cardinality(ids) <= Cardinality(timeouts)
    BY <2>1, FS_Surjection
  <2>. QED BY <2>2, FS_CardinalityType
<1>2. Cardinality(1..(n + 1)) = n + 1
  BY FS_Interval
<1>3. ~(1..(n + 1) \subseteq ids)
  <2>. SUFFICES ASSUME 1..(n + 1) \subseteq ids PROVE FALSE
    OBVIOUS
  <2>1. Cardinality(1..(n + 1)) <= Cardinality(ids)
    BY <1>1, FS_Subset
  <2>. QED BY <1>1, <1>2, <2>1
<1>4. \E i \in 1..(Cardinality(timeouts) + 1) : \A t \in timeouts : t.id # i
  BY <1>3
<1>5. NewId \in 1..(Cardinality(timeouts) + 1)
  BY <1>4 DEF NewId
<1>. QED BY <1>5

LEMMA LargestFacts ==
  ASSUME NEW a \in Nat, NEW b \in Nat
  PROVE  Largest(a, b) \in Nat /\ a <= Largest(a, b) /\ b <= Largest(a, b)
BY DEF Largest

\* What arming the timer leaves scheduled
LEMMA ArmFacts ==
  ASSUME DebouncerTypeOK, IsFiniteSet(timeouts), NEW others \in SUBSET timeouts,
         NEW delay \in Nat, Arm(others, delay)
  PROVE  /\ timeouts' \subseteq [id : Nat \ {0}, at : Nat] /\ IsFiniteSet(timeouts')
         /\ timerId' # Undefined /\ \E t \in timeouts' : t.id = timerId'
         /\ \A t \in timeouts' : t \in others \/ t.at = now + delay
<1>. PICK new : new = [id |-> NewId, at |-> now + delay]
  OBVIOUS
<1>1. NewId \in Nat \ {0} /\ now \in Nat
  BY NewIdIsFresh, ClockIsNat
<1>2. new \in [id : Nat \ {0}, at : Nat] /\ new.id = NewId /\ new.at = now + delay
  BY <1>1
<1>3. timeouts' = others \union {new} /\ timerId' = NewId
  BY DEF Arm
<1>4. IsFiniteSet(others \union {new})
  BY FS_Subset, FS_AddElement
<1>5. timeouts' \subseteq [id : Nat \ {0}, at : Nat]
  BY <1>2, <1>3 DEF DebouncerTypeOK
<1>. QED BY <1>1, <1>2, <1>3, <1>4, <1>5 DEF Undefined

\* A timer that is armed for `delay`, not beyond what the last call allows, keeps
\* every timeout near.
LEMMA ArmKeepsNear ==
  ASSUME DebouncerInv, NEW others \in SUBSET timeouts, NEW delay \in Nat,
         Arm(others, delay), now' = now, delay <= WaitTime,
         \/ lastCallTime' = now
         \/ lastCallTime' = lastCallTime /\ now + delay <= lastCallTime + WaitTime
  PROVE  TimersAreNear'
<1>1. /\ now \in Nat /\ WaitTime \in Nat /\ lastCallTime \in Nat
  BY ClockIsNat DEF DebouncerInv
<1>2. \A t \in timeouts' : t \in others \/ t.at = now + delay
  BY ArmFacts DEF DebouncerInv
<1>3. \A t \in others : t \in timeouts /\ t.at \in Nat
  BY DEF DebouncerInv, DebouncerTypeOK
<1>. SUFFICES ASSUME NEW t \in timeouts'
              PROVE  /\ now' <= t.at /\ t.at <= now' + WaitTime
                     /\ lastCallTime' # Undefined => t.at <= lastCallTime' + WaitTime
  BY DEF TimersAreNear
<1>4. CASE t \in others
  <2>1. /\ now <= t.at /\ t.at <= now + WaitTime
        /\ lastCallTime # Undefined => t.at <= lastCallTime + WaitTime
    BY <1>3, <1>4 DEF DebouncerInv, TimersAreNear
  <2>. QED BY <1>1, <1>3, <1>4, <2>1
<1>5. CASE t.at = now + delay
  BY <1>1, <1>5
<1>. QED BY <1>2, <1>4, <1>5

LEMMA CallOnLeadingEdgeKeepsInv ==
  ASSUME DebouncerInv, CallOnLeadingEdge
  PROVE  DebouncerInv'
<1>. USE DEF DebouncerInv
<1>1. /\ calls < MaxCalls /\ calls' = calls + 1 /\ lastCallTime' = now
      /\ UNCHANGED <<options, now>> /\ timerId = Undefined /\ Arm(timeouts, WaitTime)
  BY DEF CallOnLeadingEdge, Called
<1>2. /\ now \in Nat /\ now # Undefined /\ WaitTime \in Nat /\ calls \in Nat /\ MaxCalls \in Nat
      /\ options.maxWait \in Nat /\ now \in Clock
  BY ClockIsNat, DebouncerAssumption DEF DebouncerTypeOK, DebouncerAssumption
<1>3. lastArgs = 0
  BY <1>1 DEF PendingIsTimed
<1>4. /\ lastInvokeTime' = now
      /\ \/ lastArgs' = 0 /\ oldest' = Undefined /\ handled' = calls + 1
         \/ lastArgs' = calls + 1 /\ oldest' = now /\ handled' = handled
  BY <1>1, <1>3 DEF CallOnLeadingEdge, Passes, Pending
<1>5. /\ timeouts' \subseteq [id : Nat \ {0}, at : Nat] /\ IsFiniteSet(timeouts')
      /\ timerId' # Undefined /\ \E t \in timeouts' : t.id = timerId'
  BY <1>1, <1>2, ArmFacts
<1>6. TimersAreNear'
  BY <1>1, <1>2, ArmKeepsNear
<1>7. DebouncerTypeOK'
  BY <1>1, <1>2, <1>4, <1>5 DEF DebouncerTypeOK, Undefined
<1>8. lastCallTime' <= now' /\ lastInvokeTime' <= now' /\ oldest' <= now'
  BY <1>1, <1>2, <1>4 DEF Undefined
<1>9. PendingIsTimed'
  <2>. SUFFICES ASSUME lastArgs' # 0
                PROVE  /\ timerId' # Undefined /\ lastCallTime' # Undefined /\ oldest' # Undefined
                       /\ lastInvokeTime' <= oldest'
                       /\ \A t \in timeouts' :
                            t.at <= oldest' + Largest(WaitTime, options'.maxWait)
    BY DEF PendingIsTimed
  <2>1. oldest' = now /\ lastInvokeTime' = now
    BY <1>4
  <2>2. \A t \in timeouts' : t.at \in Nat /\ t.at <= now + WaitTime
    BY <1>1, <1>5, <1>6 DEF TimersAreNear
  <2>3. WaitTime <= Largest(WaitTime, options.maxWait) /\ Largest(WaitTime, options.maxWait) \in Nat
    BY <1>2, LargestFacts
  <2>. QED BY <1>1, <1>2, <1>5, <2>1, <2>2, <2>3
<1>10. NothingIsDropped'
  BY <1>1, <1>2, <1>4 DEF NothingIsDropped
<1>. QED BY <1>5, <1>6, <1>7, <1>8, <1>9, <1>10

LEMMA CallAtLimitKeepsInv ==
  ASSUME DebouncerInv, CallAtLimit
  PROVE  DebouncerInv'
<1>. USE DEF DebouncerInv
<1>. PICK others \in SUBSET timeouts : others = {t \in timeouts : t.id # timerId}
  OBVIOUS
<1>1. /\ calls < MaxCalls /\ calls' = calls + 1 /\ lastCallTime' = now
      /\ UNCHANGED <<options, now>> /\ Arm(others, WaitTime)
      /\ lastArgs' = 0 /\ lastInvokeTime' = now /\ oldest' = Undefined
      /\ handled' = calls + 1
  BY DEF CallAtLimit, Called, Passes
<1>2. /\ now \in Nat /\ WaitTime \in Nat /\ calls \in Nat /\ MaxCalls \in Nat /\ now \in Clock
  BY ClockIsNat, DebouncerAssumption DEF DebouncerTypeOK, DebouncerAssumption
<1>3. /\ timeouts' \subseteq [id : Nat \ {0}, at : Nat] /\ IsFiniteSet(timeouts')
      /\ timerId' # Undefined /\ \E t \in timeouts' : t.id = timerId'
  BY <1>1, <1>2, ArmFacts
<1>4. TimersAreNear'
  BY <1>1, <1>2, ArmKeepsNear
<1>5. DebouncerTypeOK'
  BY <1>1, <1>2, <1>3 DEF DebouncerTypeOK, Undefined
<1>6. /\ lastCallTime' <= now' /\ lastInvokeTime' <= now' /\ oldest' <= now'
      /\ PendingIsTimed' /\ NothingIsDropped'
  BY <1>1, <1>2 DEF Undefined, PendingIsTimed, NothingIsDropped
<1>. QED BY <1>3, <1>4, <1>5, <1>6

LEMMA CallIsDelayedKeepsInv ==
  ASSUME DebouncerInv, CallIsDelayed
  PROVE  DebouncerInv'
<1>. USE DEF DebouncerInv
<1>1. /\ calls < MaxCalls /\ calls' = calls + 1 /\ lastCallTime' = now
      /\ UNCHANGED <<options, now, lastInvokeTime, handled>>
      /\ lastArgs' = calls + 1 /\ oldest' = IF lastArgs = 0 THEN now ELSE oldest
  BY DEF CallIsDelayed, Called, Pending
<1>2. /\ now \in Nat /\ now # Undefined /\ WaitTime \in Nat /\ calls \in Nat /\ MaxCalls \in Nat
      /\ options.maxWait \in Nat /\ now \in Clock /\ lastCallTime \in Nat
      /\ lastInvokeTime \in Nat /\ oldest \in Nat
  BY ClockIsNat, DebouncerAssumption DEF DebouncerTypeOK, DebouncerAssumption
<1>3. \/ Arm(timeouts, WaitTime) /\ lastArgs = 0
      \/ UNCHANGED <<timeouts, timerId>> /\ timerId # Undefined
  BY DEF CallIsDelayed, PendingIsTimed
<1>4. /\ timeouts' \subseteq [id : Nat \ {0}, at : Nat] /\ IsFiniteSet(timeouts')
      /\ timerId' # Undefined /\ \E t \in timeouts' : t.id = timerId'
  <2>1. CASE Arm(timeouts, WaitTime)
    BY <1>2, <2>1, ArmFacts
  <2>2. CASE UNCHANGED <<timeouts, timerId>> /\ timerId # Undefined
    BY <2>2 DEF DebouncerTypeOK
  <2>. QED BY <1>3, <2>1, <2>2
<1>5. TimersAreNear'
  <2>1. CASE Arm(timeouts, WaitTime)
    BY <1>1, <1>2, <2>1, ArmKeepsNear
  <2>2. CASE UNCHANGED <<timeouts, timerId>>
    BY <1>1, <2>2 DEF TimersAreNear
  <2>. QED BY <1>3, <2>1, <2>2
<1>6. DebouncerTypeOK'
  BY <1>1, <1>2, <1>4 DEF DebouncerTypeOK
<1>7. lastCallTime' <= now' /\ lastInvokeTime' <= now' /\ oldest' <= now'
  BY <1>1, <1>2
<1>8. PendingIsTimed'
  <2>1. oldest' # Undefined /\ lastInvokeTime' <= oldest'
    BY <1>1, <1>2 DEF PendingIsTimed
  <2>2. ASSUME Limited', NEW t \in timeouts'
        PROVE  t.at <= oldest' + Largest(WaitTime, options'.maxWait)
    <3>1. t.at \in Nat /\ t.at <= now + WaitTime
      BY <1>1, <1>4, <1>5 DEF TimersAreNear
    <3>2. WaitTime <= Largest(WaitTime, options.maxWait) /\ Largest(WaitTime, options.maxWait) \in Nat
      BY <1>2, LargestFacts
    <3>3. CASE lastArgs = 0
      BY <1>1, <1>2, <3>1, <3>2, <3>3
    <3>4. CASE lastArgs # 0
      <4>1. timeouts' = timeouts /\ Limited /\ oldest' = oldest
        BY <1>1, <1>3, <2>2, <3>4 DEF Limited
      <4>. QED BY <1>1, <2>2, <3>4, <4>1 DEF PendingIsTimed
    <3>. QED BY <3>3, <3>4
  <2>. QED BY <1>1, <1>2, <1>4, <2>1, <2>2 DEF PendingIsTimed
<1>9. NothingIsDropped'
  BY <1>1, <1>2 DEF NothingIsDropped
<1>. QED BY <1>4, <1>5, <1>6, <1>7, <1>8, <1>9

LEMMA TrailingEdgeFacts ==
  ASSUME TrailingEdge
  PROVE  /\ timerId' = Undefined /\ lastArgs' = 0 /\ oldest' = Undefined
         /\ lastInvokeTime' \in {now, lastInvokeTime}
         /\ handled' = IF options.trailing /\ lastArgs # 0 THEN lastArgs ELSE handled
BY DEF TrailingEdge, Passes

\* A trailing edge leaves fewer timeouts and nothing pending.
LEMMA TrailingEdgeKeepsInv ==
  ASSUME DebouncerInv, TrailingEdge, timeouts' \subseteq timeouts,
         UNCHANGED <<options, now, lastCallTime, calls>>
  PROVE  DebouncerInv'
<1>. USE DEF DebouncerInv
<1>1. /\ timerId' = Undefined /\ lastArgs' = 0 /\ oldest' = Undefined
      /\ lastInvokeTime' \in {now, lastInvokeTime}
      /\ handled' = IF options.trailing /\ lastArgs # 0 THEN lastArgs ELSE handled
  BY TrailingEdgeFacts
<1>2. now \in Nat /\ now \in Clock
  BY ClockIsNat DEF DebouncerTypeOK
<1>3. IsFiniteSet(timeouts')
  BY FS_Subset
<1>4. DebouncerTypeOK'
  BY <1>1, <1>2 DEF DebouncerTypeOK
<1>5. TimersAreNear'
  BY DEF TimersAreNear
<1>6. PendingIsTimed'
  BY <1>1 DEF PendingIsTimed
<1>7. lastCallTime' <= now' /\ lastInvokeTime' <= now' /\ oldest' <= now'
  BY <1>1, <1>2 DEF Undefined
<1>8. NothingIsDropped'
  BY <1>1 DEF NothingIsDropped
<1>. QED BY <1>3, <1>4, <1>5, <1>6, <1>7, <1>8

\* A timer that is not to invoke is armed again for what remains of both limits.
LEMMA RemainingWaitFacts ==
  ASSUME DebouncerInv, ~ShouldInvoke
  PROVE  /\ lastCallTime # Undefined
         /\ RemainingWait \in Nat /\ RemainingWait <= WaitTime
         /\ now + RemainingWait <= lastCallTime + WaitTime
         /\ Limited => now + RemainingWait <= lastInvokeTime + options.maxWait
<1>. PICK quiet, limit : /\ quiet = WaitTime - (now - lastCallTime)
                         /\ limit = options.maxWait - (now - lastInvokeTime)
  OBVIOUS
<1>1. /\ now \in Nat /\ WaitTime \in Nat /\ options.maxWait \in Nat
      /\ lastCallTime \in Nat /\ lastInvokeTime \in Nat
      /\ lastCallTime <= now /\ lastInvokeTime <= now
  BY ClockIsNat DEF DebouncerInv
<1>2. lastCallTime # Undefined /\ now - lastCallTime < WaitTime
      /\ (Limited => now - lastInvokeTime < options.maxWait)
  BY <1>1 DEF ShouldInvoke, LimitReached
<1>3. quiet \in Nat /\ quiet <= WaitTime /\ now + quiet = lastCallTime + WaitTime
  BY <1>1, <1>2
<1>4. limit \in Int /\ now + limit = lastInvokeTime + options.maxWait /\ (Limited => limit \in Nat)
  BY <1>1, <1>2
<1>5. RemainingWait = IF Limited /\ limit < quiet THEN limit ELSE quiet
  BY DEF RemainingWait
<1>6. CASE Limited /\ limit < quiet
  BY <1>1, <1>2, <1>3, <1>4, <1>5, <1>6
<1>7. CASE ~(Limited /\ limit < quiet)
  BY <1>1, <1>2, <1>3, <1>4, <1>5, <1>7
<1>. QED BY <1>6, <1>7

LEMMA TimerExpiresKeepsInv ==
  ASSUME DebouncerInv, TimerExpires
  PROVE  DebouncerInv'
<1>. USE DEF DebouncerInv
<1>. PICK t \in timeouts :
       /\ IF ShouldInvoke
          THEN TrailingEdge /\ timeouts' = timeouts \ {t}
          ELSE Arm(timeouts \ {t}, RemainingWait) /\ UNCHANGED <<lastArgs, lastInvokeTime, handled, oldest>>
       /\ UNCHANGED <<options, now, lastCallTime, calls>>
  BY DEF TimerExpires
<1>1. CASE ShouldInvoke
  BY <1>1, TrailingEdgeKeepsInv
<1>2. CASE ~ShouldInvoke
  <2>. PICK others \in SUBSET timeouts : others = timeouts \ {t}
    OBVIOUS
  <2>1. /\ lastCallTime # Undefined
        /\ RemainingWait \in Nat /\ RemainingWait <= WaitTime
        /\ now + RemainingWait <= lastCallTime + WaitTime
        /\ Limited => now + RemainingWait <= lastInvokeTime + options.maxWait
    BY <1>2, RemainingWaitFacts
  <2>. PICK delay \in Nat : delay = RemainingWait
    BY <2>1
  <2>2. Arm(others, delay) /\ UNCHANGED <<lastArgs, lastInvokeTime, handled, oldest>>
    BY <1>2
  <2>3. /\ timeouts' \subseteq [id : Nat \ {0}, at : Nat] /\ IsFiniteSet(timeouts')
        /\ timerId' # Undefined /\ \E u \in timeouts' : u.id = timerId'
        /\ \A u \in timeouts' : u \in others \/ u.at = now + delay
    BY <2>2, ArmFacts
  <2>4. TimersAreNear'
    BY <2>1, <2>2, ArmKeepsNear
  <2>5. DebouncerTypeOK'
    BY <2>2, <2>3 DEF DebouncerTypeOK
  <2>6. PendingIsTimed'
    <3>1. ASSUME lastArgs' # 0, Limited', NEW u \in timeouts'
          PROVE  u.at <= oldest' + Largest(WaitTime, options'.maxWait)
      <4>1. lastArgs # 0 /\ Limited /\ oldest' = oldest
        BY <2>2, <3>1 DEF Limited
      <4>2. CASE u \in others
        BY <4>1, <4>2 DEF PendingIsTimed
      <4>3. CASE u.at = now + delay
        <5>1. u.at <= lastInvokeTime + options.maxWait /\ lastInvokeTime <= oldest
          BY <2>1, <4>1, <4>3 DEF PendingIsTimed
        <5>2. /\ options.maxWait \in Nat /\ WaitTime \in Nat /\ now \in Nat
              /\ lastInvokeTime \in Nat /\ oldest \in Nat
          BY ClockIsNat
        <5>3. options.maxWait <= Largest(WaitTime, options.maxWait)
              /\ Largest(WaitTime, options.maxWait) \in Nat
          BY <5>2, LargestFacts
        <5>. QED BY <4>1, <4>3, <5>1, <5>2, <5>3
      <4>. QED BY <2>3, <4>2, <4>3
    <3>. QED BY <2>1, <2>2, <2>3, <3>1 DEF PendingIsTimed
  <2>7. NothingIsDropped'
    BY <2>2 DEF NothingIsDropped
  <2>. QED BY <2>2, <2>3, <2>4, <2>5, <2>6, <2>7
<1>. QED BY <1>1, <1>2

LEMMA CancelKeepsInv ==
  ASSUME DebouncerInv, Cancel
  PROVE  DebouncerInv'
<1>. USE DEF DebouncerInv
<1>1. /\ timeouts' \subseteq timeouts /\ UNCHANGED <<options, now, calls>>
      /\ timerId' = Undefined /\ lastCallTime' = Undefined /\ lastInvokeTime' = Undefined
      /\ lastArgs' = 0 /\ oldest' = Undefined /\ handled' = calls
  BY DEF Cancel
<1>2. IsFiniteSet(timeouts')
  BY <1>1, FS_Subset
<1>3. now \in Nat /\ calls \in Nat /\ MaxCalls \in Nat
  BY ClockIsNat, DebouncerAssumption DEF DebouncerAssumption, DebouncerTypeOK
<1>4. DebouncerTypeOK'
  BY <1>1, <1>3 DEF DebouncerTypeOK
<1>5. TimersAreNear' /\ PendingIsTimed' /\ NothingIsDropped'
  BY <1>1 DEF TimersAreNear, PendingIsTimed, NothingIsDropped
<1>. QED BY <1>1, <1>2, <1>3, <1>4, <1>5 DEF Undefined

LEMMA ClockTicksKeepsInv ==
  ASSUME DebouncerInv, ClockTicks
  PROVE  DebouncerInv'
<1>. USE DEF DebouncerInv
<1>1. /\ now < Start + Duration /\ now' = now + 1
      /\ \A t \in timeouts : t.at > now
      /\ UNCHANGED <<options, timeouts, timerId, lastCallTime, lastInvokeTime, lastArgs,
                     calls, handled, oldest>>
  BY DEF ClockTicks
<1>2. /\ now \in Nat /\ Start + Duration \in Nat /\ WaitTime \in Nat /\ Start \in Nat
      /\ lastCallTime \in Nat /\ lastInvokeTime \in Nat /\ oldest \in Nat
      /\ \A t \in timeouts : t.at \in Nat
  BY ClockIsNat, DebouncerAssumption DEF DebouncerAssumption, DebouncerTypeOK
<1>3. DebouncerTypeOK'
  <2>1. now' \in Clock
    BY <1>1, <1>2 DEF Clock, DebouncerTypeOK
  <2>. QED BY <1>1, <2>1 DEF DebouncerTypeOK
<1>4. TimersAreNear'
  BY <1>1, <1>2 DEF TimersAreNear
<1>5. PendingIsTimed' /\ NothingIsDropped'
  BY <1>1 DEF PendingIsTimed, Limited, NothingIsDropped
<1>. QED BY <1>1, <1>2, <1>3, <1>4, <1>5

LEMMA DebouncerIsInvariant == DebouncerSpec => []DebouncerInv
<1>1. DebouncerInit => DebouncerInv
  <2>. SUFFICES ASSUME DebouncerInit PROVE DebouncerInv
    OBVIOUS
  <2>. USE DEF DebouncerInit
  <2>1. Start \in Nat /\ now \in Clock /\ MaxCalls \in Nat
    BY DebouncerAssumption DEF DebouncerAssumption, Clock
  <2>2. DebouncerTypeOK
    BY <2>1 DEF DebouncerTypeOK
  <2>. QED BY <2>1, <2>2, FS_EmptySet
           DEF DebouncerInv, TimersAreNear, PendingIsTimed, NothingIsDropped, Undefined
<1>2. DebouncerInv /\ [DebouncerNext]_debounceVars => DebouncerInv'
  <2>. SUFFICES ASSUME DebouncerInv, [DebouncerNext]_debounceVars PROVE DebouncerInv'
    OBVIOUS
  <2>1. CASE CallOnLeadingEdge
    BY <2>1, CallOnLeadingEdgeKeepsInv
  <2>2. CASE CallAtLimit
    BY <2>2, CallAtLimitKeepsInv
  <2>3. CASE CallIsDelayed
    BY <2>3, CallIsDelayedKeepsInv
  <2>4. CASE TimerExpires
    BY <2>4, TimerExpiresKeepsInv
  <2>5. CASE Flush
    BY <2>5, TrailingEdgeKeepsInv DEF Flush
  <2>6. CASE Cancel
    BY <2>6, CancelKeepsInv
  <2>7. CASE ClockTicks
    BY <2>7, ClockTicksKeepsInv
  <2>8. CASE UNCHANGED debounceVars
    BY <2>8 DEF debounceVars, DebouncerInv, DebouncerTypeOK, TimersAreNear, PendingIsTimed,
                NothingIsDropped, Limited, Largest
  <2>. QED BY <2>1, <2>2, <2>3, <2>4, <2>5, <2>6, <2>7, <2>8 DEF DebouncerNext
<1>. QED BY <1>1, <1>2, PTL DEF DebouncerSpec

\* The invariant says in time: a pending call has a timeout, no timeout is overdue,
\* and each is due before either limit of the pending call.
LEMMA TimedIsInTime == DebouncerInv => PassedOnInTime
<1>. SUFFICES ASSUME DebouncerInv, options.trailing, Waiting
              PROVE  /\ lastArgs = calls
                     /\ timeouts # {} /\ now <= lastCallTime + WaitTime
                     /\ Limited => now <= oldest + Largest(WaitTime, options.maxWait)
  BY DEF PassedOnInTime
<1>0. lastArgs # 0 /\ lastArgs = calls
  <2>1. handled < calls /\ calls \in Nat /\ handled \in Nat
    BY DebouncerAssumption DEF DebouncerAssumption, Waiting, DebouncerInv, DebouncerTypeOK
  <2>. QED BY <2>1 DEF DebouncerInv, NothingIsDropped
<1>1. timerId # Undefined /\ lastCallTime # Undefined
  BY <1>0 DEF DebouncerInv, PendingIsTimed
<1>2. PICK t \in timeouts : t.id = timerId
  BY <1>1 DEF DebouncerInv, DebouncerTypeOK
<1>3. now <= t.at /\ t.at <= lastCallTime + WaitTime /\ t.at \in Nat
  BY <1>1 DEF DebouncerInv, DebouncerTypeOK, TimersAreNear
<1>4. /\ now \in Nat /\ WaitTime \in Nat /\ options.maxWait \in Nat
      /\ lastCallTime \in Nat /\ oldest \in Nat
  BY ClockIsNat DEF DebouncerInv
<1>5. Largest(WaitTime, options.maxWait) \in Nat
  BY <1>4, LargestFacts
<1>6. Limited => t.at <= oldest + Largest(WaitTime, options.maxWait)
  BY <1>0 DEF DebouncerInv, PendingIsTimed
<1>. QED BY <1>0, <1>3, <1>4, <1>5, <1>6

\* The times, the timer and the counters of a debounced function stay in their types.
THEOREM DebouncerTypeCorrect == DebouncerSpec => []DebouncerTypeOK
BY DebouncerIsInvariant, PTL DEF DebouncerInv

\* However calls, flush(), cancel() and the timeouts they leave behind come together,
\* with `trailing` set no call is dropped: the last one keeps its arguments and a
\* timeout, and is passed on within `wait` of it and within max(wait, maxWait) of
\* the first.
THEOREM PendingCallsAreInTime == DebouncerSpec => []PassedOnInTime
BY DebouncerIsInvariant, TimedIsInTime, PTL

-----------------------------------------------------------------------------
\* MethodCache

LEMMA GreatestElement ==
  ASSUME NEW b \in Nat, NEW T \in SUBSET (0..b), T # {}
  PROVE  \E n \in T : \A m \in T : m <= n
<1>. DEFINE below == {k \in 0..b : b - k \in T}
<1>1. PICK t : t \in T
  OBVIOUS
<1>2. b - t \in below /\ below \subseteq Nat
  BY <1>1
<1>3. PICK k \in below : \A l \in below : k <= l
  BY <1>2, LeastElement
<1>4. ASSUME NEW m \in T PROVE m <= b - k
  <2>1. b - m \in below
    OBVIOUS
  <2>2. k <= b - m /\ k \in 0..b /\ m \in 0..b
    BY <1>3, <2>1
  <2>. HIDE DEF below
  <2>. QED BY <2>2
<1>. QED BY <1>3, <1>4

\* A value in the cache is the result of a call of its key; an unsettled one is
\* the promise of a call in progress, and one computed before the last clear of
\* its key was in progress then.
EntriesFit ==
  \A e \in entries :
    /\ call[e.value] # "new" /\ called[e.value] = e.key
    /\ ~e.settled => Computing(e.value)
    /\ epoch[e.value] < clears[e.key] => e.value \in late[e.key]

CallsFit ==
  \A c \in Calls :
    /\ call[c] = "new" => source[c] = c
    /\ Computing(c) => source[c] = c
    /\ call[c] # "new" =>
         /\ called[c] \in Keys /\ epoch[c] <= clears[called[c]]
         /\ call[source[c]] # "new" /\ called[source[c]] = called[c]
    /\ Computing(c) /\ epoch[c] < clears[called[c]] => c \in late[called[c]]

\* The promise of a call in progress is in the cache, unless something took it.
PromisesAreKept ==
  Fits /\ Cardinality(Keys) <= maxSize =>
    \A c \in Calls :
      Computing(c) /\ clears[called[c]] = 0 /\ called[c] \notin swept
      => \E e \in entries : e.key = called[c] /\ e.value = c /\ ~e.settled

MapFits ==
  /\ IsFiniteSet(entries) /\ entries \subseteq Entries /\ Cardinality(entries) <= maxSize
  /\ \E b \in Nat : \A e \in entries : e.order \in 0..b
  /\ \A e, f \in entries : e.key = f.key \/ e.order = f.order => e = f

CacheInv ==
  /\ CacheTypeOK /\ MapFits
  /\ EntriesFit /\ CallsFit /\ PromisesAreKept
  /\ StaleOnlyIfLate

LEMMA OldestExists ==
  ASSUME NEW es \in SUBSET entries, entries \subseteq Entries, es # {}
  PROVE  Oldest(es) \in es
<1>. DEFINE orders == {e.order : e \in es}
<1>1. orders \subseteq Nat /\ orders # {}
  BY DEF Entries
<1>2. PICK n \in orders : \A m \in orders : n <= m
  BY <1>1, LeastElement
<1>3. \E e \in es : \A f \in es : e.order <= f.order
  BY <1>2
<1>. QED BY <1>3 DEF Oldest

LEMMA NextOrderFacts ==
  ASSUME NEW es \in SUBSET entries, NEW b \in Nat, \A e \in entries : e.order \in 0..b
  PROVE  /\ NextOrder(es) \in 1..(b + 1)
         /\ \A e \in es : e.order < NextOrder(es)
<1>. DEFINE orders == {0} \union {e.order : e \in es}
<1>1. orders \subseteq 0..b /\ orders # {}
  OBVIOUS
<1>2. \E n \in orders : \A m \in orders : m <= n
  BY <1>1, GreatestElement
<1>. DEFINE top == CHOOSE n \in orders : \A m \in orders : m <= n
<1>3. top \in orders /\ \A m \in orders : m <= top
  BY <1>2
<1>4. NextOrder(es) = top + 1
  BY DEF NextOrder
<1>. HIDE DEF top
<1>5. top \in 0..b /\ \A e \in es : e.order \in 0..b /\ e.order <= top
  BY <1>1, <1>3
<1>. QED BY <1>4, <1>5

\* What setCachedMethod leaves: the new entry, and others of other keys - all of
\* them when every key has room.
LEMMA SetFacts ==
  ASSUME CacheInv, IsFiniteSet(Keys), NEW k \in Keys, NEW c \in Calls, NEW s \in BOOLEAN,
         SetCachedMethod(k, c, s), maxSize' = maxSize
  PROVE  /\ MapFits'
         /\ \E new \in entries' : new.key = k /\ new.value = c /\ new.settled = s
         /\ \A e \in entries' : e.key = k => e.value = c /\ e.settled = s
         /\ \A e \in entries' : e.key # k => e \in entries
         /\ Cardinality(Keys) <= maxSize => \A e \in entries : e.key # k => e \in entries'
<1>r. PICK rest \in SUBSET entries : rest = Without({k})
  BY DEF Without
<1>k. PICK kept \in SUBSET rest : kept = IF Evicts(rest) THEN rest \ {Oldest(rest)} ELSE rest
  OBVIOUS
<1>n. PICK new : new = [key |-> k, value |-> c, settled |-> s, at |-> time,
                       order |-> NextOrder(kept)]
  OBVIOUS
<1>b. PICK b \in Nat : \A e \in entries : e.order \in 0..b
  BY DEF CacheInv, MapFits
<1>1. entries' = kept \union {new}
  BY <1>r, <1>k, <1>n DEF SetCachedMethod
<1>2. /\ entries \subseteq Entries /\ maxSize \in Nat \ {0} /\ time \in 0..MaxTime
      /\ \A e, f \in entries : e.key = f.key \/ e.order = f.order => e = f
      /\ IsFiniteSet(entries)
  BY MethodCacheAssumption DEF CacheInv, CacheTypeOK, MapFits, MethodCacheAssumption
<1>3. NextOrder(kept) \in 1..(b + 1) /\ \A e \in kept : e.order < NextOrder(kept)
  BY <1>b, NextOrderFacts
<1>4. new \in Entries /\ new.key = k /\ new.value = c /\ new.settled = s /\ new.order = NextOrder(kept)
  BY <1>2, <1>3, <1>n DEF Entries
<1>5. /\ IsFiniteSet(rest) /\ IsFiniteSet(kept) /\ new \notin kept
      /\ Cardinality(rest) \in Nat /\ Cardinality(kept) \in Nat
  BY <1>2, <1>4, <1>r, FS_Subset, FS_CardinalityType DEF Without
<1>6. IsFiniteSet(kept \union {new}) /\ Cardinality(kept \union {new}) = Cardinality(kept) + 1
  <2>1. IsFiniteSet(kept \union {new})
    BY <1>5, FS_AddElement
  <2>2. Cardinality(kept \union {new}) = Cardinality(kept) + 1
    BY <1>5, FS_AddElement
  <2>. QED BY <2>1, <2>2
<1>7. Cardinality(kept) < maxSize
  <2>1. CASE ~Evicts(rest)
    BY <1>2, <1>5, <1>k, <2>1 DEF Evicts
  <2>2. CASE Evicts(rest)
    <3>0. Cardinality({}) = 0
      BY FS_EmptySet
    <3>1. rest # {}
      BY <1>2, <2>2, <3>0 DEF Evicts
    <3>2. Oldest(rest) \in rest
      BY <1>2, <3>1, OldestExists
    <3>3. Cardinality(kept) = Cardinality(rest) - 1
      <4>1. kept = rest \ {Oldest(rest)}
        BY <1>k, <2>2
      <4>2. Cardinality(rest \ {Oldest(rest)}) = Cardinality(rest) - 1
        BY <1>5, <3>2, FS_RemoveElement
      <4>. QED BY <4>1, <4>2
    <3>4. Cardinality(rest) <= Cardinality(entries) /\ Cardinality(entries) <= maxSize
          /\ Cardinality(entries) \in Nat
      BY <1>2, FS_Subset, FS_CardinalityType DEF CacheInv, CacheTypeOK
    <3>. QED BY <1>2, <1>5, <3>3, <3>4
  <2>. QED BY <2>1, <2>2
<1>8. Cardinality(entries') <= maxSize
  BY <1>1, <1>2, <1>5, <1>6, <1>7
<1>9. \A e \in kept : e \in entries /\ e.key # k /\ e.order < new.order /\ e.order \in Nat
  BY <1>2, <1>3, <1>4, <1>r DEF Without, Entries
<1>10. \A e, f \in entries' : e.key = f.key \/ e.order = f.order => e = f
  <2>1. new.order \in Nat
    BY <1>3, <1>4
  <2>. QED BY <1>1, <1>2, <1>4, <1>9, <2>1
<1>11. ASSUME Cardinality(Keys) <= maxSize PROVE kept = rest
  <2>1. rest \subseteq entries /\ \A e \in rest : e.key \in Keys \ {k}
    BY <1>2, <1>r DEF Without, Entries
  <2>. DEFINE f == [e \in rest |-> e.key]
  <2>2. f \in Injection(rest, Keys \ {k})
    BY <1>2, <2>1 DEF Injection, IsInjective
  <2>3. IsFiniteSet(Keys \ {k}) /\ Cardinality(Keys \ {k}) = Cardinality(Keys) - 1
        /\ Cardinality(Keys) \in Nat
    BY FS_RemoveElement, FS_CardinalityType
  <2>4. Cardinality(rest) <= Cardinality(Keys \ {k})
    BY <2>2, <2>3, FS_Injection
  <2>5. ~Evicts(rest)
    BY <1>2, <1>5, <1>11, <2>3, <2>4 DEF Evicts
  <2>. QED BY <1>k, <2>5
<1>12. \A e \in entries : e.key # k => e \in rest
  BY <1>r DEF Without
<1>13. \A e \in entries' : e.order \in 0..(b + 1)
  BY <1>1, <1>3, <1>4, <1>b
<1>14. IsFiniteSet(entries') /\ entries' \subseteq Entries
  BY <1>1, <1>2, <1>4, <1>6
<1>15. /\ \E e \in entries' : e.key = k /\ e.value = c /\ e.settled = s
       /\ \A e \in entries' : e.key = k => e.value = c /\ e.settled = s
       /\ \A e \in entries' : e.key # k => e \in entries
  BY <1>1, <1>4, <1>9
<1>16. Cardinality(Keys) <= maxSize => \A e \in entries : e.key # k => e \in entries'
  BY <1>1, <1>11, <1>12
<1>17. MapFits'
  <2>1. b + 1 \in Nat
    OBVIOUS
  <2>2. \E n \in Nat : \A e \in entries' : e.order \in 0..n
    BY <1>13, <2>1
  <2>. QED BY <1>8, <1>10, <1>14, <2>2 DEF MapFits
<1>. QED BY <1>15, <1>16, <1>17

LEMMA RemovalKeepsMap ==
  ASSUME CacheInv, entries' \subseteq entries, maxSize' = maxSize
  PROVE  MapFits'
<1>1. IsFiniteSet(entries') /\ Cardinality(entries') <= Cardinality(entries)
      /\ Cardinality(entries') \in Nat /\ Cardinality(entries) \in Nat
  BY FS_Subset, FS_CardinalityType DEF CacheInv, MapFits
<1>2. maxSize \in Nat
  BY MethodCacheAssumption DEF CacheInv, CacheTypeOK, MethodCacheAssumption
<1>. QED BY <1>1, <1>2 DEF CacheInv, MapFits

\* The rest of the type invariant
CallTypes ==
  /\ maxSize \in 1..MaxSize
  /\ time \in 0..MaxTime
  /\ call \in [Calls -> {"new", "computing", "returned", "failed"}]
  /\ called \in [Calls -> Keys \union {NoKey}]
  /\ epoch \in [Calls -> Nat]
  /\ source \in [Calls -> Calls]
  /\ clears \in [Keys -> 0..MaxClears]
  /\ swept \subseteq Keys
  /\ late \in [Keys -> SUBSET Calls]

LEMMA TypesAreParts == CacheTypeOK' <=> CallTypes' /\ entries' \subseteq Entries
                        /\ Cardinality(entries)' <= maxSize'
                        /\ \A e, f \in entries' : e.key = f.key \/ e.order = f.order => e = f
BY DEF CacheTypeOK, CallTypes

LEMMA PartsMakeInv ==
  ASSUME CallTypes', MapFits', EntriesFit', CallsFit', PromisesAreKept', StaleOnlyIfLate'
  PROVE  CacheInv'
BY TypesAreParts DEF CacheInv, MapFits

LEMMA CallHitsKeepsInv ==
  ASSUME CacheInv, NEW c \in Calls, NEW k \in Keys, CallHits(c, k)
  PROVE  CacheInv'
<1>. USE DEF CacheInv
<1>1. PICK e \in entries : e.key = k /\ source' = [source EXCEPT ![c] = e.value]
  BY DEF CallHits, Cached
<1>2. /\ call[c] = "new" /\ called' = [called EXCEPT ![c] = k]
      /\ epoch' = [epoch EXCEPT ![c] = clears[k]] /\ call' = [call EXCEPT ![c] = "returned"]
      /\ UNCHANGED <<entries, maxSize, time, clears, swept, late>>
  BY DEF CallHits, Starts
<1>3. CallTypes
  BY DEF CallTypes, CacheTypeOK
<1>4. e.value \in Calls /\ e.value # c /\ call[e.value] # "new" /\ called[e.value] = k
      /\ (epoch[e.value] < clears[k] => e.value \in late[k])
  BY <1>1, <1>2 DEF EntriesFit, MapFits, Entries
<1>5. CallTypes'
  BY <1>1, <1>2, <1>3, <1>4 DEF CallTypes
<1>6. MapFits'
  BY <1>2, RemovalKeepsMap
<1>7. EntriesFit'
  <2>1. \A f \in entries : f.value \in Calls /\ f.value # c
    BY <1>2 DEF EntriesFit, MapFits, Entries
  <2>. QED BY <1>2, <1>3, <2>1 DEF EntriesFit, Computing, CallTypes
<1>8. CallsFit'
  <2>1. ASSUME NEW d \in Calls, d # c, call[d] # "new" PROVE source[d] # c
    BY <1>2, <2>1 DEF CallsFit
  <2>. QED BY <1>1, <1>2, <1>3, <1>4, <2>1 DEF CallsFit, Computing, CallTypes
<1>9. PromisesAreKept'
  BY <1>2, <1>3 DEF PromisesAreKept, Computing, Fits, CallTypes
<1>10. StaleOnlyIfLate'
  <2>1. ASSUME NEW d \in Calls, d # c, call[d] = "returned" PROVE source[d] # c
    BY <1>2, <2>1 DEF CallsFit
  <2>. QED BY <1>1, <1>2, <1>3, <1>4, <2>1 DEF StaleOnlyIfLate, CallTypes
<1>. QED BY <1>5, <1>6, <1>7, <1>8, <1>9, <1>10, PartsMakeInv

LEMMA NothingExpires ==
  ASSUME CacheInv, Fits, NEW e \in entries
  PROVE  ~Expired(e)
BY MethodCacheAssumption
   DEF CacheInv, CacheTypeOK, Entries, Fits, Expired, MethodCacheAssumption

LEMMA CallComputesKeepsInv ==
  ASSUME CacheInv, NEW c \in Calls, NEW k \in Keys, CallComputes(c, k)
  PROVE  CacheInv'
<1>. USE DEF CacheInv
<1>1. /\ call[c] = "new" /\ called' = [called EXCEPT ![c] = k] /\ ~Hit(k)
      /\ epoch' = [epoch EXCEPT ![c] = clears[k]] /\ call' = [call EXCEPT ![c] = "computing"]
      /\ SetCachedMethod(k, c, FALSE)
      /\ UNCHANGED <<maxSize, time, source, clears, swept, late>>
  BY DEF CallComputes, Starts
<1>2. CallTypes
  BY DEF CallTypes, CacheTypeOK
<1>3. /\ MapFits'
      /\ \E new \in entries' : new.key = k /\ new.value = c /\ new.settled = FALSE
      /\ \A e \in entries' : e.key = k => e.value = c /\ e.settled = FALSE
      /\ \A e \in entries' : e.key # k => e \in entries
      /\ Cardinality(Keys) <= maxSize => \A e \in entries : e.key # k => e \in entries'
  <2>. PICK s \in BOOLEAN : s = FALSE
    OBVIOUS
  <2>1. SetCachedMethod(k, c, s)
    BY <1>1
  <2>2. IsFiniteSet(Keys)
    BY MethodCacheAssumption DEF MethodCacheAssumption
  <2>. QED BY <1>1, <2>1, <2>2, SetFacts
<1>4. CallTypes'
  BY <1>1, <1>2 DEF CallTypes
<1>5. EntriesFit'
  <2>1. \A e \in entries : e.value \in Calls /\ e.value # c
    BY <1>1 DEF EntriesFit, MapFits, Entries
  <2>2. ASSUME NEW e \in entries', e.key # k
        PROVE  /\ call'[e.value] # "new" /\ called'[e.value] = e.key
               /\ ~e.settled => Computing(e.value)'
               /\ epoch'[e.value] < clears'[e.key] => e.value \in late'[e.key]
    BY <1>1, <1>2, <1>3, <2>1, <2>2 DEF EntriesFit, Computing, CallTypes
  <2>3. ASSUME NEW e \in entries', e.key = k
        PROVE  /\ call'[e.value] # "new" /\ called'[e.value] = e.key
               /\ Computing(e.value)' /\ epoch'[e.value] = clears'[e.key]
    BY <1>1, <1>2, <1>3, <2>3 DEF Computing, CallTypes
  <2>4. \A n \in 0..MaxClears : ~(n < n)
    OBVIOUS
  <2>5. \A e \in entries' : e.key \in Keys
    BY <1>3 DEF MapFits, Entries
  <2>. QED BY <1>4, <2>2, <2>3, <2>4, <2>5 DEF EntriesFit, CallTypes
<1>6. CallsFit'
  <2>1. ASSUME NEW d \in Calls, d # c, call[d] # "new" PROVE source[d] # c
    BY <1>1, <2>1 DEF CallsFit
  <2>2. source[c] = c
    BY <1>1 DEF CallsFit
  <2>. QED BY <1>1, <1>2, <2>1, <2>2 DEF CallsFit, Computing, CallTypes
<1>7. PromisesAreKept'
  <2>. SUFFICES ASSUME Fits', Cardinality(Keys) <= maxSize',
                       NEW d \in Calls, Computing(d)', clears'[called'[d]] = 0,
                       called'[d] \notin swept'
                PROVE  \E e \in entries' : e.key = called'[d] /\ e.value = d /\ ~e.settled
    BY DEF PromisesAreKept
  <2>1. CASE d = c
    BY <1>1, <1>2, <1>3, <2>1 DEF CallTypes
  <2>2. CASE d # c
    <3>1. called'[d] = called[d] /\ Computing(d) /\ Fits /\ Cardinality(Keys) <= maxSize
      BY <1>1, <1>2, <2>2 DEF Computing, Fits, CallTypes
    <3>2. PICK e \in entries : e.key = called[d] /\ e.value = d /\ ~e.settled
      BY <1>1, <3>1 DEF PromisesAreKept
    <3>3. e.key # k
      BY <1>1, <3>1, NothingExpires DEF Hit, Cached
    <3>. QED BY <1>1, <1>3, <3>1, <3>2, <3>3
  <2>. QED BY <2>1, <2>2
<1>8. StaleOnlyIfLate'
  <2>1. ASSUME NEW d \in Calls, d # c, call[d] = "returned" PROVE source[d] # c
    BY <1>1, <2>1 DEF CallsFit
  <2>. QED BY <1>1, <1>2, <2>1 DEF StaleOnlyIfLate, CallTypes
<1>. QED BY <1>3, <1>4, <1>5, <1>6, <1>7, <1>8, PartsMakeInv

\* The promise of c is the only entry of its key that is not settled.
LEMMA EndOfComputation ==
  ASSUME CacheInv, NEW c \in Calls, Computing(c),
         call' = [call EXCEPT ![c] = "returned"] \/ call' = [call EXCEPT ![c] = "failed"],
         UNCHANGED <<maxSize, time, called, epoch, source, clears, late>>,
         swept \subseteq swept', swept' \subseteq Keys,
         MapFits',
         \A e \in entries' : \/ e.key # called[c] /\ e \in entries
                             \/ e.key = called[c] /\ e.value = c /\ e.settled,
         Cardinality(Keys) <= maxSize =>
           \A e \in entries : e.key # called[c] /\ e.key \notin swept' => e \in entries'
  PROVE  CacheInv'
<1>. USE DEF CacheInv
<1>1. CallTypes
  BY DEF CallTypes, CacheTypeOK
<1>2. CallTypes'
  BY <1>1 DEF CallTypes
<1>3. called[c] \in Keys /\ source[c] = c /\ call'[c] \in {"returned", "failed"}
      /\ \A d \in Calls \ {c} : call'[d] = call[d]
  BY <1>1 DEF CallsFit, Computing, CallTypes
<1>4. EntriesFit'
  <2>1. ASSUME NEW e \in entries', e.key # called[c]
        PROVE  /\ call'[e.value] # "new" /\ called'[e.value] = e.key
               /\ ~e.settled => Computing(e.value)'
               /\ epoch'[e.value] < clears'[e.key] => e.value \in late'[e.key]
    <3>1. e \in entries /\ e.value \in Calls
      BY <2>1 DEF MapFits, Entries
    <3>2. e.value # c
      BY <2>1, <3>1 DEF EntriesFit
    <3>. QED BY <1>3, <3>1, <3>2 DEF EntriesFit, Computing
  <2>2. ASSUME NEW e \in entries', e.key = called[c]
        PROVE  /\ call'[e.value] # "new" /\ called'[e.value] = e.key /\ e.settled
               /\ epoch'[e.value] < clears'[e.key] => e.value \in late'[e.key]
    BY <1>3, <2>2 DEF CallsFit, Computing
  <2>. QED BY <2>1, <2>2 DEF EntriesFit
<1>5. CallsFit'
  BY <1>1, <1>3 DEF CallsFit, Computing, CallTypes
<1>6. PromisesAreKept'
  <2>. SUFFICES ASSUME Fits, Cardinality(Keys) <= maxSize,
                       NEW d \in Calls, Computing(d)', clears[called[d]] = 0,
                       called[d] \notin swept'
                PROVE  \E e \in entries' : e.key = called[d] /\ e.value = d /\ ~e.settled
    BY DEF PromisesAreKept, Fits
  <2>1. d # c /\ Computing(d)
    BY <1>3 DEF Computing
  <2>2. PICK e \in entries : e.key = called[d] /\ e.value = d /\ ~e.settled
    BY <2>1 DEF PromisesAreKept
  <2>3. CASE called[d] # called[c]
    BY <2>2, <2>3
  <2>4. CASE called[d] = called[c]
    <3>1. PICK f \in entries : f.key = called[c] /\ f.value = c /\ ~f.settled
      BY <2>4 DEF PromisesAreKept
    <3>. QED BY <2>1, <2>2, <2>4, <3>1 DEF MapFits
  <2>. QED BY <2>3, <2>4
<1>7. StaleOnlyIfLate'
  <2>1. ~(epoch[c] < epoch[c])
    BY <1>1 DEF CallTypes
  <2>. QED BY <1>3, <2>1 DEF StaleOnlyIfLate
<1>. QED BY <1>2, <1>4, <1>5, <1>6, <1>7, PartsMakeInv

LEMMA ResolvesKeepsInv ==
  ASSUME CacheInv, NEW c \in Calls, Resolves(c)
  PROVE  CacheInv'
<1>0. PICK k \in Keys : k = called[c]
  BY DEF Resolves, CacheInv, CallsFit, Computing
<1>s. PICK s \in BOOLEAN : s = TRUE
  OBVIOUS
<1>1. /\ Computing(c) /\ SetCachedMethod(k, c, s) /\ call' = [call EXCEPT ![c] = "returned"]
      /\ UNCHANGED <<maxSize, time, called, epoch, source, clears, swept, late>>
  BY <1>0, <1>s DEF Resolves
<1>2. IsFiniteSet(Keys)
  BY MethodCacheAssumption DEF MethodCacheAssumption
<1>3. /\ MapFits'
      /\ \A e \in entries' : e.key = k => e.value = c /\ e.settled = s
      /\ \A e \in entries' : e.key # k => e \in entries
      /\ Cardinality(Keys) <= maxSize => \A e \in entries : e.key # k => e \in entries'
  BY <1>1, <1>2, SetFacts
<1>4. \A e \in entries' : \/ e.key # called[c] /\ e \in entries
                          \/ e.key = called[c] /\ e.value = c /\ e.settled
  BY <1>0, <1>s, <1>3
<1>5. swept \subseteq swept' /\ swept' \subseteq Keys
  BY <1>1 DEF CacheInv, CacheTypeOK
<1>. QED BY <1>0, <1>1, <1>3, <1>4, <1>5, EndOfComputation

\* A deletion leaves the entries of every key that it neither means nor sweeps.
LEMMA RemovesFacts ==
  ASSUME CacheInv, NEW gone, NEW ks \in SUBSET gone, Removes(gone, ks)
  PROVE  /\ entries' \subseteq entries
         /\ \A e \in entries' : e.key \notin ks
         /\ \A e \in entries : e.key \notin ks /\ e.key \notin swept' => e \in entries'
         /\ swept \subseteq swept' /\ swept' \subseteq Keys
<1>1. /\ entries' = {e \in entries : e.key \notin gone}
      /\ swept' = swept \union {k \in gone \ ks : Cached(k) # {}}
  BY DEF Removes, Without
<1>2. \A k : Cached(k) # {} => k \in Keys
  BY DEF Cached, CacheInv, MapFits, Entries
<1>3. \A e \in entries : Cached(e.key) # {}
  BY DEF Cached
<1>. QED BY <1>1, <1>2, <1>3 DEF CacheInv, CacheTypeOK

LEMMA DropsKeepsInv ==
  ASSUME CacheInv, NEW c \in Calls, ResolvesUncached(c) \/ Rejects(c)
  PROVE  CacheInv'
<1>1. /\ Computing(c) /\ Deletes(called[c])
      /\ call' = [call EXCEPT ![c] = "returned"] \/ call' = [call EXCEPT ![c] = "failed"]
      /\ UNCHANGED <<maxSize, time, called, epoch, source, clears, late>>
  BY DEF ResolvesUncached, Rejects
<1>2. called[c] \in Swept[called[c]]
  BY <1>1, MethodCacheAssumption DEF CacheInv, CallsFit, Computing, MethodCacheAssumption
<1>3. /\ entries' \subseteq entries /\ swept \subseteq swept' /\ swept' \subseteq Keys
      /\ \A e \in entries' : e.key # called[c]
      /\ \A e \in entries : e.key # called[c] /\ e.key \notin swept' => e \in entries'
  BY <1>1, <1>2, RemovesFacts DEF Deletes
<1>4. MapFits'
  BY <1>1, <1>3, RemovalKeepsMap
<1>. QED BY <1>1, <1>3, <1>4, EndOfComputation

LEMMA ClearsKeepsInv ==
  ASSUME CacheInv, NEW gone, NEW ks \in SUBSET (gone \intersect Keys), Clears(ks, gone)
  PROVE  CacheInv'
<1>. USE DEF CacheInv
<1>1. /\ \A k \in ks : clears[k] < MaxClears
      /\ Removes(gone, ks)
      /\ clears' = [k \in Keys |-> IF k \in ks THEN clears[k] + 1 ELSE clears[k]]
      /\ late' = [k \in Keys |->
                    IF k \in ks THEN {c \in Calls : Computing(c) /\ called[c] = k}
                    ELSE late[k]]
      /\ UNCHANGED <<maxSize, time, call, called, epoch, source>>
  BY DEF Clears
<1>2. CallTypes /\ MaxClears \in Nat
  BY MethodCacheAssumption DEF CallTypes, CacheTypeOK, MethodCacheAssumption
<1>3. /\ entries' \subseteq entries /\ \A e \in entries' : e.key \notin ks
      /\ \A e \in entries : e.key \notin ks /\ e.key \notin swept' => e \in entries'
      /\ swept \subseteq swept' /\ swept' \subseteq Keys
  BY <1>1, RemovesFacts
<1>4. MapFits'
  BY <1>1, <1>3, RemovalKeepsMap
<1>5. CallTypes'
  BY <1>1, <1>2, <1>3 DEF CallTypes
<1>6. \A k \in Keys : /\ k \in ks => clears'[k] = clears[k] + 1
                      /\ k \notin ks => clears'[k] = clears[k] /\ late'[k] = late[k]
                      /\ clears[k] \in Nat
  BY <1>1, <1>2 DEF CallTypes
<1>7. EntriesFit'
  BY <1>1, <1>3, <1>6 DEF EntriesFit, Computing, MapFits, Entries
<1>8. CallsFit'
  <2>1. ASSUME NEW c \in Calls, Computing(c), called[c] \in ks PROVE c \in late'[called[c]]
    BY <1>1, <2>1
  <2>. QED BY <1>1, <1>2, <1>6, <2>1 DEF CallsFit, Computing, CallTypes
<1>9. PromisesAreKept'
  <2>. SUFFICES ASSUME Fits, Cardinality(Keys) <= maxSize,
                       NEW c \in Calls, Computing(c), clears'[called[c]] = 0,
                       called[c] \notin swept'
                PROVE  \E e \in entries' : e.key = called[c] /\ e.value = c /\ ~e.settled
    BY <1>1 DEF PromisesAreKept, Fits, Computing
  <2>1. called[c] \in Keys
    BY DEF CallsFit, Computing
  <2>2. called[c] \notin ks /\ called[c] \notin swept /\ clears[called[c]] = 0
    BY <1>3, <1>6, <2>1
  <2>3. PICK e \in entries : e.key = called[c] /\ e.value = c /\ ~e.settled
    BY <2>2 DEF PromisesAreKept
  <2>. QED BY <1>3, <2>2, <2>3
<1>10. StaleOnlyIfLate'
  <2>. SUFFICES ASSUME NEW c \in Calls, call[c] = "returned",
                       epoch[source[c]] < epoch[c], epoch[c] = clears'[called[c]]
                PROVE  source[c] \in late'[called[c]]
    BY <1>1 DEF StaleOnlyIfLate
  <2>1. called[c] \in Keys /\ epoch[c] <= clears[called[c]] /\ epoch[c] \in Nat
    BY <1>2 DEF CallsFit, CallTypes
  <2>2. called[c] \notin ks
    BY <1>6, <2>1
  <2>. QED BY <1>6, <2>1, <2>2 DEF StaleOnlyIfLate
<1>. QED BY <1>4, <1>5, <1>7, <1>8, <1>9, <1>10, PartsMakeInv

LEMMA GarbageCollectKeepsInv ==
  ASSUME CacheInv, GarbageCollect
  PROVE  CacheInv'
<1>. USE DEF CacheInv
<1>1. /\ entries' = {e \in entries : ~Expired(e)}
      /\ UNCHANGED <<maxSize, time, call, called, epoch, source, clears, swept, late>>
  BY DEF GarbageCollect
<1>2. MapFits'
  BY <1>1, RemovalKeepsMap
<1>3. CallTypes'
  BY <1>1 DEF CallTypes, CacheTypeOK
<1>4. EntriesFit' /\ CallsFit' /\ StaleOnlyIfLate'
  BY <1>1 DEF EntriesFit, CallsFit, StaleOnlyIfLate, Computing
<1>5. PromisesAreKept'
  <2>1. Fits => entries' = entries
    BY <1>1, NothingExpires
  <2>. QED BY <1>1, <2>1 DEF PromisesAreKept, Fits, Computing
<1>. QED BY <1>2, <1>3, <1>4, <1>5, PartsMakeInv

LEMMA TickKeepsInv ==
  ASSUME CacheInv, Tick
  PROVE  CacheInv'
<1>. USE DEF CacheInv
<1>1. /\ time < MaxTime /\ time' = time + 1
      /\ UNCHANGED <<entries, maxSize, call, called, epoch, source, clears, swept, late>>
  BY DEF Tick
<1>2. MapFits'
  BY <1>1, RemovalKeepsMap
<1>3. time \in Nat /\ MaxTime \in Nat /\ Ttl \in Nat
  BY MethodCacheAssumption DEF CacheTypeOK, MethodCacheAssumption
<1>4. CallTypes'
  BY <1>1, <1>3 DEF CallTypes, CacheTypeOK
<1>5. EntriesFit' /\ CallsFit' /\ StaleOnlyIfLate'
  BY <1>1 DEF EntriesFit, CallsFit, StaleOnlyIfLate, Computing
<1>6. Fits' => Fits
  BY <1>1, <1>3 DEF Fits
<1>7. PromisesAreKept'
  BY <1>1, <1>6 DEF PromisesAreKept, Computing
<1>. QED BY <1>2, <1>4, <1>5, <1>7, PartsMakeInv

LEMMA CacheStarts == CacheInit => CacheInv
<1>. SUFFICES ASSUME CacheInit PROVE CacheInv
  OBVIOUS
<1>. USE DEF CacheInit
<1>1. IsFiniteSet({}) /\ Cardinality({}) = 0
  BY FS_EmptySet
<1>2. MaxSize \in Nat /\ MaxTime \in Nat /\ MaxClears \in Nat
  BY MethodCacheAssumption DEF MethodCacheAssumption
<1>3. CacheTypeOK /\ MapFits
  BY <1>1, <1>2 DEF CacheTypeOK, MapFits, Entries
<1>. QED BY <1>3 DEF CacheInv, EntriesFit, CallsFit, PromisesAreKept, StaleOnlyIfLate, Computing

LEMMA CacheIsInvariant == CacheSpec => []CacheInv
<1>1. CacheInv /\ [CacheNext]_cacheVars => CacheInv'
  <2>. SUFFICES ASSUME CacheInv, [CacheNext]_cacheVars PROVE CacheInv'
    OBVIOUS
  <2>1. ASSUME NEW c \in Calls, NEW k \in Keys, CallHits(c, k) PROVE CacheInv'
    BY <2>1, CallHitsKeepsInv
  <2>2. ASSUME NEW c \in Calls, NEW k \in Keys, CallComputes(c, k) PROVE CacheInv'
    BY <2>2, CallComputesKeepsInv
  <2>3. ASSUME NEW c \in Calls, Resolves(c) PROVE CacheInv'
    BY <2>3, ResolvesKeepsInv
  <2>4. ASSUME NEW c \in Calls, ResolvesUncached(c) \/ Rejects(c) PROVE CacheInv'
    BY <2>4, DropsKeepsInv
  <2>5. ASSUME NEW k \in Keys, Clear(k) PROVE CacheInv'
    <3>1. Clears({k}, Swept[k]) /\ k \in Swept[k]
      BY <2>5, MethodCacheAssumption DEF Clear, MethodCacheAssumption
    <3>. QED BY <3>1, ClearsKeepsInv
  <2>6. ASSUME NEW k \in Keys, ClearMethod(Method[k]) PROVE CacheInv'
    <3>. PICK ks \in SUBSET Keys : ks = {l \in Keys : Method[l] = Method[k]}
      OBVIOUS
    <3>1. Clears(ks, Begins[Method[k]])
      BY <2>6 DEF ClearMethod, ClearedBy
    <3>2. \A l \in ks : l \in Begins[Method[k]]
      BY MethodCacheAssumption DEF MethodCacheAssumption
    <3>. QED BY <3>1, <3>2, ClearsKeepsInv
  <2>7. CASE ClearInstance
    BY <2>7, ClearsKeepsInv DEF ClearInstance
  <2>8. CASE GarbageCollect
    BY <2>8, GarbageCollectKeepsInv
  <2>9. CASE Tick
    BY <2>9, TickKeepsInv
  <2>10. CASE UNCHANGED cacheVars
    BY <2>10 DEF cacheVars, CacheInv, CacheTypeOK, MapFits, EntriesFit, CallsFit,
                 PromisesAreKept, StaleOnlyIfLate, Computing, Fits
  <2>. QED BY <2>1, <2>2, <2>3, <2>4, <2>5, <2>6, <2>7, <2>8, <2>9, <2>10 DEF CacheNext
<1>. QED BY <1>1, CacheStarts, PTL DEF CacheSpec

\* The entries of a cache have different keys and places in the order of insertion,
\* and there are never more than maxSize of them.
THEOREM CacheTypeCorrect == CacheSpec => []CacheTypeOK
BY CacheIsInvariant, PTL DEF CacheInv

\* Whatever is cleared, evicted, expired, collected or deleted in place of another
\* key while calls are in progress, a promise in the cache belongs to a call in
\* progress; and as long as nothing of that took it away, no second call computes
\* the same.
THEOREM CallsShareComputations == CacheSpec => []ComputedOnce
<1>1. CacheInv => ComputedOnce
  <2>. SUFFICES ASSUME CacheInv PROVE ComputedOnce
    OBVIOUS
  <2>1. \A e \in entries : ~e.settled => Computing(e.value)
    BY DEF CacheInv, EntriesFit
  <2>2. ASSUME NEW c \in Calls, NEW d \in Calls, Computing(c), Computing(d),
               called[c] = called[d], c # d, clears[called[c]] = 0, called[c] \notin swept, Fits,
               Cardinality(Keys) <= maxSize
        PROVE  FALSE
    <3>1. PICK e \in entries : e.key = called[c] /\ e.value = c
      BY <2>2 DEF CacheInv, PromisesAreKept
    <3>2. PICK f \in entries : f.key = called[d] /\ f.value = d
      BY <2>2 DEF CacheInv, PromisesAreKept
    <3>. QED BY <2>2, <3>1, <3>2 DEF CacheInv, MapFits
  <2>3. /\ Cardinality(Keys) \in Nat /\ maxSize \in Nat
        /\ \A c \in Calls : Computing(c) => clears[called[c]] \in Nat
    BY MethodCacheAssumption, FS_CardinalityType
       DEF CacheInv, CacheTypeOK, CallsFit, Computing, MethodCacheAssumption
  <2>. QED BY <2>1, <2>2, <2>3 DEF ComputedOnce
<1>. QED BY <1>1, CacheIsInvariant, PTL

\* A call made after a clear of its key is answered with a result from before it only
\* if that was still being computed when the key was last cleared.
THEOREM ClearedResultsAreGone == CacheSpec => []StaleOnlyIfLate
BY CacheIsInvariant, PTL DEF CacheInv

-----------------------------------------------------------------------------
\* CoreLifecycle

LifecycleTypes ==
  /\ created \subseteq Services
  /\ serviceState \in [Services -> States]
  /\ nesting \in [Services -> Int]
  /\ coreNesting \in Int
  /\ initing \in [Services -> Phases]
  /\ stopping \in [Services -> Phases]
  /\ initCall \in {"new", "resolving", "initialising", "done", "failed"}
  /\ stopCall \in Phases
  /\ coreState \in {"initial", "initializing", "ready", "stopping", "stopped"}
  /\ overlap \in BOOLEAN

\* The counters of the State decorator are the calls under way, and at most one
\* of the calls on one object is the outermost.
NestingCounts ==
  /\ \A s \in Services : nesting[s] =
       (IF Initing(s) THEN 1 ELSE 0) + (IF Stopping(s) THEN 1 ELSE 0)
  /\ coreNesting = (IF initCall \in {"resolving", "initialising"} THEN 1 ELSE 0)
                   + (IF stopCall \in {"root", "nested"} THEN 1 ELSE 0)
  /\ \A s \in Services : ~(initing[s] = "root" /\ stopping[s] = "root")
  /\ stopCall = "root" => initCall \in {"done", "failed"}

\* Nothing of a service is under way before all are resolved; then one init() is
\* at a time, that of the service the loop is at.
InitInTurn ==
  /\ initCall \in {"new", "resolving"} => stopCall = "new"
  /\ stopCall = "new" => \A s \in Services : stopping[s] = "new"
  /\ \A s \in Services :
       Initing(s) => initCall = "initialising" /\ ~AllInitialised /\ s = initOrders[position]
  /\ initCall \in {"new", "resolving"} => \A s \in Services : initing[s] = "new"
  /\ initCall = "initialising" => created = Services
  /\ \A s \in Services \ created : initing[s] = "new" /\ stopping[s] = "new"

\* A stop() that found init() over is the only call left.
StopIsAlone ==
  stopCall # "new" /\ ~overlap =>
    /\ initCall \in {"done", "failed"}
    /\ stopCall \in {"root", "done", "failed"}
    /\ stopCall = "done" => coreState = "stopped"
    /\ \A s \in created :
         \/ stopping[s] = "root"
         \/ stopping[s] = "done" /\ serviceState[s] \in {"stopped", "errored"}

StatesShow ==
  /\ \A s \in Services : serviceState[s] \in Transitional
       <=> "root" \in {initing[s], stopping[s]}
  /\ coreState \in Transitional
       <=> initCall \in {"resolving", "initialising"} \/ stopCall = "root"
  /\ stopCall = "done" => \A s \in Services : ~Stopping(s)

LifecycleInv ==
  LifecycleTypes /\ NestingCounts /\ InitInTurn /\ StopIsAlone /\ StatesShow

LEMMA LifecycleImplies == LifecycleInv => StatesFollowCalls
<1>. SUFFICES ASSUME LifecycleInv PROVE StatesFollowCalls
  OBVIOUS
<1>1. StateFollowsRootCall
  BY DEF LifecycleInv, LifecycleTypes, NestingCounts, StatesShow, StateFollowsRootCall
<1>2. StoppedUnlessOverlap
  <2>. SUFFICES ASSUME stopCall = "done", ~overlap
                PROVE  coreState = "stopped"
                       /\ \A s \in created : serviceState[s] \in {"stopped", "errored"}
    BY DEF StoppedUnlessOverlap
  <2>1. \A s \in created : stopping[s] # "root"
    BY DEF LifecycleInv, LifecycleTypes, StatesShow, Stopping
  <2>. QED BY <2>1 DEF LifecycleInv, StopIsAlone
<1>. QED BY <1>1, <1>2 DEF StatesFollowCalls

LEMMA LifecycleStarts == LifecycleInit => LifecycleInv
<1>. SUFFICES ASSUME LifecycleInit PROVE LifecycleInv
  OBVIOUS
<1>1. overlap \in BOOLEAN
  BY DEF LifecycleInit
<1>2. LifecycleTypes
  BY <1>1 DEF LifecycleInit, LifecycleTypes, Phases, States
<1>3. NestingCounts /\ InitInTurn
  BY DEF LifecycleInit, NestingCounts, InitInTurn, Initing, Stopping
<1>4. StopIsAlone /\ StatesShow
  BY DEF LifecycleInit, StopIsAlone, StatesShow, Stopping, Transitional
<1>. QED BY <1>2, <1>3, <1>4 DEF LifecycleInv

LEMMA BeginKeepsInv ==
  ASSUME LifecycleInv, Begin
  PROVE  LifecycleInv'
BY DEF Begin, resolution, LifecycleInv, LifecycleTypes, NestingCounts, InitInTurn, StopIsAlone,
       StatesShow, Initing, Stopping, Phases, States, Transitional, AllInitialised

LEMMA GetServiceKeepsInv ==
  ASSUME LifecycleInv, NEW s \in Services, GetService(s)
  PROVE  LifecycleInv'
BY DEF GetService, LifecycleInv, LifecycleTypes, NestingCounts, InitInTurn, StopIsAlone,
       StatesShow, Initing, Stopping, AllInitialised

LEMMA ServiceResolvesKeepsInv ==
  ASSUME LifecycleInv, ServiceResolves
  PROVE  LifecycleInv'
BY DEF ServiceResolves, Resolvable, LifecycleInv, LifecycleTypes, NestingCounts, InitInTurn,
       StopIsAlone, StatesShow, Initing, Stopping, Phases, States, Transitional

LEMMA ServiceFailsKeepsInv ==
  ASSUME LifecycleInv, ServiceFailsToResolve
  PROVE  LifecycleInv'
BY DEF ServiceFailsToResolve, Resolvable, LifecycleInv, LifecycleTypes, NestingCounts, InitInTurn,
       StopIsAlone, StatesShow, Initing, Stopping, Phases, States, Transitional

LEMMA StoresFirstKeepsInv ==
  ASSUME LifecycleInv, StoresFirst
  PROVE  LifecycleInv'
BY DEF StoresFirst, LifecycleInv, LifecycleTypes, NestingCounts, InitInTurn, StopIsAlone,
       StatesShow, Initing, Stopping, Phases, States, Transitional

LEMMA InitStartsKeepsInv ==
  ASSUME LifecycleInv, InitStarts
  PROVE  LifecycleInv'
<1>. USE DEF LifecycleInv
<1>. PICK s : s = initOrders[position]
  OBVIOUS
<1>. PICK kind \in {"root", "nested"} : kind = Kind(nesting[s])
  BY DEF Kind
<1>1. /\ initCall = "initialising" /\ ~AllInitialised /\ initing[s] = "new"
      /\ initing' = [initing EXCEPT ![s] = kind]
      /\ nesting' = [nesting EXCEPT ![s] = @ + 1]
      /\ serviceState' = [serviceState EXCEPT ![s] = Started(kind, @, "initializing")]
      /\ UNCHANGED <<deps, created, stack, initOrders, initCall, position, stopCall,
                     coreState, coreNesting, stopping, overlap>>
  BY DEF InitStarts, resolution
<1>2. LifecycleTypes'
  <2>1. ASSUME NEW u \in Services
        PROVE  serviceState'[u] \in States /\ nesting'[u] \in Int /\ initing'[u] \in Phases
    BY <1>1 DEF LifecycleTypes, Phases, States, Transitional, Started
  <2>2. /\ serviceState' \in [Services -> States] /\ nesting' \in [Services -> Int]
        /\ initing' \in [Services -> Phases]
    BY <1>1, <2>1 DEF LifecycleTypes
  <2>. QED BY <1>1, <2>2 DEF LifecycleTypes
<1>3. NestingCounts'
  BY <1>1 DEF LifecycleTypes, NestingCounts, Initing, Stopping, Kind
<1>4. InitInTurn'
  BY <1>1 DEF LifecycleTypes, InitInTurn, Initing, AllInitialised
<1>5. StopIsAlone'
  BY <1>1 DEF LifecycleTypes, StopIsAlone
<1>6. StatesShow'
  BY <1>1 DEF LifecycleTypes, StatesShow, Stopping, Transitional, Started, Phases
<1>. QED BY <1>2, <1>3, <1>4, <1>5, <1>6

LEMMA InitEndsKeepsInv ==
  ASSUME LifecycleInv, NEW s \in Services, InitEnds(s)
  PROVE  LifecycleInv'
<1>. USE DEF LifecycleInv
<1>. PICK end \in {"running", "errored"} :
       serviceState' = [serviceState EXCEPT ![s] = Ended(initing[s], @, end)]
  BY DEF InitEnds
<1>1. /\ Initing(s) /\ initing' = [initing EXCEPT ![s] = "done"]
      /\ nesting' = [nesting EXCEPT ![s] = @ - 1]
      /\ UNCHANGED <<deps, created, stack, initOrders, initCall, stopCall,
                     coreState, coreNesting, stopping, overlap>>
  BY DEF InitEnds, resolution
<1>2. LifecycleTypes'
  BY <1>1 DEF LifecycleTypes, Phases, States, Ended
<1>3. NestingCounts'
  BY <1>1 DEF LifecycleTypes, NestingCounts, Initing, Stopping
<1>4. \A u \in Services : ~Initing(u)'
  BY <1>1 DEF LifecycleTypes, InitInTurn, Initing
<1>5. InitInTurn'
  BY <1>1, <1>4 DEF LifecycleTypes, InitInTurn, Initing
<1>6. StopIsAlone'
  BY <1>1 DEF LifecycleTypes, StopIsAlone, InitInTurn
<1>7. StatesShow'
  BY <1>1 DEF LifecycleTypes, StatesShow, NestingCounts, Initing, Stopping, Transitional, Ended
<1>. QED BY <1>2, <1>3, <1>5, <1>6, <1>7

LEMMA CoreIsReadyKeepsInv ==
  ASSUME LifecycleInv, CoreIsReady
  PROVE  LifecycleInv'
<1>. USE DEF LifecycleInv
<1>1. /\ initCall = "initialising" /\ AllInitialised
      /\ initCall' = "done" /\ coreState' = "ready" /\ coreNesting' = coreNesting - 1
      /\ UNCHANGED <<deps, created, stack, initOrders, position, stopCall, serviceState,
                     nesting, initing, stopping, overlap>>
  BY DEF CoreIsReady, resolution
<1>2. LifecycleTypes'
  BY <1>1 DEF LifecycleTypes
<1>3. NestingCounts'
  BY <1>1 DEF LifecycleTypes, NestingCounts, Initing, Stopping
<1>4. InitInTurn'
  BY <1>1 DEF InitInTurn, Initing, AllInitialised
<1>5. StopIsAlone'
  BY <1>1 DEF StopIsAlone
<1>6. StatesShow'
  BY <1>1 DEF StatesShow, NestingCounts, Stopping, Transitional
<1>. QED BY <1>2, <1>3, <1>4, <1>5, <1>6

LEMMA StopKeepsInv ==
  ASSUME LifecycleInv, Stop
  PROVE  LifecycleInv'
<1>. USE DEF LifecycleInv
<1>1. /\ stopCall = "new" /\ initCall \in {"initialising", "done", "failed"}
      /\ stopCall' = Kind(coreNesting)
      /\ coreState' = Started(stopCall', coreState, "stopping")
      /\ coreNesting' = coreNesting + 1
      /\ stopping' = [s \in Services |-> IF s \in created THEN Kind(nesting[s]) ELSE "new"]
      /\ serviceState' = [s \in Services |->
           IF s \in created THEN Started(stopping'[s], serviceState[s], "stopping")
           ELSE serviceState[s]]
      /\ nesting' = [s \in Services |-> IF s \in created THEN nesting[s] + 1 ELSE nesting[s]]
      /\ overlap' = (initCall = "initialising")
      /\ UNCHANGED <<deps, created, stack, initOrders, initCall, position, initing>>
  BY DEF Stop, resolution, LifecycleTypes
<1>2. \A s \in Services : stopping[s] = "new"
  BY <1>1 DEF InitInTurn
<1>3. LifecycleTypes'
  BY <1>1 DEF LifecycleTypes, Phases, States, Transitional, Started, Kind
<1>4. NestingCounts'
  BY <1>1, <1>2 DEF LifecycleTypes, NestingCounts, Initing, Stopping, Kind
<1>5. InitInTurn'
  BY <1>1, <1>2 DEF LifecycleTypes, InitInTurn, Initing, AllInitialised, Kind
<1>6. StopIsAlone'
  <2>. SUFFICES ASSUME ~overlap'
                PROVE  /\ initCall' \in {"done", "failed"} /\ stopCall' = "root"
                       /\ \A s \in created : stopping'[s] = "root"
    BY <1>1 DEF StopIsAlone
  <2>0. initCall # "initialising"
    BY <1>1, Zenon
  <2>1. initCall \in {"done", "failed"} /\ coreNesting = 0
    BY <1>1, <2>0 DEF NestingCounts
  <2>2. \A s \in created : ~Initing(s) /\ ~Stopping(s) /\ nesting[s] = 0
    BY <1>2, <2>1 DEF LifecycleTypes, InitInTurn, NestingCounts, Stopping
  <2>. QED BY <1>1, <2>1, <2>2 DEF LifecycleTypes, Kind
<1>7. StatesShow'
  <2>1. ASSUME NEW s \in Services
        PROVE  serviceState'[s] \in Transitional <=> "root" \in {initing'[s], stopping'[s]}
    BY <1>1, <1>2 DEF LifecycleTypes, StatesShow, Transitional, Started, Kind
  <2>2. coreState' \in Transitional
          <=> initCall' \in {"resolving", "initialising"} \/ stopCall' = "root"
    BY <1>1 DEF StatesShow, Transitional, Started, Kind
  <2>3. stopCall' # "done"
    BY <1>1 DEF Kind
  <2>. QED BY <2>1, <2>2, <2>3 DEF StatesShow
<1>. QED BY <1>3, <1>4, <1>5, <1>6, <1>7

LEMMA StopEndsKeepsInv ==
  ASSUME LifecycleInv, NEW s \in Services, StopEnds(s)
  PROVE  LifecycleInv'
<1>. USE DEF LifecycleInv
<1>. PICK end \in {"stopped", "errored"} :
       serviceState' = [serviceState EXCEPT ![s] = Ended(stopping[s], @, end)]
  BY DEF StopEnds
<1>1. /\ Stopping(s) /\ stopping' = [stopping EXCEPT ![s] = "done"]
      /\ nesting' = [nesting EXCEPT ![s] = @ - 1]
      /\ UNCHANGED <<deps, created, stack, initOrders, initCall, position, stopCall,
                     coreState, coreNesting, initing, overlap>>
  BY DEF StopEnds, resolution
<1>2. LifecycleTypes'
  BY <1>1 DEF LifecycleTypes, Phases, States, Ended
<1>3. NestingCounts'
  BY <1>1 DEF LifecycleTypes, NestingCounts, Initing, Stopping
<1>4. InitInTurn'
  BY <1>1 DEF LifecycleTypes, InitInTurn, Initing, Stopping, AllInitialised
<1>5. StopIsAlone'
  BY <1>1 DEF LifecycleTypes, StopIsAlone, Stopping, Ended
<1>6. StatesShow'
  BY <1>1 DEF LifecycleTypes, StatesShow, NestingCounts, Stopping, Transitional, Ended
<1>. QED BY <1>2, <1>3, <1>4, <1>5, <1>6

LEMMA CoreIsStoppedKeepsInv ==
  ASSUME LifecycleInv, CoreIsStopped
  PROVE  LifecycleInv'
<1>. USE DEF LifecycleInv
<1>1. /\ stopCall \in {"root", "nested"} /\ \A s \in Services : ~Stopping(s)
      /\ stopCall' = "done" /\ coreState' = Ended(stopCall, coreState, "stopped")
      /\ coreNesting' = coreNesting - 1
      /\ UNCHANGED <<deps, created, stack, initOrders, initCall, position, serviceState,
                     nesting, initing, stopping, overlap>>
  BY DEF CoreIsStopped, resolution
<1>2. LifecycleTypes'
  BY <1>1 DEF LifecycleTypes, Phases, Ended
<1>3. NestingCounts'
  BY <1>1 DEF LifecycleTypes, NestingCounts, Initing, Stopping
<1>4. InitInTurn'
  BY <1>1 DEF InitInTurn, Initing, AllInitialised
<1>5. StopIsAlone'
  BY <1>1 DEF StopIsAlone, Ended
<1>6. StatesShow'
  BY <1>1 DEF StatesShow, NestingCounts, Stopping, Transitional, Ended
<1>. QED BY <1>2, <1>3, <1>4, <1>5, <1>6

LEMMA CancelRejectsKeepsInv ==
  ASSUME LifecycleInv, CancelRejects
  PROVE  LifecycleInv'
<1>. USE DEF LifecycleInv
<1>1. /\ stopCall \in {"root", "nested"}
      /\ stopCall' = "failed" /\ coreState' = Ended(stopCall, coreState, "stopped")
      /\ coreNesting' = coreNesting - 1
      /\ UNCHANGED <<deps, created, stack, initOrders, initCall, position, serviceState,
                     nesting, initing, stopping, overlap>>
  BY DEF CancelRejects, resolution
<1>2. LifecycleTypes'
  BY <1>1 DEF LifecycleTypes, Phases, Ended
<1>3. NestingCounts'
  BY <1>1 DEF LifecycleTypes, NestingCounts, Initing, Stopping
<1>4. InitInTurn'
  BY <1>1 DEF InitInTurn, Initing, AllInitialised
<1>5. StopIsAlone'
  BY <1>1 DEF StopIsAlone, Ended
<1>6. StatesShow'
  BY <1>1 DEF StatesShow, NestingCounts, Stopping, Transitional, Ended
<1>. QED BY <1>2, <1>3, <1>4, <1>5, <1>6

LEMMA LifecycleStep == LifecycleInv /\ [LifecycleNext]_lifecycleVars => LifecycleInv'
<1>. SUFFICES ASSUME LifecycleInv, [LifecycleNext]_lifecycleVars PROVE LifecycleInv'
  OBVIOUS
<1>1. CASE Begin
  BY <1>1, BeginKeepsInv
<1>2. CASE ServiceResolves
  BY <1>2, ServiceResolvesKeepsInv
<1>3. CASE ServiceFailsToResolve
  BY <1>3, ServiceFailsKeepsInv
<1>4. CASE StoresFirst
  BY <1>4, StoresFirstKeepsInv
<1>5. CASE InitStarts
  BY <1>5, InitStartsKeepsInv
<1>6. CASE CoreIsReady
  BY <1>6, CoreIsReadyKeepsInv
<1>7. CASE Stop
  BY <1>7, StopKeepsInv
<1>8. CASE CoreIsStopped
  BY <1>8, CoreIsStoppedKeepsInv
<1>9. ASSUME NEW s \in Services, GetService(s) PROVE LifecycleInv'
  BY <1>9, GetServiceKeepsInv
<1>10. ASSUME NEW s \in Services, InitEnds(s) PROVE LifecycleInv'
  BY <1>10, InitEndsKeepsInv
<1>11. ASSUME NEW s \in Services, StopEnds(s) PROVE LifecycleInv'
  BY <1>11, StopEndsKeepsInv
<1>12. CASE CancelRejects
  BY <1>12, CancelRejectsKeepsInv
<1>13. CASE UNCHANGED lifecycleVars
  BY <1>13 DEF lifecycleVars, LifecycleInv, LifecycleTypes, NestingCounts, InitInTurn,
               StopIsAlone, StatesShow, Initing, Stopping, AllInitialised
<1>. QED BY <1>1, <1>2, <1>3, <1>4, <1>5, <1>6, <1>7, <1>8, <1>9, <1>10, <1>11, <1>12,
         <1>13 DEF LifecycleNext

LEMMA LifecycleIsInvariant == LifecycleSpec => []LifecycleInv
BY LifecycleStarts, LifecycleStep, PTL DEF LifecycleSpec

\* However init() and stop() overlap, and whatever fails, the states of the services
\* and of the core show a transition exactly while the outermost call is under way;
\* and a stop() that found init() over leaves every service stopped or in error.
THEOREM StatesAreTruthful == LifecycleSpec => []StatesFollowCalls
BY LifecycleIsInvariant, LifecycleImplies, PTL

----------------------------------------------------------------------------
(* The order of initialisation *)

\* The services under resolution inject one another, outermost first, and every
\* created service is either among them or resolved, once.
OrdersFit ==
  /\ deps \in [Services -> SUBSET Services]
  /\ stack \in Seq(Services) /\ initOrders \in Seq(Services)
  /\ position \in 1..(Len(initOrders) + 1)
  /\ \A i \in DOMAIN stack : stack[i] \in created
  /\ \A p \in DOMAIN initOrders : initOrders[p] \in created
  /\ \A p, q \in DOMAIN initOrders : initOrders[p] = initOrders[q] => p = q
  /\ initCall \in {"new", "resolving"} =>
       /\ position = 1
       /\ \A s \in created : \/ \E i \in DOMAIN stack : stack[i] = s
                             \/ \E p \in DOMAIN initOrders : initOrders[p] = s
       /\ \A i \in DOMAIN stack, p \in DOMAIN initOrders : stack[i] # initOrders[p]
       /\ \A i, j \in DOMAIN stack : stack[i] = stack[j] => i = j
       /\ \A i \in DOMAIN stack : i # 1 => stack[i] \in deps[stack[i - 1]]

\* What may be initialised before a service that it injects
Excused(s, d) == s \in NeededBy(d) \/ (s \in Stores /\ d \notin Stores)

Earlier(d, p) == \E q \in DOMAIN initOrders : q < p /\ initOrders[q] = d

DependenciesFirst ==
  \A p \in DOMAIN initOrders : \A d \in deps[initOrders[p]] :
    Earlier(d, p) \/ Excused(initOrders[p], d)

\* init() has gone through initOrders up to `position`.
InitialisedInOrder ==
  /\ \A s \in Services : initing[s] # "new"
       => \E p \in DOMAIN initOrders : p <= position /\ initOrders[p] = s
  /\ \A p \in DOMAIN initOrders : p < position => initing[initOrders[p]] = "done"

OrderInv == LifecycleInv /\ OrdersFit /\ DependenciesFirst /\ InitialisedInOrder

LEMMA SeqIndices ==
  ASSUME NEW S, NEW s \in Seq(S)
  PROVE  /\ Len(s) \in Nat /\ DOMAIN s = 1..Len(s) /\ \A i \in DOMAIN s : i \in Nat /\ s[i] \in S
         /\ s # <<>> => Len(s) \in DOMAIN s
BY LenProperties, EmptySeq

\* Along the stack every service is needed by those that are below it.
LEMMA StackIsNeeded ==
  ASSUME OrdersFit, initCall = "resolving", NEW i \in DOMAIN stack, NEW j \in DOMAIN stack, i <= j
  PROVE  stack[j] \in NeededBy(stack[i])
<1>. SUFFICES ASSUME NEW closed \in SUBSET Services, stack[i] \in closed,
                     \A u \in closed : deps[u] \subseteq closed, stack[j] \notin closed
              PROVE  FALSE
  BY SeqIndices DEF NeededBy, OrdersFit
<1>1. Len(stack) \in Nat /\ DOMAIN stack = 1..Len(stack)
  BY SeqIndices DEF OrdersFit
<1>. DEFINE out == {k \in i..j : stack[k] \notin closed}
<1>2. out \in SUBSET Nat /\ out # {}
  BY <1>1
<1>3. PICK m \in out : \A k \in out : m <= k
  BY <1>2, LeastElement
<1>4. m \in DOMAIN stack /\ m # i /\ m # 1 /\ m - 1 \in i..j /\ m - 1 < m
  BY <1>1, <1>3
<1>5. stack[m - 1] \in closed
  BY <1>3, <1>4
<1>6. stack[m] \in deps[stack[m - 1]]
  BY <1>4 DEF OrdersFit
<1>. QED BY <1>3, <1>5, <1>6

LEMMA OrderStarts == LifecycleInit => OrderInv
<1>. SUFFICES ASSUME LifecycleInit PROVE OrderInv
  OBVIOUS
<1>1. OrdersFit
  BY DEF LifecycleInit, OrdersFit
<1>2. DependenciesFirst /\ InitialisedInOrder
  BY DEF LifecycleInit, DependenciesFirst, InitialisedInOrder
<1>. QED BY <1>1, <1>2, LifecycleStarts DEF OrderInv

\* A step that leaves the order of the services alone
LEMMA QuietKeepsOrder ==
  ASSUME OrderInv, LifecycleInv', UNCHANGED <<deps, created, stack, initOrders, position, initing>>,
         initCall' \in {"new", "resolving"} => initCall \in {"new", "resolving"}
  PROVE  OrderInv'
<1>1. OrdersFit'
  BY DEF OrderInv, OrdersFit
<1>2. DependenciesFirst'
  BY DEF OrderInv, DependenciesFirst, Earlier, Excused, NeededBy
<1>3. InitialisedInOrder'
  BY DEF OrderInv, InitialisedInOrder
<1>. QED BY <1>1, <1>2, <1>3 DEF OrderInv

LEMMA GetServiceKeepsOrder ==
  ASSUME OrderInv, LifecycleInv', NEW s \in Services, GetService(s)
  PROVE  OrderInv'
<1>1. /\ initCall = "resolving" /\ s \notin created
      /\ stack # <<>> => s \in deps[stack[Len(stack)]]
      /\ created' = created \union {s} /\ stack' = Append(stack, s)
      /\ UNCHANGED <<deps, initOrders, initCall, position, initing>>
  BY DEF GetService
<1>2. OrdersFit
  BY DEF OrderInv
<1>3. /\ Len(stack) \in Nat /\ DOMAIN stack = 1..Len(stack)
      /\ stack' \in Seq(Services) /\ DOMAIN stack' = 1..(Len(stack) + 1)
      /\ \A i \in DOMAIN stack : stack'[i] = stack[i]
      /\ stack'[Len(stack) + 1] = s
  BY <1>1, <1>2, AppendProperties, LenProperties DEF OrdersFit
<1>4. OrdersFit'
  <2>1. \A u \in created' : \/ \E i \in DOMAIN stack' : stack'[i] = u
                            \/ \E p \in DOMAIN initOrders : initOrders[p] = u
    BY <1>1, <1>2, <1>3 DEF OrdersFit
  <2>2. \A i \in DOMAIN stack' : i \in DOMAIN stack \/ i = Len(stack) + 1
    BY <1>3
  <2>3. /\ \A i \in DOMAIN stack' : stack'[i] \in created'
        /\ \A i \in DOMAIN stack', p \in DOMAIN initOrders : stack'[i] # initOrders[p]
        /\ \A i, j \in DOMAIN stack' : stack'[i] = stack'[j] => i = j
    BY <1>1, <1>2, <1>3, <2>2 DEF OrdersFit
  <2>4. ASSUME NEW i \in DOMAIN stack', i # 1 PROVE stack'[i] \in deps[stack'[i - 1]]
    <3>1. CASE i \in DOMAIN stack
      <4>1. i - 1 \in DOMAIN stack
        BY <1>3, <2>4, <3>1
      <4>2. stack[i] \in deps[stack[i - 1]]
        BY <1>1, <1>2, <2>4, <3>1 DEF OrdersFit
      <4>. QED BY <1>3, <3>1, <4>1, <4>2
    <3>2. CASE i = Len(stack) + 1
      <4>1. i - 1 = Len(stack) /\ Len(stack) \in DOMAIN stack /\ stack # <<>>
        BY <1>3, <2>4, <3>2
      <4>. QED BY <1>1, <1>3, <3>2, <4>1
    <3>. QED BY <2>2, <3>1, <3>2
  <2>. QED BY <1>1, <1>2, <1>3, <2>1, <2>3, <2>4 DEF OrdersFit
<1>5. DependenciesFirst'
  BY <1>1 DEF OrderInv, DependenciesFirst, Earlier, Excused, NeededBy
<1>6. InitialisedInOrder'
  BY <1>1 DEF OrderInv, InitialisedInOrder
<1>. QED BY <1>4, <1>5, <1>6 DEF OrderInv

LEMMA ServiceResolvesKeepsOrder ==
  ASSUME OrderInv, LifecycleInv', ServiceResolves
  PROVE  OrderInv'
<1>. DEFINE s == stack[Len(stack)]
<1>1. /\ initCall = "resolving" /\ stack # <<>>
      /\ deps[s] \subseteq created
      /\ initOrders' = Append(initOrders, s)
      /\ stack' = SubSeq(stack, 1, Len(stack) - 1)
      /\ UNCHANGED <<deps, created, initCall, position, initing>>
  BY DEF ServiceResolves, Resolvable, Resolved
<1>2. OrdersFit
  BY DEF OrderInv
<1>3. /\ Len(stack) \in Nat \ {0} /\ DOMAIN stack = 1..Len(stack) /\ Len(stack) \in DOMAIN stack
      /\ \A i \in DOMAIN stack : i \in Nat /\ stack[i] \in Services
      /\ s \in Services
  BY <1>1, <1>2, SeqIndices DEF OrdersFit
<1>. HIDE DEF s
<1>4. /\ stack' \in Seq(Services) /\ DOMAIN stack' = 1..(Len(stack) - 1)
      /\ \A i \in DOMAIN stack' : i \in DOMAIN stack /\ i # Len(stack) /\ stack'[i] = stack[i]
  <2>1. PICK one \in Int : one = 1
    OBVIOUS
  <2>2. PICK n \in Int : n = Len(stack) - 1
    <3>1. Len(stack) - 1 \in Int
      BY <1>3
    <3>. QED BY <3>1, Zenon
  <2>3. \A i \in one..n : stack[i] \in Services
    BY <1>3, <2>1, <2>2
  <2>4. /\ SubSeq(stack, one, n) \in Seq(Services)
        /\ Len(SubSeq(stack, one, n)) = IF one <= n THEN n - one + 1 ELSE 0
        /\ \A i \in 1..(n - one + 1) : SubSeq(stack, one, n)[i] = stack[one + i - 1]
    BY <2>3, SubSeqProperties
  <2>5. /\ stack' \in Seq(Services) /\ Len(stack') = Len(stack) - 1
        /\ \A i \in 1..(Len(stack) - 1) : stack'[i] = stack[i]
    BY <1>1, <1>3, <2>1, <2>2, <2>4
  <2>. QED BY <1>3, <2>5, LenProperties
<1>5. /\ Len(initOrders) \in Nat /\ DOMAIN initOrders = 1..Len(initOrders)
      /\ initOrders' \in Seq(Services) /\ DOMAIN initOrders' = 1..(Len(initOrders) + 1)
      /\ \A p \in DOMAIN initOrders : initOrders'[p] = initOrders[p]
      /\ initOrders'[Len(initOrders) + 1] = s
  <2>1. initOrders \in Seq(Services)
    BY <1>2 DEF OrdersFit
  <2>. QED BY <1>1, <1>3, <2>1, AppendProperties, LenProperties
<1>6. \A p \in DOMAIN initOrders' : p \in DOMAIN initOrders \/ p = Len(initOrders) + 1
  BY <1>5
<1>7. /\ s \in created
      /\ \A p \in DOMAIN initOrders : initOrders[p] # s
      /\ \A i \in DOMAIN stack' : stack'[i] # s
  BY <1>1, <1>2, <1>3, <1>4 DEF OrdersFit, s
<1>8. OrdersFit'
  <2>1. \A p, q \in DOMAIN initOrders' : initOrders'[p] = initOrders'[q] => p = q
    BY <1>2, <1>5, <1>6, <1>7 DEF OrdersFit
  <2>2. ASSUME NEW u \in created
        PROVE  \/ \E i \in DOMAIN stack' : stack'[i] = u
               \/ \E p \in DOMAIN initOrders' : initOrders'[p] = u
    <3>1. CASE u = s
      BY <1>5, <3>1
    <3>2. CASE u # s /\ \E i \in DOMAIN stack : stack[i] = u
      <4>1. PICK i \in DOMAIN stack : stack[i] = u
        BY <3>2
      <4>2. i # Len(stack)
        BY <3>2, <4>1 DEF s
      <4>3. i \in DOMAIN stack'
        BY <1>3, <1>4, <4>2
      <4>. QED BY <1>4, <4>1, <4>3
    <3>3. CASE \E p \in DOMAIN initOrders : initOrders[p] = u
      BY <1>5, <3>3
    <3>. QED BY <1>1, <1>2, <3>1, <3>2, <3>3 DEF OrdersFit
  <2>3. /\ \A i \in DOMAIN stack' : stack'[i] \in created
        /\ \A p \in DOMAIN initOrders' : initOrders'[p] \in created
        /\ \A i \in DOMAIN stack', p \in DOMAIN initOrders' : stack'[i] # initOrders'[p]
        /\ \A i, j \in DOMAIN stack' : stack'[i] = stack'[j] => i = j
    BY <1>1, <1>2, <1>4, <1>5, <1>6, <1>7 DEF OrdersFit
  <2>4. ASSUME NEW i \in DOMAIN stack', i # 1 PROVE stack'[i] \in deps[stack'[i - 1]]
    <3>1. i - 1 \in DOMAIN stack' /\ i \in DOMAIN stack
      BY <1>3, <1>4, <2>4
    <3>2. stack[i] \in deps[stack[i - 1]]
      BY <1>1, <1>2, <2>4, <3>1 DEF OrdersFit
    <3>. QED BY <1>4, <3>1, <3>2
  <2>. QED BY SMTT(30), <1>1, <1>2, <1>4, <1>5, <2>1, <2>2, <2>3, <2>4 DEF OrdersFit
<1>9. DependenciesFirst'
  <2>. SUFFICES ASSUME NEW p \in DOMAIN initOrders', NEW d \in deps[initOrders'[p]]
                PROVE  Earlier(d, p)' \/ Excused(initOrders'[p], d)
    BY <1>1 DEF DependenciesFirst, Excused, NeededBy
  <2>1. CASE p \in DOMAIN initOrders
    <3>1. Earlier(d, p) \/ Excused(initOrders[p], d)
      BY <1>5, <2>1 DEF OrderInv, DependenciesFirst
    <3>. QED BY <1>5, <2>1, <3>1 DEF Earlier
  <2>2. CASE p = Len(initOrders) + 1
    <3>1. d \in created
      BY <1>1, <1>5, <2>2
    <3>2. CASE \E q \in DOMAIN initOrders : initOrders[q] = d
      BY <1>5, <2>2, <3>2 DEF Earlier
    <3>3. CASE \E i \in DOMAIN stack : stack[i] = d
      <4>1. PICK i \in DOMAIN stack : stack[i] = d
        BY <3>3
      <4>2. PICK j \in DOMAIN stack : j = Len(stack)
        BY <1>3
      <4>3. i <= j
        BY <1>3, <4>2
      <4>4. stack[j] \in NeededBy(stack[i])
        BY <1>1, <1>2, <4>3, StackIsNeeded
      <4>. QED BY <1>5, <2>2, <4>1, <4>2, <4>4 DEF Excused, s
    <3>. QED BY <1>1, <1>2, <3>1, <3>2, <3>3 DEF OrdersFit
  <2>. QED BY <1>6, <2>1, <2>2
<1>10. InitialisedInOrder'
  <2>1. \A u \in Services : initing[u] = "new"
    BY <1>1 DEF OrderInv, LifecycleInv, InitInTurn
  <2>2. \A p \in DOMAIN initOrders' : ~(p < position')
    BY <1>1, <1>2, <1>5 DEF OrdersFit
  <2>. QED BY <1>1, <2>1, <2>2 DEF InitialisedInOrder
<1>. QED BY <1>8, <1>9, <1>10 DEF OrderInv

LEMMA ServiceFailsKeepsOrder ==
  ASSUME OrderInv, LifecycleInv', ServiceFailsToResolve
  PROVE  OrderInv'
<1>1. /\ stack' = <<>> /\ initCall' = "failed"
      /\ UNCHANGED <<deps, created, initOrders, position, initing>>
  BY DEF ServiceFailsToResolve
<1>2. OrdersFit'
  BY <1>1 DEF OrderInv, OrdersFit
<1>3. DependenciesFirst'
  BY <1>1 DEF OrderInv, DependenciesFirst, Earlier, Excused, NeededBy
<1>4. InitialisedInOrder'
  BY <1>1 DEF OrderInv, InitialisedInOrder
<1>. QED BY <1>2, <1>3, <1>4 DEF OrderInv

\* The sort moves a service before one it injects only if it is a store and the
\* other is not.
LEMMA StoresFirstKeepsOrder ==
  ASSUME OrderInv, LifecycleInv', StoresFirst
  PROVE  OrderInv'
<1>1. /\ initCall = "resolving" /\ initCall' = "initialising"
      /\ UNCHANGED <<deps, created, stack, position, initing>>
  BY DEF StoresFirst
<1>2. PICK from \in [DOMAIN initOrders -> DOMAIN initOrders] :
        /\ \A j \in DOMAIN from : \E i \in DOMAIN from : from[i] = j
        /\ \A i, j \in DOMAIN from : i < j =>
             \/ Precedes(initOrders[from[i]], initOrders[from[j]])
             \/ ~Precedes(initOrders[from[j]], initOrders[from[i]]) /\ from[i] < from[j]
        /\ initOrders' = [i \in DOMAIN from |-> initOrders[from[i]]]
  BY DEF StoresFirst
<1>3. OrdersFit /\ Len(initOrders) \in Nat /\ DOMAIN initOrders = 1..Len(initOrders)
      /\ \A p \in DOMAIN initOrders : p \in Nat /\ initOrders[p] \in Services
  BY SeqIndices DEF OrderInv, OrdersFit
<1>4. /\ DOMAIN from = DOMAIN initOrders /\ DOMAIN initOrders' = DOMAIN initOrders
      /\ \A i \in DOMAIN from : from[i] \in DOMAIN initOrders /\ initOrders'[i] = initOrders[from[i]]
  BY <1>2
<1>5. \A p, q \in DOMAIN initOrders : initOrders[p] = initOrders[q] => p = q
  BY <1>3 DEF OrdersFit
<1>6. OrdersFit'
  <2>1. initOrders' \in [1..Len(initOrders) -> Services]
    BY <1>2, <1>3, <1>4
  <2>2. initOrders' \in Seq(Services)
    BY <1>3, <2>1
  <2>3. ASSUME NEW p \in DOMAIN initOrders', NEW q \in DOMAIN initOrders',
               initOrders'[p] = initOrders'[q], p < q
        PROVE  FALSE
    <3>1. from[p] = from[q]
      BY <1>4, <1>5, <2>3
    <3>2. from[p] \in Nat
      BY <1>3, <1>4, <2>3
    <3>. QED BY <1>2, <1>4, <2>3, <3>1, <3>2 DEF Precedes
  <2>4. \A p, q \in DOMAIN initOrders' : initOrders'[p] = initOrders'[q] => p = q
    BY <1>3, <1>4, <2>3
  <2>5. Len(initOrders') = Len(initOrders)
    BY <1>3, <2>1, <2>2, LenProperties
  <2>6. /\ \A p \in DOMAIN initOrders' : initOrders'[p] \in created'
        /\ \A i \in DOMAIN stack' : stack'[i] \in created'
    BY <1>1, <1>3, <1>4 DEF OrdersFit
  <2>. QED BY <1>1, <1>3, <2>2, <2>4, <2>5, <2>6 DEF OrdersFit
<1>7. DependenciesFirst'
  <2>. SUFFICES ASSUME NEW p \in DOMAIN initOrders', NEW d \in deps[initOrders'[p]],
                       ~Excused(initOrders'[p], d)
                PROVE  \E q \in DOMAIN initOrders' : q < p /\ initOrders'[q] = d
    BY <1>1 DEF DependenciesFirst, Excused, NeededBy, Earlier
  <2>1. PICK u \in DOMAIN initOrders : u < from[p] /\ initOrders[u] = d
    BY <1>4 DEF OrderInv, DependenciesFirst, Earlier
  <2>2. PICK q \in DOMAIN from : from[q] = u
    BY <1>2, <1>4, <2>1
  <2>3. initOrders'[q] = d /\ ~Precedes(initOrders[from[p]], initOrders[from[q]])
    BY <1>4, <2>1, <2>2 DEF Excused, Precedes
  <2>4. q \in Nat /\ p \in Nat /\ from[q] \in Nat /\ from[p] \in Nat /\ from[q] < from[p]
    BY <1>3, <1>4, <2>1, <2>2
  <2>5. ~(p < q)
    BY <1>2, <1>4, <2>3, <2>4
  <2>6. p # q
    BY <2>4
  <2>. QED BY <1>4, <2>3, <2>4, <2>5, <2>6
<1>8. InitialisedInOrder'
  <2>1. \A u \in Services : initing[u] = "new"
    BY <1>1 DEF OrderInv, LifecycleInv, InitInTurn
  <2>2. \A p \in DOMAIN initOrders' : ~(p < position')
    BY <1>1, <1>3, <1>4 DEF OrdersFit
  <2>. QED BY <1>1, <2>1, <2>2 DEF InitialisedInOrder
<1>. QED BY <1>6, <1>7, <1>8 DEF OrderInv

LEMMA InitStartsKeepsOrder ==
  ASSUME OrderInv, LifecycleInv', InitStarts
  PROVE  OrderInv'
<1>1. PICK kind \in {"root", "nested"} :
        initing' = [initing EXCEPT ![initOrders[position]] = kind]
  BY DEF InitStarts, Kind
<1>2. /\ initCall = "initialising" /\ ~AllInitialised
      /\ UNCHANGED <<deps, created, stack, initOrders, initCall, position>>
  BY DEF InitStarts, resolution
<1>3. /\ Len(initOrders) \in Nat /\ DOMAIN initOrders = 1..Len(initOrders)
      /\ position \in Nat \ {0} /\ position \in DOMAIN initOrders
      /\ \A p \in DOMAIN initOrders : p \in Nat /\ initOrders[p] \in Services
  BY <1>2, SeqIndices DEF OrderInv, OrdersFit, AllInitialised
<1>4. OrdersFit' /\ DependenciesFirst'
  BY <1>2 DEF OrderInv, OrdersFit, DependenciesFirst, Earlier, Excused, NeededBy
<1>5. InitialisedInOrder'
  <2>1. \A s \in Services : initing'[s] # "new" => initing[s] # "new" \/ s = initOrders[position]
    BY <1>1 DEF OrderInv, LifecycleInv, LifecycleTypes
  <2>2. \A p \in DOMAIN initOrders : p < position =>
          initOrders[p] # initOrders[position] /\ initing[initOrders[p]] = "done"
    <3>1. \A p \in DOMAIN initOrders : initOrders[p] = initOrders[position] => p = position
      BY <1>3 DEF OrderInv, OrdersFit
    <3>. QED BY <1>3, <3>1 DEF OrderInv, InitialisedInOrder
  <2>3. \A p \in DOMAIN initOrders : p < position => initing'[initOrders[p]] = "done"
    BY <1>1, <1>3, <2>2 DEF OrderInv, LifecycleInv, LifecycleTypes
  <2>. QED BY <1>2, <1>3, <2>1, <2>3 DEF OrderInv, InitialisedInOrder
<1>. QED BY <1>4, <1>5 DEF OrderInv

LEMMA InitEndsKeepsOrder ==
  ASSUME OrderInv, LifecycleInv', NEW s \in Services, InitEnds(s)
  PROVE  OrderInv'
<1>1. /\ Initing(s) /\ initing' = [initing EXCEPT ![s] = "done"] /\ position' = position + 1
      /\ UNCHANGED <<deps, created, stack, initOrders, initCall>>
  BY DEF InitEnds, resolution
<1>2. /\ initCall = "initialising" /\ ~AllInitialised /\ s = initOrders[position]
      /\ initing \in [Services -> Phases] /\ OrdersFit /\ InitialisedInOrder
  BY <1>1 DEF OrderInv, LifecycleInv, LifecycleTypes, InitInTurn
<1>3. /\ Len(initOrders) \in Nat /\ DOMAIN initOrders = 1..Len(initOrders)
      /\ position \in Nat \ {0} /\ position \in DOMAIN initOrders
      /\ \A p \in DOMAIN initOrders : p \in Nat /\ initOrders[p] \in Services
  BY <1>2, SeqIndices DEF OrdersFit, AllInitialised
<1>4. OrdersFit'
  BY <1>1, <1>2, <1>3 DEF OrdersFit
<1>5. DependenciesFirst'
  BY <1>1 DEF OrderInv, DependenciesFirst, Earlier, Excused, NeededBy
<1>6. InitialisedInOrder'
  <2>1. ASSUME NEW u \in Services, initing'[u] # "new"
        PROVE  \E p \in DOMAIN initOrders : p <= position + 1 /\ initOrders[p] = u
    <3>1. PICK p \in DOMAIN initOrders : p <= position /\ initOrders[p] = u
      <4>1. CASE u = s
        BY <1>2, <1>3, <4>1
      <4>2. CASE initing[u] # "new"
        BY <1>2, <4>2 DEF InitialisedInOrder
      <4>. QED BY <1>1, <1>2, <2>1, <4>1, <4>2
    <3>2. p \in Nat /\ position \in Nat
      BY <1>3
    <3>. QED BY <3>1, <3>2
  <2>2. ASSUME NEW p \in DOMAIN initOrders, p < position + 1
        PROVE  initing'[initOrders[p]] = "done"
    <3>1. CASE p = position
      BY <1>1, <1>2, <3>1
    <3>2. CASE p < position
      <4>1. initing[initOrders[p]] = "done" /\ initOrders[p] \in Services
        BY <1>2, <1>3, <3>2 DEF InitialisedInOrder
      <4>. QED BY <1>1, <1>2, <4>1
    <3>. QED BY <1>3, <2>2, <3>1, <3>2
  <2>. QED BY <1>1, <2>1, <2>2 DEF InitialisedInOrder
<1>. QED BY <1>4, <1>5, <1>6 DEF OrderInv

LEMMA OrderIsInvariant == LifecycleSpec => []OrderInv
<1>1. OrderInv /\ [LifecycleNext]_lifecycleVars => OrderInv'
  <2>. SUFFICES ASSUME OrderInv, [LifecycleNext]_lifecycleVars PROVE OrderInv'
    OBVIOUS
  <2>1. LifecycleInv'
    BY LifecycleStep DEF OrderInv
  <2>2. ASSUME NEW s \in Services, GetService(s) PROVE OrderInv'
    BY <2>1, <2>2, GetServiceKeepsOrder
  <2>3. CASE ServiceResolves
    BY <2>1, <2>3, ServiceResolvesKeepsOrder
  <2>4. CASE ServiceFailsToResolve
    BY <2>1, <2>4, ServiceFailsKeepsOrder
  <2>5. CASE StoresFirst
    BY <2>1, <2>5, StoresFirstKeepsOrder
  <2>6. CASE InitStarts
    BY <2>1, <2>6, InitStartsKeepsOrder
  <2>7. ASSUME NEW s \in Services, InitEnds(s) PROVE OrderInv'
    BY <2>1, <2>7, InitEndsKeepsOrder
  <2>8. CASE Begin \/ CoreIsReady
    BY <2>1, <2>8, QuietKeepsOrder DEF Begin, CoreIsReady, resolution
  <2>9. CASE Stop \/ CoreIsStopped \/ CancelRejects \/ UNCHANGED lifecycleVars
    BY <2>1, <2>9, QuietKeepsOrder
    DEF Stop, CoreIsStopped, CancelRejects, lifecycleVars, resolution
  <2>10. ASSUME NEW s \in Services, StopEnds(s) PROVE OrderInv'
    BY <2>1, <2>10, QuietKeepsOrder DEF StopEnds, resolution
  <2>. QED BY <2>2, <2>3, <2>4, <2>5, <2>6, <2>7, <2>8, <2>9, <2>10 DEF LifecycleNext
<1>. QED BY <1>1, OrderStarts, PTL DEF LifecycleSpec

\* The lists of services hold created ones, initOrders none of them twice, and a
\* counter is never above 2: one init() and one stop().
THEOREM LifecycleTypeCorrect == LifecycleSpec => []LifecycleTypeOK
<1>1. OrderInv => LifecycleTypeOK
  <2>. SUFFICES ASSUME OrderInv PROVE LifecycleTypeOK
    OBVIOUS
  <2>1. LifecycleTypes /\ NestingCounts /\ OrdersFit
    BY DEF OrderInv, LifecycleInv
  <2>2. nesting \in [Services -> 0..2] /\ coreNesting \in 0..2
    BY <2>1 DEF LifecycleTypes, NestingCounts
  <2>3. /\ Len(stack) \in Nat /\ DOMAIN stack = 1..Len(stack)
        /\ Len(initOrders) \in Nat /\ DOMAIN initOrders = 1..Len(initOrders)
        /\ stack \in Seq(Services) /\ initOrders \in Seq(Services)
    BY <2>1, SeqIndices DEF OrdersFit
  <2>4. stack \in [1..Len(stack) -> created] /\ initOrders \in [1..Len(initOrders) -> created]
    BY <2>1, <2>3 DEF OrdersFit
  <2>5. stack \in Seq(created) /\ initOrders \in Seq(created)
    BY <2>3, <2>4
  <2>6. Len(initOrders) <= Cardinality(created)
    <3>1. initOrders \in Injection(1..Len(initOrders), created)
      BY <2>1, <2>3, <2>4 DEF OrdersFit, Injection, IsInjective
    <3>2. IsFiniteSet(created)
      BY <2>1, LifecycleAssumption, FS_Subset DEF LifecycleAssumption, LifecycleTypes
    <3>3. Cardinality(1..Len(initOrders)) <= Cardinality(created)
      BY <3>1, <3>2, FS_Injection
    <3>4. PICK one \in Int : one = 1
      OBVIOUS
    <3>5. PICK n \in Nat : n = Len(initOrders)
      BY <2>3, Zenon
    <3>6. Cardinality(one..n) = IF one > n THEN 0 ELSE n - one + 1
      BY FS_Interval
    <3>7. Cardinality(1..Len(initOrders)) = Len(initOrders)
      BY <2>3, <3>4, <3>5, <3>6
    <3>. QED BY <3>3, <3>7
  <2>. QED BY <2>1, <2>2, <2>5, <2>6 DEF LifecycleTypes, OrdersFit, LifecycleTypeOK
<1>. QED BY <1>1, OrderIsInvariant, PTL

\* Whatever the services inject, cycles included, and in whatever order they are
\* configured, init() of a service begins after init() of those it injects is over;
\* the exceptions are cycles and stores, which go first.
THEOREM DependenciesInitFirst == LifecycleSpec => []InitAfterDependencies
<1>1. OrderInv => InitAfterDependencies
  <2>. SUFFICES ASSUME OrderInv, NEW s \in Services, NEW d \in deps[s], initing[s] # "new",
                       ~Excused(s, d)
                PROVE  initing[d] = "done"
    BY DEF InitAfterDependencies, Excused
  <2>1. PICK p \in DOMAIN initOrders : p <= position /\ initOrders[p] = s
    BY DEF OrderInv, InitialisedInOrder
  <2>2. PICK q \in DOMAIN initOrders : q < p /\ initOrders[q] = d
    BY <2>1 DEF OrderInv, DependenciesFirst, Earlier
  <2>3. p \in Nat /\ q \in Nat /\ position \in Nat
    BY SeqIndices DEF OrderInv, OrdersFit
  <2>4. q < position
    BY <2>1, <2>2, <2>3
  <2>. QED BY <2>2, <2>4 DEF OrderInv, InitialisedInOrder
<1>. QED BY <1>1, OrderIsInvariant, PTL

-----------------------------------------------------------------------------
\* ThreeWayMerge

Paths == Seq(Names)

\* A prefix of a path is its beginning, element by element.
LEMMA PrefixFacts ==
  ASSUME NEW p \in Paths, NEW q \in Paths
  PROVE  IsPrefix(p, q) <=> Len(p) <= Len(q) /\ \A i \in 1..Len(p) : p[i] = q[i]
<1>1. /\ SubSeq(p, 1, Len(p)) = [i \in 1..Len(p) |-> p[i]]
      /\ Len(p) \in Nat /\ Len(q) \in Nat
  BY DEF Paths
<1>2. Len(p) <= Len(q) => SubSeq(q, 1, Len(p)) = [i \in 1..Len(p) |-> q[i]]
  BY <1>1 DEF Paths
<1>. QED BY <1>1, <1>2 DEF IsPrefix

LEMMA BeginningFacts ==
  ASSUME NEW q \in Paths, NEW n \in 0..Len(q)
  PROVE  /\ SubSeq(q, 1, n) \in Paths /\ Len(SubSeq(q, 1, n)) = n
         /\ \A i \in 1..n : SubSeq(q, 1, n)[i] = q[i]
         /\ IsPrefix(SubSeq(q, 1, n), q)
         /\ \A m \in 0..n : SubSeq(SubSeq(q, 1, n), 1, m) = SubSeq(q, 1, m)
<1>0. Len(q) \in Nat
  BY DEF Paths
<1>1. /\ SubSeq(q, 1, n) \in Paths /\ Len(SubSeq(q, 1, n)) = n
      /\ \A i \in 1..n : SubSeq(q, 1, n)[i] = q[i]
  BY <1>0, SubSeqProperties DEF Paths
<1>2. IsPrefix(SubSeq(q, 1, n), q)
  <2>. DEFINE p == SubSeq(q, 1, n)
  <2>1. p \in Paths /\ Len(p) <= Len(q) /\ \A i \in 1..Len(p) : p[i] = q[i]
    BY <1>0, <1>1
  <2>. HIDE DEF p
  <2>2. IsPrefix(p, q)
    BY <2>1, PrefixFacts
  <2>. QED BY <2>2 DEF p
<1>3. ASSUME NEW m \in 0..n PROVE SubSeq(SubSeq(q, 1, n), 1, m) = SubSeq(q, 1, m)
  <2>1. /\ SubSeq(SubSeq(q, 1, n), 1, m) = [i \in 1..m |-> SubSeq(q, 1, n)[i]]
        /\ SubSeq(q, 1, m) = [i \in 1..m |-> q[i]]
    BY <1>0, <1>1 DEF Paths
  <2>. QED BY <1>1, <2>1
<1>. QED BY <1>1, <1>2, <1>3

\* A prefix of q is the beginning of q of its length, and two prefixes of one path
\* are prefixes of one another.
LEMMA PrefixIsBeginning ==
  ASSUME NEW p \in Paths, NEW q \in Paths, IsPrefix(p, q)
  PROVE  Len(p) \in 0..Len(q) /\ p = SubSeq(q, 1, Len(p)) /\ (Len(p) = Len(q) => p = q)
<1>1. Len(p) \in Nat /\ Len(q) \in Nat /\ Len(p) <= Len(q) /\ \A i \in 1..Len(p) : p[i] = q[i]
  BY PrefixFacts DEF Paths
<1>2. /\ SubSeq(q, 1, Len(p)) = [i \in 1..Len(p) |-> q[i]]
      /\ p = [i \in 1..Len(p) |-> p[i]] /\ q = [i \in 1..Len(q) |-> q[i]]
  BY <1>1 DEF Paths
<1>3. [i \in 1..Len(p) |-> q[i]] = [i \in 1..Len(p) |-> p[i]]
  BY <1>1
<1>4. p = SubSeq(q, 1, Len(p))
  BY <1>2, <1>3
<1>5. Len(p) = Len(q) => p = q
  BY <1>2, <1>3
<1>. QED BY <1>1, <1>4, <1>5

LEMMA PrefixIsTransitive ==
  ASSUME NEW p \in Paths, NEW q \in Paths, NEW r \in Paths, IsPrefix(p, q), IsPrefix(q, r)
  PROVE  IsPrefix(p, r)
<1>1. Len(p) \in Nat /\ Len(q) \in Nat /\ Len(r) \in Nat
  BY DEF Paths
<1>. QED BY <1>1, PrefixFacts

LEMMA PrefixesCompare ==
  ASSUME NEW p \in Paths, NEW q \in Paths, NEW r \in Paths, IsPrefix(p, r), IsPrefix(q, r)
  PROVE  /\ IsPrefix(p, q) \/ IsPrefix(q, p)
         /\ Len(p) <= Len(q) => p = SubSeq(q, 1, Len(p))
<1>1. Len(p) \in Nat /\ Len(q) \in Nat /\ Len(r) \in Nat
  BY DEF Paths
<1>2. (Len(p) <= Len(q) => IsPrefix(p, q)) /\ (Len(q) <= Len(p) => IsPrefix(q, p))
  BY <1>1, PrefixFacts
<1>. QED BY <1>1, <1>2, PrefixIsBeginning

\* What the documents are, all along
DocumentsFit == IsDocument(base) /\ IsDocument(ours) /\ IsDocument(theirs)

\* All that the three documents say
Said == base \union ours \union theirs

LEMMA SaidFacts ==
  ASSUME DocumentsFit, NEW f \in Said
  PROVE  /\ f[1] \in Paths
         /\ \A n \in 0..Len(f[1]) : \E g \in Said : g[1] = SubSeq(f[1], 1, n)
<1>1. PICK d \in {base, ours, theirs} : f \in d
  BY DEF Said
<1>2. IsDocument(d) /\ d \subseteq Said
  BY DEF DocumentsFit, Said
<1>3. f[1] \in Paths
  BY <1>1, <1>2 DEF IsDocument, Paths
<1>4. ASSUME NEW n \in 0..Len(f[1]) PROVE \E g \in Said : g[1] = SubSeq(f[1], 1, n)
  <2>1. Len(f[1]) \in Nat
    BY <1>3 DEF Paths
  <2>2. CASE n = Len(f[1])
    <3>1. SubSeq(f[1], 1, n) = f[1]
      BY <1>3, <2>2, SubSeqFull DEF Paths
    <3>. QED BY <3>1
  <2>3. CASE n # Len(f[1])
    <3>1. n \in 0..(Len(f[1]) - 1)
      BY <2>1, <2>3
    <3>2. PICK container \in {Object, Array} : <<SubSeq(f[1], 1, n), container>> \in d
      BY <1>1, <1>2, <3>1 DEF IsDocument
    <3>. QED BY <1>2, <3>2
  <2>. QED BY <2>2, <2>3
<1>. QED BY <1>3, <1>4

LEMMA VisitedFacts ==
  ASSUME DocumentsFit, NEW p \in Visited
  PROVE  /\ p \in Paths /\ \A n \in 0..(Len(p) - 1) : Descends(SubSeq(p, 1, n))
BY SaidFacts DEF Visited, Said

\* No leaf is a prefix of another path that mergeAt visits.
LEMMA LeavesAreLast ==
  ASSUME DocumentsFit, NEW q \in Leaves, NEW p \in Visited, IsPrefix(q, p)
  PROVE  p = q
<1>1. q \in Paths /\ p \in Paths /\ ~Descends(q)
  BY VisitedFacts DEF Leaves
<1>2. Len(q) \in 0..Len(p) /\ q = SubSeq(p, 1, Len(q)) /\ (Len(q) = Len(p) => q = p)
  BY <1>1, PrefixIsBeginning
<1>3. Len(p) \in Nat
  BY <1>1 DEF Paths
<1>4. Len(q) \notin 0..(Len(p) - 1)
  BY <1>1, <1>2, VisitedFacts
<1>. QED BY <1>2, <1>3, <1>4

LEMMA OneLeaf ==
  ASSUME DocumentsFit, NEW q \in Leaves, NEW r \in Leaves, NEW p \in Paths,
         IsPrefix(q, p), IsPrefix(r, p)
  PROVE  q = r
<1>1. q \in Visited /\ r \in Visited /\ q \in Paths /\ r \in Paths
  BY VisitedFacts DEF Leaves
<1>. QED BY <1>1, PrefixesCompare, LeavesAreLast

\* Whatever is said is said inside a leaf, or where mergeAt goes on.
LEMMA LeafOrVisited ==
  ASSUME DocumentsFit, NEW f \in Said
  PROVE  f[1] \in Visited \ Leaves \/ \E q \in Leaves : IsPrefix(q, f[1])
<1>. DEFINE p == f[1]
            stops == {n \in 0..Len(p) : ~Descends(SubSeq(p, 1, n))}
<1>1. p \in Paths /\ Len(p) \in Nat
  BY SaidFacts DEF Paths
<1>2. CASE stops = {}
  <2>1. \A n \in 0..Len(p) : Descends(SubSeq(p, 1, n))
    BY <1>2
  <2>2. SubSeq(p, 1, Len(p)) = p
    BY <1>1, SubSeqFull DEF Paths
  <2>3. Descends(p) /\ \A n \in 0..(Len(p) - 1) : Descends(SubSeq(p, 1, n))
    <3>1. Len(p) \in 0..Len(p) /\ \A n \in 0..(Len(p) - 1) : n \in 0..Len(p)
      BY <1>1
    <3>2. Descends(SubSeq(p, 1, Len(p)))
      BY <2>1, <3>1
    <3>. QED BY <2>1, <2>2, <3>1, <3>2
  <2>. QED BY <2>3 DEF Visited, Leaves, Said
<1>3. CASE stops # {}
  <2>1. PICK n \in stops : \A m \in stops : n <= m
    <3>1. stops \in SUBSET Nat
      BY <1>1
    <3>. HIDE DEF stops
    <3>. QED BY <1>3, <3>1, LeastElement
  <2>. DEFINE q == SubSeq(p, 1, n)
  <2>2. /\ n \in 0..Len(p) /\ ~Descends(q)
        /\ \A m \in 0..Len(p) : m < n => Descends(SubSeq(p, 1, m))
    BY <1>1, <2>1
  <2>3. /\ q \in Paths /\ Len(q) = n /\ IsPrefix(q, p)
        /\ \A m \in 0..n : SubSeq(q, 1, m) = SubSeq(p, 1, m)
    BY <1>1, <2>2, BeginningFacts
  <2>4. \E g \in Said : g[1] = q
    BY <2>2, SaidFacts
  <2>5. ASSUME NEW m \in 0..(Len(q) - 1) PROVE Descends(SubSeq(q, 1, m))
    <3>1. m \in 0..n /\ m \in 0..Len(p) /\ m < n
      BY <1>1, <2>2, <2>3
    <3>. QED BY <2>2, <2>3, <3>1
  <2>. HIDE DEF q
  <2>6. q \in Leaves
    BY <2>2, <2>4, <2>5 DEF Visited, Leaves, Said
  <2>. QED BY <2>3, <2>6
<1>. QED BY <1>2, <1>3

LEMMA OutcomeFacts ==
  ASSUME NEW p, NEW f \in Outcome(Three(p))
  PROVE  f \in Said /\ IsPrefix(p, f[1])
BY DEF Outcome, Three, At, Said

\* Where mergeAt does not go on and finds no conflict, the outcome is that of the
\* reference.
LEMMA LeafIsMerged ==
  ASSUME NEW p, NEW f, IsPrefix(p, f[1]), ~Differ(Three(p))
  PROVE  f \in Outcome(Three(p))
         <=> (f \in ours /\ f \in theirs) \/ (f \in ours /\ f \notin base)
             \/ (f \in theirs /\ f \notin base)
<1>. DEFINE c == Three(p)
<1>1. /\ f \in c.base <=> f \in base
      /\ f \in c.ours <=> f \in ours
      /\ f \in c.theirs <=> f \in theirs
  BY DEF Three, At
<1>2. ~Differ(c)
  OBVIOUS
<1>. HIDE DEF c
<1>. QED BY <1>1, <1>2 DEF Outcome, Differ, c

\* Where mergeAt goes on all three have the same container, and nothing else.
LEMMA ContainerIsCommon ==
  ASSUME DocumentsFit, NEW p, Descends(p), NEW d \in {base, ours, theirs},
         NEW f \in Content(d), f[1] = p
  PROVE  f \in base /\ f \in ours /\ f \in theirs
<1>1. PICK container \in {Object, Array} :
        \A value \in {base, ours, theirs} : <<p, container>> \in value
  BY DEF Descends
<1>2. <<p, container>> \in Content(d) /\ IsDocument(d)
  BY <1>1 DEF Content, Object, Array, DocumentsFit
<1>3. f = <<p, container>>
  BY <1>2 DEF IsDocument
<1>. QED BY <1>1, <1>3

Expected(b, o, t) == (o \intersect t) \union (o \ b) \union (t \ b)

LEMMA MergedHolds ==
  ASSUME NEW f
  PROVE  f \in MergedContent <=> \/ \E q \in Leaves : f \in Outcome(Three(q))
                                 \/ f \in Content(base) /\ f[1] \in Visited \ Leaves
BY Zenon DEF MergedContent

\* The order of arrays and the fields set to undefined are no content.
LEMMA DocumentHolds ==
  ASSUME NEW f
  PROVE  /\ f \in MergedDocument <=> f \in MergedContent \/ f \in MergedOrder \/ f \in DeletedFields
         /\ f \in MergedOrder => f[1] \in Visited \ Leaves /\ f[2].kind = "before"
         /\ f \in DeletedFields =>
              /\ f[1] \in Leaves /\ f[2] = UndefinedField /\ f[2].kind = "undefined"
              /\ Outcome(Three(f[1])) = {} /\ At(ours \union theirs, f[1]) # {}
<1>1. f \in MergedDocument <=> f \in MergedContent \/ f \in MergedOrder \/ f \in DeletedFields
  BY DEF MergedDocument
<1>2. ASSUME f \in MergedOrder PROVE f[1] \in Visited \ Leaves /\ f[2].kind = "before"
  <2>1. PICK path \in Visited \ Leaves : \E x, y : f = <<path, Before(x, y)>>
    BY <1>2, Zenon DEF MergedOrder, OrderOf
  <2>2. f[1] = path /\ f[2].kind = "before"
    BY <2>1 DEF Before
  <2>. QED BY <2>2
<1>3. ASSUME f \in DeletedFields
      PROVE  /\ f[1] \in Leaves /\ f[2] = UndefinedField /\ f[2].kind = "undefined"
             /\ Outcome(Three(f[1])) = {} /\ At(ours \union theirs, f[1]) # {}
  <2>1. PICK p \in Leaves : /\ f = <<p, UndefinedField>>
                            /\ Outcome(Three(p)) = {} /\ At(ours \union theirs, p) # {}
    BY <1>3, Zenon DEF DeletedFields
  <2>2. f[1] = p /\ f[2] = UndefinedField /\ UndefinedField.kind = "undefined"
    BY <2>1 DEF UndefinedField
  <2>. QED BY <2>1, <2>2
<1>. QED BY <1>1, <1>2, <1>3

LEMMA ContentIsMerged == Content(MergedDocument) = Content(MergedContent)
BY DocumentHolds DEF Content

\* No document has a field that is set to undefined.
LEMMA NothingIsUndefined ==
  ASSUME DocumentsFit, NEW f \in Said
  PROVE  /\ f = <<f[1], f[2]>> /\ f[2] # UndefinedField
         /\ f[2].kind = "before" => \E x, y : f[2] = Before(x, y) /\ x = f[2].first /\ y = f[2].second
<1>1. PICK d \in {base, ours, theirs} : f \in d /\ IsDocument(d)
  BY DEF Said, DocumentsFit
<1>2. ASSUME f \notin Content(d) PROVE \E x, y : f[2] = Before(x, y)
  <2>1. f \in d \ Content(d)
    BY <1>1, <1>2
  <2>2. \E x, y \in Parts(d, f[1]) : f[2] = Before(x, y)
    BY <1>1, <2>1 DEF IsDocument
  <2>. QED BY <2>2
<1>3. f = <<f[1], f[2]>>
  BY <1>1 DEF IsDocument
<1>4. f \in Content(d) => f[2].kind # "before" /\ f[2] # UndefinedField
  BY DEF Content, UndefinedField
<1>5. \A x, y : Before(x, y) # UndefinedField /\ Before(x, y).first = x /\ Before(x, y).second = y
  BY DEF Before, UndefinedField
<1>. QED BY <1>2, <1>3, <1>4, <1>5

\* Outside of the conflicts merge3 returns what the reference expects.
LEMMA MergeIsExpected ==
  ASSUME DocumentsFit, NEW f, \A q \in Leaves : Differ(Three(q)) => ~IsPrefix(q, f[1])
  PROVE  f \in Content(MergedContent) <=> f \in Expected(Content(base), Content(ours), Content(theirs))
<1>. DEFINE says == (f \in ours /\ f \in theirs) \/ (f \in ours /\ f \notin base)
                    \/ (f \in theirs /\ f \notin base)
<1>1. f \in Expected(Content(base), Content(ours), Content(theirs)) <=> f[2].kind \notin {"before", "undefined"} /\ says
  BY DEF Expected, Content
<1>2. f \in Content(MergedContent) <=> f[2].kind \notin {"before", "undefined"} /\ f \in MergedContent
  BY DEF Content
<1>3. f \in MergedContent \/ says => f \in Said
  BY OutcomeFacts, MergedHolds DEF Said, Content
<1>4. ASSUME f[2].kind \notin {"before", "undefined"}, f \in Said PROVE f \in MergedContent <=> says
  <2>1. f[1] \in Paths
    BY <1>4, SaidFacts
  <2>2. ASSUME NEW q \in Leaves, IsPrefix(q, f[1]) PROVE f \in MergedContent <=> says
    <3>1. f \in Outcome(Three(q)) <=> says
      BY <2>2, LeafIsMerged
    <3>2. ASSUME NEW r \in Leaves, f \in Outcome(Three(r)) PROVE f \in Outcome(Three(q))
      <4>1. IsPrefix(r, f[1])
        BY <3>2, OutcomeFacts
      <4>2. r = q
        BY <2>1, <2>2, <4>1, OneLeaf
      <4>. QED BY <3>2, <4>2
    <3>3. f[1] \notin Visited \ Leaves
      BY <2>2, LeavesAreLast
    <3>4. f \in MergedContent <=> f \in Outcome(Three(q))
      BY <2>2, <3>2, <3>3, MergedHolds
    <3>. QED BY <3>1, <3>4
  <2>3. ASSUME f[1] \in Visited \ Leaves, ~\E q \in Leaves : IsPrefix(q, f[1])
        PROVE  f \in MergedContent <=> says
    <3>1. Descends(f[1]) /\ \E d \in {base, ours, theirs} : f \in Content(d)
      BY <1>4, <2>3 DEF Leaves, Said, Content
    <3>2. f \in base /\ f \in ours /\ f \in theirs
      BY <3>1, ContainerIsCommon
    <3>3. f \in MergedContent
      BY <1>4, <2>3, <3>2, MergedHolds DEF Content
    <3>. QED BY <3>2, <3>3
  <2>. QED BY <1>4, <2>2, <2>3, LeafOrVisited
<1>. HIDE DEF says
<1>. QED BY <1>1, <1>2, <1>3, <1>4

\* The conflicts are those of paths none of which is a prefix of another, what is
\* resolved included.
ConflictsFit ==
  /\ \A c \in conflicts : c.path \in Paths /\ c = Three(c.path)
  /\ \A r \in chosen : r.path \in Paths /\ r.lost \in BOOLEAN
  /\ \A c \in conflicts, r \in chosen : c.path # r.path
  /\ \A p, q \in Disputed : IsPrefix(p, q) => p = q

\* Outside of the disputed paths the merged document is what the reference expects.
AgreesOutside ==
  Outside(Content(merged), Disputed)
    = Outside(Expected(Content(base), Content(ours), Content(theirs)), Disputed)

ChosenIsThere == \A r \in chosen : ~r.lost => At(merged, r.path) = r.value

UndefinedIsDeleted ==
  \A f \in Outside(merged, Disputed) : f[2] = UndefinedField => DeletedByOne(f[1])

AgreedOrderIsKept ==
  \A f \in Outside(ours \intersect theirs, Disputed) :
    f[2].kind = "before" /\ {f[2].first, f[2].second} \subseteq Parts(merged, f[1])
    => f \in merged

MergeInv ==
  /\ DocumentsFit
  /\ merging \in {"no", "merged", "thrown"}
  /\ merging = "no" => conflicts = {} /\ chosen = {}
  /\ merging = "thrown" => conflicts # {}
  /\ \A f \in merged : f[1] \in Paths
  /\ ConflictsFit
  /\ merging # "no" => AgreesOutside /\ UndefinedIsDeleted /\ AgreedOrderIsKept
  /\ ChosenIsThere

LEMMA MergeStarts ==
  ASSUME MergeInit
  PROVE  MergeInv
<1>1. DocumentsFit
  BY MergeAssumption DEF MergeInit, DocumentsFit
<1>. QED BY <1>1 DEF MergeInit, MergeInv, ConflictsFit, Disputed, ChosenIsThere

LEMMA Merge3Step ==
  ASSUME MergeInv, Merge3
  PROVE  MergeInv'
<1>. DEFINE differing == {q \in Leaves : Differ(Three(q))}
<1>1. DocumentsFit /\ merging = "no" /\ chosen = {}
  BY DEF MergeInv, Merge3
<1>2. /\ base' = base /\ ours' = ours /\ theirs' = theirs /\ chosen' = {}
      /\ merging' = "merged" /\ merged' = MergedDocument
      /\ conflicts' = {c \in {Three(path) : path \in Leaves} : Differ(c)}
  BY <1>1 DEF Merge3
<1>3. \A c \in conflicts' : c.path \in differing /\ c = Three(c.path)
  BY <1>2 DEF Three
<1>4. \A q \in differing : \E c \in conflicts' : c.path = q
  BY <1>2 DEF Three
<1>5. Disputed' = differing
  <2>1. {c.path : c \in conflicts'} = differing
    BY <1>3, <1>4
  <2>. QED BY <1>2, <2>1 DEF Disputed
<1>6. \A q \in differing : q \in Paths /\ q \in Visited
  BY <1>1, VisitedFacts DEF Leaves
<1>7. DocumentsFit'
  BY <1>1, <1>2 DEF DocumentsFit
<1>8. ASSUME NEW f \in merged' PROVE f[1] \in Paths
  <2>1. f \in MergedContent => f \in Said
    BY MergedHolds, OutcomeFacts DEF Content, Said
  <2>2. f \notin MergedContent => f[1] \in Visited
    BY <1>2, <1>8, DocumentHolds DEF Leaves
  <2>. QED BY <1>1, <2>1, <2>2, SaidFacts, VisitedFacts
<1>9. ConflictsFit'
  <2>1. \A c \in conflicts' : c.path \in Paths /\ c = Three(c.path)'
    BY <1>2, <1>3, <1>6 DEF Three
  <2>2. \A p, q \in differing : IsPrefix(p, q) => p = q
    BY <1>1, <1>6, LeavesAreLast
  <2>. QED BY <1>2, <1>5, <2>1, <2>2 DEF ConflictsFit
<1>10. AgreesOutside'
  <2>. DEFINE expected == Expected(Content(base), Content(ours), Content(theirs))
  <2>1. ASSUME NEW f, ~\E p \in differing : IsPrefix(p, f[1])
        PROVE  f \in Content(MergedContent) <=> f \in expected
    BY <1>1, <2>1, MergeIsExpected
  <2>. HIDE DEF expected
  <2>2. Outside(Content(MergedContent), differing) = Outside(expected, differing)
    BY <2>1 DEF Outside
  <2>3. /\ Content(merged)' = Content(MergedContent)
        /\ Expected(Content(base), Content(ours), Content(theirs))' = expected
    BY <1>2, ContentIsMerged DEF Content, Expected, expected
  <2>. QED BY <1>5, <2>2, <2>3 DEF AgreesOutside, Outside
<1>11. UndefinedIsDeleted'
  <2>. SUFFICES ASSUME NEW f \in MergedDocument, f[2] = UndefinedField,
                       ~\E p \in differing : IsPrefix(p, f[1])
                PROVE  DeletedByOne(f[1])
    BY <1>2, <1>5 DEF UndefinedIsDeleted, Outside, DeletedByOne, At
  <2>. DEFINE c == Three(f[1])
  <2>1. f \notin MergedContent
    BY <1>1, MergedHolds, OutcomeFacts, NothingIsUndefined DEF Content, Said
  <2>2. f \in DeletedFields
    BY <2>1, DocumentHolds DEF UndefinedField
  <2>3. f[1] \in Leaves /\ Outcome(c) = {} /\ At(ours \union theirs, f[1]) # {}
    BY <2>2, DocumentHolds
  <2>4. f[1] \in Paths /\ IsPrefix(f[1], f[1])
    BY <1>1, <2>3, VisitedFacts, PrefixFacts DEF Leaves
  <2>5. ~Differ(c)
    BY <2>3, <2>4
  <2>6. /\ c.base = At(base, f[1]) /\ c.ours = At(ours, f[1]) /\ c.theirs = At(theirs, f[1])
        /\ c.ours # {} \/ c.theirs # {}
    BY <2>3 DEF Three, At
  <2>. HIDE DEF c
  <2>. QED BY <2>3, <2>5, <2>6 DEF Outcome, Differ, DeletedByOne
<1>12. AgreedOrderIsKept'
  <2>. SUFFICES ASSUME NEW f \in ours \intersect theirs, ~\E p \in differing : IsPrefix(p, f[1]),
                       f[2].kind = "before",
                       {f[2].first, f[2].second} \subseteq Parts(MergedDocument, f[1])
                PROVE  f \in MergedDocument
    BY <1>2, <1>5 DEF AgreedOrderIsKept, Outside, Parts, Content
  <2>1. f \in Said
    BY DEF Said
  <2>2. ASSUME NEW q \in Leaves, IsPrefix(q, f[1]) PROVE f \in MergedContent
    <3>1. f \in Outcome(Three(q))
      BY <2>2, LeafIsMerged
    <3>. QED BY <3>1, MergedHolds
  <2>3. CASE f[1] \in Visited \ Leaves
    <3>. DEFINE array == <<f[1], Array>>
    <3>1. f \notin Content(ours) /\ IsDocument(ours)
      BY <1>1 DEF Content, DocumentsFit
    <3>2. array \in Content(ours) /\ array[1] = f[1]
      BY <3>1 DEF IsDocument, Content, Array
    <3>3. array \in base
      BY <1>1, <2>3, <3>2, ContainerIsCommon DEF Leaves
    <3>4. PICK x, y : f[2] = Before(x, y) /\ x = f[2].first /\ y = f[2].second
      BY <1>1, <2>1, NothingIsUndefined
    <3>5. f = <<f[1], Before(x, y)>>
      BY <1>1, <2>1, <3>4, NothingIsUndefined
    <3>6. x \in Parts(MergedContent, f[1]) /\ y \in Parts(MergedContent, f[1])
      BY <3>4, ContentIsMerged DEF Parts
    <3>7. ComesFirst(f[1], x, y)
      BY <3>5 DEF ComesFirst
    <3>8. f \in MergedOrder
      <4>1. f \in OrderOf(f[1])
        <5>1. <<x, y>> \in {q \in Parts(MergedContent, f[1]) \X Parts(MergedContent, f[1]) :
                           ComesFirst(f[1], q[1], q[2])}
          BY <3>6, <3>7
        <5>2. f = <<f[1], Before(<<x, y>>[1], <<x, y>>[2])>>
          BY <3>5
        <5>. QED BY <5>1, <5>2 DEF OrderOf
      <4>2. f[1] \in {p \in Visited \ Leaves : <<p, Array>> \in base}
        BY <2>3, <3>3
      <4>. QED BY <4>1, <4>2, Zenon DEF MergedOrder
    <3>. QED BY <3>8, DocumentHolds
  <2>. QED BY <1>1, <2>1, <2>2, <2>3, LeafOrVisited, DocumentHolds
<1>13. ChosenIsThere'
  BY <1>2 DEF ChosenIsThere
<1>14. \A f \in merged' : f[1] \in Paths
  BY <1>8
<1>. QED BY <1>2, <1>7, <1>9, <1>10, <1>11, <1>12, <1>13, <1>14 DEF MergeInv

LEMMA SideFacts ==
  ASSUME NEW p, NEW c, c = Three(p), NEW side \in {"ours", "theirs", "base"}, NEW f \in c[side]
  PROVE  f \in Said /\ IsPrefix(p, f[1])
<1>1. CASE side = "ours"
  BY <1>1 DEF Three, At, Said
<1>2. CASE side = "theirs"
  BY <1>2 DEF Three, At, Said
<1>3. CASE side = "base"
  BY <1>3 DEF Three, At, Said
<1>. QED BY <1>1, <1>2, <1>3

\* What is resolved is no element of an array of the merged document.
LEMMA ElementsAreInArrays ==
  ASSUME NEW p \in Paths, ~CrossesArray(p, 1), NEW q \in Paths, <<q, Array>> \in merged,
         ~IsPrefix(p, q), NEW x \in Names
  PROVE  ~IsPrefix(p, Append(q, x))
<1>. SUFFICES ASSUME IsPrefix(p, Append(q, x)) PROVE FALSE
  OBVIOUS
<1>. DEFINE r == Append(q, x)
<1>1. /\ r \in Paths /\ Len(r) = Len(q) + 1 /\ Len(q) \in Nat /\ Len(p) \in Nat
      /\ \A i \in 1..Len(q) : r[i] = q[i]
  BY AppendProperties DEF Paths
<1>2. IsPrefix(p, r)
  OBVIOUS
<1>. HIDE DEF r
<1>6. IsPrefix(q, r)
  BY <1>1, PrefixFacts
<1>3. Len(p) \in 0..Len(r) /\ p = SubSeq(r, 1, Len(p)) /\ (Len(p) = Len(r) => p = r)
  BY <1>1, <1>2, PrefixIsBeginning
<1>4. CASE Len(p) = Len(r)
  <2>1. p = r /\ q = SubSeq(p, 1, Len(p) - 1)
    BY <1>1, <1>3, <1>4, <1>6, PrefixIsBeginning
  <2>2. Len(p) - 1 \in 0..(Len(p) - 1)
    BY <1>1, <1>4
  <2>. QED BY <2>1, <2>2 DEF CrossesArray
<1>5. CASE Len(p) # Len(r)
  <2>1. Len(p) <= Len(q)
    <3>1. Len(r) = Len(q) + 1 /\ Len(q) \in Nat /\ Len(p) \in 0..Len(r)
      BY <1>1, <1>3
    <3>. QED BY <1>5, <3>1
  <2>2. IsPrefix(p, q)
    <3>1. \A i \in 1..Len(p) : p[i] = r[i] /\ r[i] = q[i]
      BY <1>1, <1>2, <2>1, PrefixFacts
    <3>. QED BY <1>1, <2>1, <3>1, PrefixFacts
  <2>. QED BY <2>2
<1>. QED BY <1>4, <1>5

LEMMA ResolveStep ==
  ASSUME MergeInv, NEW c \in conflicts, NEW side \in {"ours", "theirs", "base"}, Resolve(c, side)
  PROVE  MergeInv'
<1>. DEFINE p == c.path
            put == [path |-> p, value |-> ValueOf(c, side), lost |-> CrossesArray(p, 1)]
<1>1. /\ DocumentsFit /\ ConflictsFit /\ AgreesOutside /\ ChosenIsThere
      /\ UndefinedIsDeleted /\ AgreedOrderIsKept
      /\ merging = "merged" /\ \A f \in merged : f[1] \in Paths
  BY DEF MergeInv, Resolve
<1>2. p \in Paths /\ c = Three(p)
  BY <1>1 DEF ConflictsFit
<1>3. base' = base /\ ours' = ours /\ theirs' = theirs
  BY DEF Resolve
<1>4. CASE CrossesArray(p, 2)
  <2>1. /\ merging' = "thrown" /\ merged' = merged /\ conflicts' = conflicts /\ chosen' = chosen
    BY <1>4 DEF Resolve
  <2>2. DocumentsFit' /\ Disputed' = Disputed /\ ChosenIsThere'
    BY <1>1, <1>3, <2>1 DEF DocumentsFit, Disputed, ChosenIsThere, At
  <2>3. ConflictsFit'
    BY <1>1, <1>3, <2>1, <2>2 DEF ConflictsFit, Three, At
  <2>4. AgreesOutside'
    BY <1>1, <1>3, <2>1, <2>2 DEF AgreesOutside, Outside, Content
  <2>5. UndefinedIsDeleted' /\ AgreedOrderIsKept'
    BY <1>1, <1>3, <2>1, <2>2
       DEF UndefinedIsDeleted, AgreedOrderIsKept, Outside, DeletedByOne, At, Parts, Content
  <2>. QED BY <1>1, <2>1, <2>2, <2>3, <2>4, <2>5 DEF MergeInv
<1>5. CASE ~CrossesArray(p, 2)
  <2>1. /\ merging' = "merged" /\ conflicts' = conflicts \ {c} /\ chosen' = chosen \union {put}
        /\ merged' = IF CrossesArray(p, 1) THEN merged ELSE (merged \ At(merged, p)) \union ValueOf(c, side)
    BY <1>1, <1>5 DEF Resolve
  <2>2. DocumentsFit'
    BY <1>1, <1>3 DEF DocumentsFit
  <2>3. put.path = p /\ put.value = ValueOf(c, side) /\ put.lost = CrossesArray(p, 1) /\ put.lost \in BOOLEAN
    BY DEF CrossesArray
  <2>. HIDE DEF p, put
  <2>4. Disputed' = Disputed
    BY <2>1, <2>3 DEF Disputed, p
  <2>5. p \in Disputed
    BY DEF Disputed, p
  <2>6. \A f \in ValueOf(c, side) : f[1] \in Paths /\ IsPrefix(p, f[1])
    <3>1. \A f \in c[side] : f[1] \in Paths /\ IsPrefix(p, f[1])
      BY <1>1, <1>2, SideFacts, SaidFacts
    <3>2. IsPrefix(p, p)
      BY <1>2, PrefixFacts
    <3>. QED BY <1>2, <3>1, <3>2 DEF ValueOf, p
  <2>7. \A f \in merged' : f[1] \in Paths
    BY <1>1, <2>1, <2>6
  <2>8. ConflictsFit'
    <3>1. \A d \in conflicts' : d \in conflicts /\ d.path # p
      <4>. SUFFICES ASSUME NEW d \in conflicts, d # c PROVE d.path # p
        BY <2>1
      <4>. QED BY <1>1, <1>2 DEF ConflictsFit
    <3>2. \A d \in conflicts' : d.path \in Paths /\ d = Three(d.path)'
      BY <1>1, <1>3, <3>1 DEF ConflictsFit, Three, At
    <3>3. \A r \in chosen' : r.path \in Paths /\ r.lost \in BOOLEAN
      BY <1>1, <1>2, <2>1, <2>3 DEF ConflictsFit
    <3>4. \A d \in conflicts', r \in chosen' : d.path # r.path
      BY <1>1, <2>1, <2>3, <3>1 DEF ConflictsFit
    <3>. QED BY <1>1, <2>4, <3>2, <3>3, <3>4 DEF ConflictsFit
  \* What is written is below p.
  <2>9. ASSUME NEW f, ~IsPrefix(p, f[1]) PROVE f \in merged' <=> f \in merged
    BY <2>1, <2>6, <2>9 DEF At
  <2>10. AgreesOutside'
    <3>1. Outside(Content(merged)', Disputed) = Outside(Content(merged), Disputed)
      BY <2>5, <2>9 DEF Outside, Content
    <3>2. Expected(Content(base), Content(ours), Content(theirs))'
          = Expected(Content(base), Content(ours), Content(theirs))
      BY <1>3 DEF Expected, Content
    <3>3. Outside(Content(merged), Disputed)' = Outside(Content(merged)', Disputed)
      BY <2>4 DEF Outside
    <3>4. Outside(Expected(Content(base), Content(ours), Content(theirs)), Disputed)'
          = Outside(Expected(Content(base), Content(ours), Content(theirs)), Disputed)
      BY <2>4, <3>2 DEF Outside
    <3>. QED BY <1>1, <3>1, <3>3, <3>4 DEF AgreesOutside
  <2>11. ASSUME NEW r \in chosen', ~r.lost PROVE At(merged', r.path) = r.value
    <3>1. CASE r = put
      <4>1. merged' = (merged \ At(merged, p)) \union ValueOf(c, side)
        BY <2>1, <2>3, <2>11, <3>1
      <4>2. At(merged', p) = ValueOf(c, side)
        BY <2>6, <4>1 DEF At
      <4>. QED BY <2>3, <3>1, <4>2
    <3>2. CASE r \in chosen
      <4>1. r.path \in Disputed /\ r.path \in Paths /\ r.path # p
        BY <1>1, <3>2 DEF ConflictsFit, Disputed, p
      <4>2. ~IsPrefix(p, r.path) /\ ~IsPrefix(r.path, p)
        BY <1>1, <2>5, <4>1 DEF ConflictsFit
      <4>3. \A f \in merged \union merged' : IsPrefix(r.path, f[1]) => ~IsPrefix(p, f[1])
        BY <1>1, <1>2, <2>7, <4>1, <4>2, PrefixesCompare DEF p
      <4>4. At(merged', r.path) = At(merged, r.path)
        BY <2>9, <4>3 DEF At
      <4>. QED BY <1>1, <2>11, <3>2, <4>4 DEF ChosenIsThere
    <3>. QED BY <2>1, <3>1, <3>2
  <2>12. ChosenIsThere'
    BY <2>11 DEF ChosenIsThere, At
  <2>13. UndefinedIsDeleted'
    <3>1. Outside(merged', Disputed) = Outside(merged, Disputed)
      BY <2>5, <2>9 DEF Outside
    <3>. QED BY <1>1, <1>3, <2>4, <3>1 DEF UndefinedIsDeleted, Outside, DeletedByOne, At
  <2>14. AgreedOrderIsKept'
    <3>. SUFFICES ASSUME NEW f \in Outside(ours \intersect theirs, Disputed), f[2].kind = "before",
                         {f[2].first, f[2].second} \subseteq Parts(merged', f[1])
                  PROVE  f \in merged'
      BY <1>3, <2>4 DEF AgreedOrderIsKept, Outside, Parts, Content
    <3>1. CASE CrossesArray(p, 1)
      BY <1>1, <2>1, <3>1 DEF AgreedOrderIsKept
    <3>2. CASE ~CrossesArray(p, 1)
      <4>1. f \in ours /\ f \in theirs /\ ~IsPrefix(p, f[1]) /\ f[1] \in Paths
        BY <1>1, <2>5, SaidFacts DEF Outside, Said
      <4>2. <<f[1], Array>> \in merged
        <5>. DEFINE array == <<f[1], Array>>
        <5>1. \A d \in {ours, theirs} : f \notin Content(d) /\ IsDocument(d)
          BY <1>1 DEF Content, DocumentsFit
        <5>2. array \in Content(ours) /\ array \in Content(theirs)
          BY <4>1, <5>1 DEF IsDocument, Content, Array
        <5>3. array \in Outside(Expected(Content(base), Content(ours), Content(theirs)), Disputed)
          BY <5>2 DEF Outside, Expected
        <5>. QED BY <1>1, <5>3 DEF AgreesOutside, Outside, Content
      <4>3. ASSUME NEW x \in {f[2].first, f[2].second} PROVE x \in Parts(merged, f[1])
        <5>1. PICK g \in Content(merged') : x \in Names /\ g[1] = Append(f[1], x)
          BY <4>3 DEF Parts
        <5>2. ~IsPrefix(p, g[1])
          BY <1>2, <3>2, <4>1, <4>2, <5>1, ElementsAreInArrays
        <5>. QED BY <2>9, <5>1, <5>2 DEF Parts, Content
      <4>4. f \in merged
        BY <1>1, <4>3 DEF AgreedOrderIsKept
      <4>. QED BY <2>9, <4>1, <4>4
    <3>. QED BY <3>1, <3>2
  <2>. QED BY <2>1, <2>2, <2>7, <2>8, <2>10, <2>12, <2>13, <2>14 DEF MergeInv
<1>. QED BY <1>4, <1>5

LEMMA MergeStutters ==
  ASSUME MergeInv, UNCHANGED mergeVars
  PROVE  MergeInv'
<1>1. /\ base' = base /\ ours' = ours /\ theirs' = theirs
      /\ merged' = merged /\ conflicts' = conflicts /\ merging' = merging /\ chosen' = chosen
  BY DEF mergeVars
<1>2. DocumentsFit' /\ Disputed' = Disputed /\ ChosenIsThere'
  BY <1>1 DEF MergeInv, DocumentsFit, Disputed, ChosenIsThere, At
<1>3. ConflictsFit'
  BY <1>1, <1>2 DEF MergeInv, ConflictsFit, Three, At
<1>4. merging # "no" => AgreesOutside'
  BY <1>1, <1>2 DEF MergeInv, AgreesOutside, Outside, Content, Expected
<1>5. merging # "no" => UndefinedIsDeleted' /\ AgreedOrderIsKept'
  BY <1>1, <1>2
     DEF MergeInv, UndefinedIsDeleted, AgreedOrderIsKept, Outside, DeletedByOne, At, Parts, Content
<1>. QED BY <1>1, <1>2, <1>3, <1>4, <1>5 DEF MergeInv

LEMMA MergeIsInvariant == MergeSpec => []MergeInv
<1>1. MergeInv /\ [MergeNext]_mergeVars => MergeInv'
  BY Merge3Step, ResolveStep, MergeStutters DEF MergeNext
<1>. QED BY <1>1, MergeStarts, PTL DEF MergeSpec

\* A merge fails only while there is something left to resolve, and no conflict is
\* inside another.
THEOREM MergeTypeCorrect == MergeSpec => []MergeTypeOK
<1>1. MergeInv => MergeTypeOK
  <2>. SUFFICES ASSUME MergeInv PROVE MergeTypeOK
    OBVIOUS
  <2>1. ASSUME NEW c \in conflicts, NEW d \in conflicts, IsPrefix(c.path, d.path) PROVE c = d
    <3>1. c.path = d.path
      BY <2>1 DEF MergeInv, ConflictsFit, Disputed
    <3>. QED BY <3>1 DEF MergeInv, ConflictsFit
  <2>. QED BY <2>1 DEF MergeInv, ConflictsFit, MergeTypeOK
<1>. QED BY <1>1, MergeIsInvariant, PTL

\* Whatever the two sides did to the base, and in whatever order conflicts are
\* resolved, the merged document has what both kept and what either added, ours and
\* theirs alike, and at a resolved conflict the value that was chosen.
THEOREM MergesAreAsReference == MergeSpec => []MergedAsReference
<1>1. MergeInv => MergedAsReference
  BY DEF MergeInv, AgreesOutside, ChosenIsThere, UndefinedIsDeleted, AgreedOrderIsKept,
         Expected, MergedAsReference
<1>. QED BY <1>1, MergeIsInvariant, PTL

-----------------------------------------------------------------------------
\* The five together

\* Each component runs its own specification while the others stand still, whichever
\* is in focus: what is proved of one of them alone holds of the five together.
THEOREM UtilitiesComposed ==
  Spec => ThrottlerSpec /\ DebouncerSpec /\ CacheSpec /\ LifecycleSpec /\ MergeSpec
<1>1. Init => ThrottlerInit /\ DebouncerInit /\ CacheInit /\ LifecycleInit /\ MergeInit
  BY DEF Init
<1>2. [Next]_vars => /\ [ThrottlerNext]_throttlerVars
                     /\ [DebouncerNext]_debounceVars /\ [CacheNext]_cacheVars
                     /\ [LifecycleNext]_lifecycleVars /\ [MergeNext]_mergeVars
  BY DEF Next, vars
<1>. QED
  BY <1>1, <1>2, PTL
     DEF Spec, ThrottlerSpec, DebouncerSpec, CacheSpec, LifecycleSpec, MergeSpec

\* The state of the five components together stays in its types.
THEOREM UtilitiesTypesCorrect == Spec => []TypesOK
<1>1. ThrottlerTypeOK /\ DebouncerTypeOK /\ CacheTypeOK /\ LifecycleTypeOK /\ MergeTypeOK
      => TypesOK
  BY DEF TypesOK
<1>. QED
  BY <1>1, UtilitiesComposed, ThrottlerTypeCorrect, DebouncerTypeCorrect, CacheTypeCorrect,
     LifecycleTypeCorrect, MergeTypeCorrect, PTL
=============================================================================
