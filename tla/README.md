# A TLA+ verification of webda.io

webda.io is a TypeScript framework: an application is a set of *services*
(queues, stores, pub/sub, crypto, binaries, cluster...) and *models* held in
repositories, exposed over REST, GraphQL, gRPC or the command line. This
directory holds TLA+ models of the parts of it where several asynchronous
activities, processes or instances meet, the TLC runs that check them on small
instances, and theorems about them that TLAPS checks for every value of the
constants. `PROJECT.json` lists components, runs, mutants, the source lines each
definition stands for, hazards, findings and theorems.

## 1. Inventory of the system

A Node.js process runs one thing at a time: code between two `await`s is atomic,
and everything else interleaves - concurrent callers, timers, stream callbacks.
Beyond the process, instances share databases, files and sockets, and may crash.

| Component (packages/...) | State | Operations | Hard behaviour | What makes it correct | Status |
|---|---|---|---|---|---|
| MemoryQueue (core/src/queues/memoryqueue.ts) | `_queue` with a Claimed stamp per message, `pendingReads` | sendMessage, receiveMessage, deleteMessage | concurrent readers, claims that expire under a working reader, read timeouts racing sends | at-least-once, one holder per claim, FIFO first deliveries, no forgotten reader | modelled, proved |
| Queue consumers (core/src/queues/queueservice.ts, utils/src/waiter.ts) | the loops, `consumers`, shouldRun flags | consume, cancel | launches and cancellation at any point of an iteration, failing callbacks | bound on consumers, delete only after success, progress, scale-down | modelled, safety proved |
| MemoryStore persistence (core/src/stores/memory.ts) | map, timer id, persistencePromise, the file | set, delete, persist, stop, init | overlapping streams, errors, crash in the middle of a save | a save that completed can be read back; every write is saved | modelled, safety proved |
| CryptoService rotation (core/src/services/cryptoservice.ts, core/src/models/registry.ts) | `keys`, `current`, `age` per instance; the registry entry | init, load, rotate, checkKey | instances that race to create and rotate, crash, reload | current has its key, no key lost, signatures accepted everywhere | modelled, safety proved |
| Repositories (models/src/repositories) | items by key, in order of insertion | create, update, patch, upsert, increments, collections, iterate | get-then-set across an await, paging while items come and go | conditional operations are atomic, an iteration is complete | modelled, safety proved; queries and links left out |
| Throttler (utils/src/throttler.ts) | queue, count in flight, waiters | queue, wait, setConcurrency | failure of one of many, functions that throw or call the throttler back, resize to 0 | slots are used and returned, every task runs, waits end in time | modelled, safety proved |
| Debouncer (utils/src/debounce.ts) | pending call, timer id, last times | call, flush, cancel | timers that flush() leaves behind | a pending call is passed on in time | modelled, proved |
| State decorator, Core lifecycle (utils/src/state.ts, core/src/core, core/src/application/runner.ts) | nesting counters, states, order of services | resolve, init, stop | overlapping asynchronous calls, dependency cycles, SIGINT during init, a cancel() that rejects | dependencies first; states reflect what runs | modelled, proved; configuration updates left out |
| Method cache (cache/src/cache.ts) | a Map with time stamps | wrapped calls, eviction, clear, collection | promises in the cache, cleared while they are computed, also in place of others | computed once, nothing stale after a clear | modelled for asynchronous methods, proved |
| SocketPubSub (fs/src/socketpubsub.ts) | socket file, server, connections | connect, send, stop | election through unlink and bind, brokers that go | at most once and in order; one broker in the end | modelled, safety proved; framing left out |
| Cluster (runtime/src/services/cluster.ts) | members by last keep-alive | keep-alive, removal, forwarding of events | lost and late messages, crashes | live members known, events dispatched once | modelled, safety proved; node data left out |
| FileQueue (fs/src/filequeue.ts) | message and lock files | as a queue | several processes, crash between two system calls | at-least-once | modelled, proved |
| FileBinary (fs/src/filebinary.ts, core/src/services/binary.ts) | folder per content, marker per user | store, redirect, upload, delete | overlapping requests on one content, steps that reject, crash | stored as long as it is used | modelled for single attributes, proved |
| Versioning (versioning/src/engine, conflicts) | none | three-way merge, resolve | conflicts inside arrays | merge agrees with its reference | merge and resolution modelled, proved; deltas and line merges left out |
| PostgreSQL queue, pub/sub and pool, FileStore, cloud binaries | rows, files | one statement or one synchronous call each | those of the database; otherwise the protocols above | - | not modelled |
| HTTP, router, contexts, authentication, OAuth, sessions, GraphQL, gRPC, IAM | per request | handlers | none of their own beyond the repositories and the keys | - | not modelled |
| Application loader, operations, DomainService, models and relations, serializers, query language, CloudEvents filters, event emitters | in-memory data | sequential transformations | - | - | not modelled |
| Asynchronous jobs | job entries | half migrated to the present core, excluded from the build | - | - | not modelled |
| Compiler, ts-plugin, schema, shell, logging, debug TUI, cloud adapters | - | build time, presentation, wrappers of external services | - | - | not modelled |

How they interact: `consume()` drives any queue through `receiveMessage` and
`deleteMessage`; asynchronous jobs, notifications and the cluster are built on
queues and pub/sub. Stores hand out repositories, which the registry, users,
identities and binaries use; the CryptoService keeps its keys in the registry and
sessions and tokens are signed with them. The MemoryStore implements the map that
MemoryRepository writes to and adds the file. Core calls `init()` and `stop()` of
every service.

The hazards of this code, each at its line, with the properties that would catch
it going wrong or the reason why none does yet, are in `PROJECT.json`.

## 2. The modules

| Module | Role |
|---|---|
| `AtLeastOnceQueue` | the contract of a queue: sent, available, leased, deleted; leases may lapse |
| `MemoryQueue` | the in-memory queue, one action per stretch of code between awaits; implements `AtLeastOnceQueue` |
| `QueueConsumers` | extends `MemoryQueue` with the loops of `consume()` and its cancellation |
| `FileQueue` | a folder shared by processes, one action per system call; implements `AtLeastOnceQueue` but for `LocksTwice` |
| `StorePersistence` | the map, the timer, the streams and the file of a MemoryStore |
| `KeyRotation` | CryptoService instances over the registry entry |
| `AtomicStore` | the interface of a repository, read as one atomic step per operation |
| `Repository` | MemoryRepository and `upsert` of AbstractRepository; implements `AtomicStore` but for `StaleWrite` and `ConditionIgnored` |
| `FileBinary` | contents and markers in folders, driven by concurrent requests |
| `AtMostOncePubSub` | the contract of a pub/sub |
| `SocketPubSub` | peers over a socket file; implements `AtMostOncePubSub` |
| `Cluster` | membership and events of the nodes, over a pub/sub that loses and delays |
| `Throttler`, `Debouncer`, `MethodCache`, `CoreLifecycle` | one utility each |
| `ThreeWayMerge` | `merge3` and `resolve`, with a reference for what they compute |
| `MemoryQueueProofs`, `QueueConsumersProofs`, `StorePersistenceProofs`, `KeyRotationProofs` | theorems and proofs, one component each |
| `StorageProofs` | the same for `Repository`, `FileQueue` and `FileBinary` |
| `MessagingProofs` | the same for `SocketPubSub` and `Cluster` |
| `UtilitiesProofs` | the same for `Throttler`, `Debouncer`, `MethodCache`, `CoreLifecycle` and `ThreeWayMerge`, and for the five of them in `MCUtilities` |
| `BackendsProofs` | the same for the five components in `MCBackends` |
| `MCUtilities`, `MCBackends` | five components each, side by side: the variable `focus` says which one moves, so that each is explored on its own |
| other `MC...` | instances for TLC; `MCThrottler`, `MCMethodCache` and `MCThreeWayMerge` are parts of `MCUtilities` |

A definition whose comment begins with "Mutant" is a plausible bug: it stands just
before the definition it would replace and is used by no specification. It serves
to check that the properties would notice.

### MemoryQueue

`queue`, `pendingReads` are the fields of the class; `arrival` is the insertion
order of the object's keys, which is what `for..in` follows; `claimed` is the set of
messages whose `Claimed` is younger than `expireMs`. The clock is not modelled:
`ClaimExpires` is the moment a claim becomes old, at any time after it was made.
`reader` is where a caller of `receiveMessage` is (the promise it waits on is
"blocked", or resolved with its continuation not yet run: "woken") and `item` the
receipt it holds. `ReceiveAtOnce/Blocks/Throws` is the code up to the await,
`ReadTimesOut` the timer, `ReturnItem/Empty/Throws` the second look after it.
`Poison` are messages whose body `unserialize` cannot read: `getItem` throws after
it has stamped the claim. The timeout's `filter` in the code compares with a
function that was never pushed, so the entry stays, dead; the model does the same.
`MaxPendingReads` bounds the list: an entry with as many others before it as there
are messages can never be shifted, so it is not recorded, which changes nothing that
is observable.

### QueueConsumers

The readers are the loops. `Consume` and `ParentLaunches` run the first iteration
at once, as the constructor of CancelableLoopPromise does; `Receives` is a further
iteration, under `shouldRun`. The callback, `deleteMessage`, the back-off and the
decision after `consumerReceiveMessage` are separate steps since an await separates
them. `result` is what the iteration returned, with the speed reduced to less than
three seconds or not. `LoopEnds` is the settled promise: the `finally` that removes
a child from `consumers` runs then. `CancelStarts` and `CancelSettles` are the two
sides of the await in `cancel()`. A child that has ended leaves its slot for another.

### StorePersistence

`Set` is the hooked `storage.set`; `Delete` is not hooked, as in the code. `Begin` is
the synchronous part of `persist()`, which lists the keys; `OpenFile` the truncation,
which happens later; `ReadLine` one `_read`; `WriteLines` a flush; `Finish` and `Fail`
the two listeners with the code awaiting them. `TimerWaits` does what
`persistenceTimeout ??= setTimeout(...)` does at that point: nothing, because the
variable still holds the id of the timer that is firing ("fired"). A rejected
persist() of the timer is an unhandled rejection: `Fail` is the process that goes on
(its host listens to `unhandledRejection`), followed by `Crash` it is the process
that Node ends. The file is a function from keys to values and a value the number of
its write. Compression and encryption are off. `saved` and the fields `start` and
`alone` of a stream are history.

### KeyRotation

One action is one request to the registry with the code on its answer:
`CheckExists`, then `PutChecks` and `PutCreates/PutMerges/PutFails`, the two requests
of the upsert behind `registry.put`, then `PatchSucceeds/PatchFails`, then `Reload`.
The registry is a SQL store, whose conditional patch is one statement. An id is the
second of its rotation, so id and age are one number. The reload that verifying a
signature with an unknown, younger key causes runs beside a rotation of the same
instance and is split: `CheckKeyAsks` is the moment the registry answers,
`CheckKeyLoads` the moment the answer arrives, which may be after a younger load or
a rotation, and sets the instance back. A request may fail (`RequestFails`,
`InitLoadFails`: `load()` swallows the error, so `init()` rotates), or be executed
with its answer lost (`PutAnswerLost`, `PatchAnswerLost`). `issued` and `anomaly` are
history: the latter names the three races after which a signature may be refused.

### AtomicStore and Repository

`AtomicStore` is the interface of repository.ts taken at its word: "optimistic
locking", "atomic" increments. An item is the attribute conditions are about (`rev`),
a counter, and a collection (`list`), of which each element is the field that
conditions on it are about. Every operation has the condition its documentation gives
it (`Conditions`, one of which is none): updates, patches, increments,
`removeAttribute`, deletions, and pushing, replacing and deleting the element at an
index of the collection. In `Repository` an operation is its `await this.get()`
(`Begin`, which hands out a copy) and what follows (`Finish`: the condition on the copy,
then `storage.set` of the whole copy). `Satisfied` is what the code accepts: it ignores
the condition of the increments and of `removeAttribute`, and takes 0 for no condition
on an element; `Delete` ignores its condition too. An operation that succeeded against
its condition leaves its caller "ignored". Under the refinement a deletion that ignores
its condition is one without condition. An element written beyond the end of the
collection, which would leave holes, is excluded. `upsert` is split at `exists()`.
`iterate()` reads the keys page by page. `stale`, `kept` and `deleted` are history.

### FileQueue

`ListFiles`, `StatFiles`, `UnlinkExpired`, `LockFirst`, `ReadFile`, then `UnlinkFile` and
`UnlinkLock` are the synchronous calls of `receiveMessage` and `deleteMessage`. Within
a process nothing comes between them (`Runs`); other processes do. A lock is written
without exclusive creation, keeps its date of birth if it exists, and may be removed
by a process that found an older one expired. Under the refinement a message is
leased while its lock is fresh, and available or deleted otherwise.

### FileBinary

A request is split at the stream of the content, at the patch of the object and at
the event of the deletion. Each of them may reject: `WriteFails`; `LinkRejects`
(`uploadSuccess` refuses the description of the file, or its patch rejects, after the
marker was touched) and `RedirectRejects` (the same before any folder is made);
`UnlinkRejects`; and `DeleteEventRejects`, which comes after the patch and before the
clean-up. `folder` is what the disk holds, `linked`
what the repository says, and `disturbed` (history) the contents met by one of the eight
events that the comment of `StoredWhileUsed` lists. `Files(f) = 3` is the code's
`files.length == 3`, evaluated on the list read before the marker is unlinked.

### SocketPubSub and Cluster

A peer is in `phase` "looking", "refused" (it found no broker), "binding", "again"
(`EADDRINUSE`), "up", "cut", "failed" or "closing"; the socket file `path` names a
listener, nobody, or a crashed one (`Stale`). Connections are FIFO both ways and end
with `link = "lost"`. `usurped` is history: somebody unlinked the file of an open
listener.

`Cluster` counts time in ticks; `Tick` waits for timers that are due and for messages
that are `MaxDelay` old, so neither is ever late. `net` is one FIFO channel per pair.
Restarts keep the name of a node, as the machine id does. An event that a node
receives is emitted locally, where the listener that forwards events hears it:
`Skips` is the test that stops it there.

### Throttler, Debouncer, MethodCache, CoreLifecycle

`Throttler`: `add()` calls the function of an item before it stores the promise, so an
action goes from one call of a function to the next, and `calling` is the stack of the
functions that have not returned. One of `Reentrants` may call the throttler meanwhile:
`queue()`, `setConcurrency()` and `wait()` are enabled while it is on top of the stack
(`MayCall`), and `add()` then finds the same item again. `Add` is one call of it,
`AddsFrom` the loop of `setConcurrency()`, which goes on when the function returns
(`next`). A task that is called twice has two calls in `held`, and the second `Finally`
splices at -1 (`Spliced`). A promise that settles gives its slot back one microtask
later ("settling"). `failed` is what a function rejected with, reduced to an error or a
falsy value. A function that throws before it returns a promise keeps its slot for good:
`thrown` counts them; `reentered` tells that a function was called during another one's
call. Both are history.

`Debouncer`: all timeouts are kept, also those the code has forgotten. `maxWait`,
`leading` and `trailing` are chosen in the initial state. `handled` (the last call passed
on or cancelled) and `oldest` (since when the one after it waits) are history.

`MethodCache`: an entry holds the promise of a call or its settled value, by the name
of the call; the Map is the set `entries`, in which each entry carries its place in
the order of insertion, which is the order of eviction. `deleteCachedMethod` takes a key
that ends in "$" for a prefix. Keys not being strings here, two constants say what that
takes: `Begins`, for each method the keys that begin with its name (`clearAll`), and
`Swept`, for each key those its deletion takes - itself, unless it is that of a call
without arguments under the simple hash strategy. `Deletes` is every deletion by
`deleteCachedMethod`, those of a call that fails or whose result is not to be cached
included. `epoch`, `late` and `swept` (the keys whose entry was deleted in place of
another one's) are history.

`CoreLifecycle`: `resolve()` is synchronous without configuration service, and its
recursion is the explicit `stack`, so any dependency graph, cycles included, is
explored. The sort that puts stores first is a permutation that keeps the order of
equals, and `NeededBy` is the least set closed under the dependencies, so that neither
needs recursion. `Kind` is `isRoot` of the State decorator: only a call that finds the counter
at 0 moves the state. `Stop` may come while `init()` runs, which is what the SIGINT
handler of runApplication does. `CancelRejects` is the `cancel()` of an interruptable that
rejects in the Promise.all of `stop()`: the call is over, the services go on stopping.

### ThreeWayMerge

A document is the set of its facts: a path with the scalar, object or array that is
there, and for an array with identities which element is `Before` which, since `deepEqual`
looks at the order too. An absent value is the empty set. The recursion of `mergeAt` is
the set `Visited` of the paths it comes to, all of whose proper prefixes it went into
(`Descends`); at a leaf of it (`Leaves`) it returns one of the three values (`Outcome`)
and records a conflict where both sides `Differ`. An array that was itself merged has the
elements of ours first, then those that only theirs has (`MergedOrder`). A field that one
side has deleted and the other left as it was is not absent from the merged document but
set to undefined, which is a fact of its own (`DeletedFields`); so is what `resolve()`
writes for a side that has no value (`ValueOf`). `Resolve` is one iteration of
`resolve()`: inside an array (`CrossesArray`) the value is lost, or the call throws.

The reference does not follow the recursion: it expects what both sides kept or either
added, outside of the paths in dispute, and at a resolved path the value chosen; a field
set to undefined only where one side has deleted it; and of two elements that are in the
same order on both sides, that order.

## 3. The runs

| Run | Instance | Shows |
|---|---|---|
| `memory_queue` | 3 messages, one unreadable, 2 readers, timeouts, 1 lapse per message | TypeOK, ExclusiveClaim, FirstDeliveryInOrder, BlockedIsListed, refinement of AtLeastOnceQueue, no deadlock |
| `queue_consumers` | 3 messages, 3 loops, maxConsumers 2, no read timeout | ConsumersBounded, DeletedOnlyOnSuccess, SendWakesReader |
| `queue_consumers_live` | 2 messages, 2 loops, read timeout | EventuallyProcessed, ScalesDown |
| `queue_consumers_cancel` | as queue_consumers | finding: NoLaunchAfterCancel is violated |
| `store_persistence` | 2 keys, 2 streams, 2 values per key, 1 error, any number of crashes | OneTimerStream, SavedIsInFile, StopSavesAll, no deadlock |
| `store_persistence_live` | 1 value per key, 1 error | SavedUnlessWedged |
| `store_persistence_wedge` | no error | finding: EventuallySaved is violated |
| `key_rotation` | 3 instances, 3 seconds, 3 rotations, 1 crash, 1 request in error, fair | CurrentHasKey, AcceptedByAll, KeysAreKept, FirstKeyUnlessFault |
| `key_rotation_crash` | 2 instances, 1 crash | finding: FirstKeyIsCreated is violated |
| `utilities` | see below | SlotsAreUsed, ReleasedWhenDrained, TasksAreRun (Throttler); PassedOnInTime (Debouncer); ComputedOnce, StaleOnlyIfLate (MethodCache); InitAfterDependencies, StatesFollowCalls (CoreLifecycle); MergedAsReference (ThreeWayMerge) |
| `backends` | see below | AtomicUnlessExcepted, IterationIsComplete (Repository); StoredWhileUsed (FileBinary); FolderIsAtLeastOnce (FileQueue); DispatchedAtMostOnce, OneHubInTheEnd (SocketPubSub); StableCluster, MembersConverge (Cluster) |
| `repository_locking` | 2 keys, 2 callers, 5 calls | finding: OptimisticLocking is violated |

Why the bounds are enough. Two readers suffice for two holders of one message, two
waiting entries and a stolen wake-up; three messages give an order to overtake and a
poisoned one to stand in between; one lapse puts a message back while its first
reader still works. Three loops with maxConsumers 2 leave a child outside the limit
to launch wrongly. Two streams are one of the timer and one of stop(), and would show
two of the timer; two values tell an old line from a new one. Three instances are
one that creates, one that merges over it and one that only watches; three seconds
and rotations give ids to be equal, older and younger; one error puts a lost answer
or a failed request anywhere in a rotation, next to a crash.

`utilities`: three tasks, of which one may throw and another call the throttler back, one
`wait()`, and a concurrency from 0 to 3, so that tasks queue, are called twice and taken
out of the queue by the end of another, and the throttler is full, closed and resized
inside a call; a debouncer of wait 2 with no
maxWait, one below and one above the wait, 5 ticks and 4 calls, which is two series
and what flush() left of the first; two keys of different methods, the name of one of
which begins with that of the other, three calls, at
most 2 entries, a time to live of 1 and one clear per key, so that a computation can
outlive its entry in each way; three services, one a store, under every dependency
graph; all documents of two fields, one of which may be an object, and all arrays of
up to two elements with identities, in any order, as base, ours and theirs.

`backends`: two keys, two callers and 4 calls interleave two operations with what comes
between them, and pages of one item give an iteration several pages; numbers up to 2 and
collections of up to 2 elements tell a condition that holds from one that does not, an
element from its neighbour and 0 from a condition that is looked at; two contents,
two objects and 4 requests, two at a time, with one crash; two messages, one of them
unreadable, two readers of one process and one of another, two expiries and one
crash; three peers, two events, one crash and one stop, so that a broker goes and the
two left race for the file; two nodes, one event, keep-alive 3, time to live 6, delay
up to 2, one loss and one crash. The components share nothing, so the runs explore
the sum of their states (about 1,015,000 and 827,000), not the product. The bounds
of these modules are named in their CONSTANTS as "bound".

The other bounds are `MaxLapses`,
`MaxPendingReads` (exact, see above), `MaxWrites`, `MaxErrors`, `MaxTime`, `MaxKeys`,
`MaxCrashes`, and the guard of `CallbackFails`: a callback fails on a message only as
often as its claim may still expire, which is the assumption "it does not fail for
ever" that `EventuallyProcessed` needs. Runs switch the deadlock check off where the
system may stop: a cancelled consumer whose messages are used up, and the clock,
keys and calls of the other components at their bounds.

Fairness. `QueueConsumers`: timers fire, resolved promises run their continuation and
a callback returns, so each loop, each timeout and each expiry is weakly fair;
nothing obliges anyone to send or cancel. `StorePersistence`: the timer fires and a
stream makes progress; crashing, stopping, failing and writing are free.
`KeyRotation`: an instance is started (again) and the requests it made are answered;
rotating again, verifying, failing and crashing are free. `Throttler`: a function
that is called returns or throws, its promise settles, and its `finally` runs
(`ThrottlerFairness` in `MCThrottler`); queueing, waiting and resizing are free, and
TasksAreRun assumes that the concurrency is above 0 again and again. `SocketPubSub`:
each peer goes on with its connect, bind or reconnection (the event loop of a live
process); sending, stopping and crashing are free. `Cluster`: the clock ticks, a
timer that is due fires, and a message that is not lost is handled; nothing obliges a
node to join.

The properties name their exceptions, and each exception is reached by the run: a
write based on an outdated copy (`StaleWrite`) and a condition that is not looked at
(`ConditionIgnored`) in Repository, an item deleted during an
iteration, the eight events of `disturbed` in FileBinary, a message locked twice by two
processes (`LocksTwice`), in the Throttler a function that throws or is called twice
because it called back, a failure in failFast mode (the tasks left are neither run nor
rejected), one with a falsy value (it releases the waits), and concurrency 0 releasing a
wait, in the cache a computation under way at a clear and a promise deleted in place of
another key's, a store that injects another kind of service, `init()` going on after
`stop()`, a `stop()` that an interruptable made reject, a conflict inside an array with
identities (resolving it changes nothing, or throws). In SocketPubSub it is `usurped`:
two peers find no broker, the first clears the file and binds, the second, refused
before that, clears the file of the first and binds too; both are brokers from then
on, with disjoint clients.

### What the violated runs show

* `NoLaunchAfterCancel` - the iteration of the parent under way when `cancel()`
  settles may still launch a child (queueservice.ts:179), out of reach of the hook
  that already ran; waiter.ts:245 promises that cancelling stops future iterations.
  It is one child at most (`OneLaunchAfterCancel`).
* `EventuallySaved` - a timer that fires during a save does not re-arm
  (memory.ts:302), and since its id is kept no later write arms one either. From then
  on nothing is saved before `stop()`. `SavedUnlessWedged` shows that this and a
  rejected persist() are the only ways to lose the promise.
* `FirstKeyIsCreated` - an instance that crashes between the init mark and its patch
  (cryptoservice.ts:512) leaves an entry on which every later `rotate()` fails its
  condition and which `init()` takes for loaded keys. Without a crash or a failed
  request the creation race always ends with a current key for good
  (`FirstKeyUnlessFault`).
* `OptimisticLocking` - `update()` and `patch()` check their condition on the copy that
  `get()` returned, before the await (models/src/repositories/memory.ts:95): two
  conditional calls both succeed, and an update may succeed on an item that is gone.
  `AtomicUnlessExcepted` shows that outdated copies and conditions that are not looked at
  are the only ways to lose atomicity, and `LockingFailsOnlyWhenStale` proves that the
  former are the only way to break this.

### Where the documentation says more than the code does

Six more statements of the documentation do not hold. The passing runs check what does
hold, with the disagreement as an exception; the configurations below, which are not
among the runs, state what the documentation says and give TLC's counterexample in a
second or two: `tlc -config <file>.cfg <module>`.

| Configuration, module | Statement | What the code does |
|---|---|---|
| `MCThrottlerFailFast`, `MCThrottler` | `PendingAreRejected` (throttler.ts:58) | the items still queued at a failure in failFast mode are neither run nor rejected; exception of `TasksAreRun` |
| `MCThrottlerFalsy`, `MCThrottler` | `ReleasedWhenEmpty` (throttler.ts:157) | a rejection with a falsy value resolves the waits with items in the queue (throttler.ts:175, 205); exception of `ReleasedWhenDrained` |
| `MCDebouncerMaxWait`, `MCDebouncer` | `DelayedAtMostMaxWait` (debounce.ts:20) | a call is delayed by `wait` when that is more than maxWait (debounce.ts:123); `PassedOnInTime` gives the limit that is kept, the larger of the two |
| `MCMethodCacheClear`, `MCMethodCache` | `DeletionIsSpecific` (cache.ts:627) | clearing a call without arguments deletes every entry that begins with the name of its method (cache.ts:188); exception of `ComputedOnce` |
| `MCThreeWayMergeSymmetry`, `MCThreeWayMerge` | `CleanMergesAreSymmetric` (versioning/DESIGN.md:275) | the elements of a merged array are in the order of ours (merge.ts:232); `MergedAsReference` claims only the orders both sides agree on |
| `MCRepositoryConditions`, `MCRepository` | `ConditionsAreChecked` (repository.ts:92, 202, 246, 270) | deletions, increments and removals ignore their condition, and 0 is none for an element (memory.ts:420, 487); exception `ConditionIgnored` of `AtomicUnlessExcepted` |

`ScalesDown` holds with a read timeout (`queue_consumers_live`) and only then:
`MemoryQueue` has no default one, and a child that waits on the empty queue without
timeout never learns that it should stop.

## 4. The proofs

TLAPS proves the following for every value of the constants. The hypotheses are the
named assumptions of the modules, which say that sets are finite, that bounds are
numbers and that the names of "nobody" or "nothing" are no members; the limits, times
and sizes of the code are left free. Three say more: `MaxPendingReads` is at least the
number of messages (which makes it exact, see above), there are slots for
maxConsumers - 1 children, and the debouncer's clock starts later than `wait` and
`maxWait` after 0 (it is Date.now()). Five theorems have a hypothesis of their own,
given below. Every safety invariant and every action property that a passing run
checks is the statement of a theorem, liveness excepted.

* `MemoryQueueProofs`. `TypeOK` is inductive. `ReadsInv` strengthens
  `BlockedIsListed`: a live entry belongs to a blocked reader, a reader has at most
  one, and a blocked reader that has none was left out when the list was at its
  bound, which since then only sends have shortened. `ClaimInv` strengthens
  `ExclusiveClaim`: a reader that waits holds nothing, a receipt's lapse count is at
  most the message's, and a message that nobody claims has no receipt of its present
  lapse in any hand - so a new receipt differs from all others. `OrderInv` adds that
  ranks are distinct and at most `sent`. `MemoryQueueIsAtLeastOnce` maps every
  action: a send to Send, `GetItem` to Lease, a throwing `GetItem` to LeaseLost, an
  expiry to Lapse, a deletion to Delete, and blocking, waking and timing out to
  stutters. `SendsWakeReaders` needs `WakeInv`: without timeouts no entry is ever dead,
  and `sent` counts the messages sent, so a blocked reader that was left out of the
  bounded list never sees another send. Its hypothesis `~ReadTimeout` is necessary:
  with timeouts, `shift()` may take an entry that a timed out read left behind.
  `NothingIsLost`: a message once sent leaves the queue only through the
  `deleteMessage` of a reader that was handed it, and never comes back
  (`KeptUntilDeleted`).
* `QueueConsumersProofs`. `ConsumersUseTheQueue`: every step of the loops is a step of
  the queue or leaves its variables alone, so `ExclusiveConsumers`,
  `ConsumersAreAtLeastOnce` and `SendsWakeConsumers` follow from the queue's theorems.
  `WorkInv` (a loop that works or acknowledges holds an item, and acknowledges only
  one on which the callback succeeded) gives `DeletionsFollowSuccess`. `FewConsumers`
  (the set never exceeds maxConsumers - 1, and contains every child whose promise
  has not settled) gives `ConsumersAreBounded`. `OneLaunchAfterCancel` bounds the
  finding `NoLaunchAfterCancel`: once the consumer is cancelled the parent's `shouldRun` stays
  false (`CancelledStops`), so that the iteration it is in, whose end may launch a
  child, is its last (`ParentIsOver`): one launch at most (`LaunchesOnceMore`).
* `StorePersistenceProofs`. `StreamsInv` adds to `TypeOK` that a closed slot is empty,
  that a process that is down has no stream and no timer, and that a stream of the
  timer implies `persistencePromise`, with at most one such stream: this gives
  `OneStreamOfTheTimer`. `SavesInv` adds what a save needs. A stream that knows of no
  other is the only one (`LoneIsLone`). No value in the map, a line or the file is
  ahead of the writes made to its key (`WritesCover`), so a later write is a greater
  value. And each key of a lone stream is where it should be (`KeyIsCarried`): still
  in the map while it is to be read, then in a line, then in the file, everywhere
  with the value it had at the start or a later one. At the end nothing is left to
  read or to write, so all keys are in the file: `SavedStaysInFile`,
  `StopSavesTheMap`.
* `KeyRotationProofs`. `Inv` adds to `TypeOK` and `CurrentHasKey` that an instance in
  the middle of a rotation carries an id and a key, and that an answer on its way to
  `checkKey()` had the key its current id names (`LoadingHasKey`): however late it is
  applied, it brings both. `PublishesKeepsInv` covers the patch whose answer arrives
  and the one whose answer is lost. This gives `CurrentsHaveKeys` and
  `KeysAreNeverLost`, for any number of failed requests and late answers.
  `AcceptedInv` says which keys an instance may lack: as long as none of the three
  anomalies happened, the registry's current key is the newest one published
  (`NewestIsCurrent`); an instance, and an answer on its way to it, holds a copy of the
  registry's keys up to its own current id, and only younger ones are missing
  (`InstancesCopy`), which are the ones `checkKey()` asks for; and a rotation under way
  drew an id no older than the key it replaces (`DrawnInOrder`). From it, `SignaturesAreAccepted`.
* `StorageProofs`. `RepositoryInv` ties each call to the Map: a copy that is not
  marked stale equals the stored item (`CopiesAreCurrent`), so its write is a step of
  `AtomicStore` unless its condition was not looked at, and `RepositoryIsAtomic` follows
  with these two exceptions; and while nothing is deleted, the page that an
  iteration reads begins the order of insertion, and the keys it has yielded begin that
  page (`IterationsFollowOrder`), which gives `IterationsAreComplete` for every size of a
  page. `RemoveAtProperties` and the two
  lemmas after it say what taking a key out of the order, or appending one, preserves.
  `LockingFailsOnlyWhenStale`: in a behaviour without `StaleWrite` `OptimisticLocking`
  holds, so the finding of that name has no other cause; and without `ConditionIgnored`
  either, the repository is the atomic store. `FileQueueInv`: every message that a reader has seen or holds
  was sent (`OnlySent`), a reader past its scan has one (`HandsAreFull`), and what a scan
  has found is still there and free, unless another process got ahead (`ScansHold`). `LockRefines` maps the creation of a lock to Lease, and
  `FolderStep` every other system call to Lapse, Delete or a stutter
  (`FileQueueIsAtLeastOnce`, but for `LocksTwice`). `FolderOfOneProcess`, whose
  hypothesis is that all readers are in one process, has no exception: nobody
  overtakes a scan there (`NothingIsLate`). `BinaryInv` speaks of each content
  apart (`HashInv`), as long as none of the eight events disturbed it: its markers are
  those of the objects that use it and of the requests between marker and patch,
  or between patch and cleaning (`MarkersFit`), it is complete unless the one request that writes it is not done
  (`ContentIsWritten`, `OneWriter`), and a request that cleans up has unlinked its
  marker (`CleanedIsUnlinked`). `OnlyOneHashMoves` leaves one content per step to look
  at. This gives `ContentsAreStoredWhileUsed`, for any number of requests at a time.
* `MessagingProofs`. `SocketInv`: a connection that is gone carries nothing
  (`LinksFit`), and along the way of an event - from its publisher up to the broker, down
  to each client - the numbers of a publisher's events increase, lie above the last one
  dispatched and below the last one sent (`FramesInOrder`). So a dispatch is one of the
  contract: `SocketDispatchesAtMostOnce`. `SocketControl` adds the types of phases and
  connections (`SocketTypeCorrect`). `OneBrokerAtATime` is the safety half of `OneHubInTheEnd`: unless
  the file of an open listener was removed (`usurped`), that listener is the only one,
  and an intact connection leads to one that is open (`BrokersFit`), so at every moment
  the peers that are up share a broker. `ClusterInv`: an event on its way to a node is there
  once, and that node has not seen it (`EventsFit`, which gives
  `EventsAreDispatchedOnce`); and while nothing is lost, of each member that a node
  knows, either the next keep-alive is due soon enough or a message sent soon enough is
  on its way (`HeardInTime`), which makes `ClusterIsStable`. The latter is stated under
  `KeepAlive + MaxDelay < Ttl`; the code's default ttl is twice the keep-alive period,
  so this says that a message takes less than a period.
* `UtilitiesProofs`. `ThrottlerInv`: the number in flight is that of the calls that hold a
  slot and of those that threw, the functions being called are those of queued items whose
  turn it is, and the next call has a slot of its own (`SlotsFit`); as long as no function
  was called back into, one is called at a time and every item that is not settled is in
  the queue with one call (`Undisturbed`); and no item waits beside a free slot, but for
  what the loop under way will still call (`NoneWaits`). `AddKeepsInv` says that of one
  call of `add()` and `AddsFromKeepsInv` of the loop, for every state that a step may
  leave before it; `SplicedFacts` covers the index -1. This gives `SlotsAreAccountedFor`
  and `WaitsAreDrained`. `DebouncerInv`: no timeout is further away than
  `wait` allows (`TimersAreNear`), and a pending call has one among them,
  with the time that is left to it (`PendingIsTimed`), and it is the last call, kept until
  it is passed on (`NothingIsDropped`): `PendingCallsAreInTime`, whatever
  timeouts were forgotten. `CacheInv`: entries have distinct keys and places
  (`MapFits`), each belongs to a call (`EntriesFit`, `CallsFit`), and the promise of a
  call in progress is in the Map unless a clear, the deletion of another key, the time to
  live or an eviction can have taken it (`PromisesAreKept`): `CallsShareComputations`, `ClearedResultsAreGone`. `LifecycleInv`:
  the counters are those of the calls under way (`NestingCounts`), `init()` is at one
  service at a time (`InitInTurn`), `stop()` comes after it unless it overlapped
  (`StopIsAlone`, which has nothing to say of the services once a `stop()` has rejected),
  and the states are those of the outermost calls (`StatesShow`):
  `StatesAreTruthful`. `OrderInv` adds that `stack` and `initOrders` follow the
  recursion of getService() (`OrdersFit`), that a service in `initOrders` comes after
  those it needs but for cycles and stores (`DependenciesFirst`), and that `init()`
  walks the list (`InitialisedInOrder`): `DependenciesInitFirst`, for every dependency
  graph. `MergeInv`, for all documents that are well formed (`MergeAssumption`): the
  paths in dispute are never one inside the other (`ConflictsFit`), the facts outside of
  them are those expected (`AgreesOutside`), a field is undefined only if one side deleted
  it (`UndefinedIsDeleted`), an order on which both sides agree is kept
  (`AgreedOrderIsKept`), and a resolved path has what was chosen
  (`ChosenIsThere`). Instead of an induction over documents, each fact is looked at on
  the way to its path: the shortest prefix that `mergeAt` does not go into is the one
  leaf above it (`LeafOrVisited`, `OneLeaf`), and the outcome there settles the fact
  (`MergeIsExpected`): `MergesAreAsReference`.
* The two compositions. `UtilitiesComposed` and `BackendsComposed`: every behaviour of
  `MCUtilities` and `MCBackends` is one of each of their five components, so every
  theorem above holds of what the runs explore; `UtilitiesTypesCorrect` and
  `BackendsTypesCorrect` put the types together (`TypesOK`).

The five hypotheses: no read timeout in `SendsWakeReaders` and `SendsWakeConsumers`, the
times of `ClusterIsStable`, one process in `FolderOfOneProcess`, no stale write in
`LockingFailsOnlyWhenStale`.

Model-checked only is liveness, since fairness and ENABLED are out of reach of the
provers: `EventuallyProcessed`, `ScalesDown`, `SavedUnlessWedged`,
`FirstKeyUnlessFault`, `TasksAreRun`, `OneHubInTheEnd`, `MembersConverge`.

## 5. What is left out of the modelled parts

Queues that return several messages per receive; the length of the back-off;
`cancelAll()`; `__clean()`; the content of messages. Bytes, compression and
encryption of the persisted file, and reading a damaged one. In KeyRotation, answers
of the requests of one rotation arrive before its next request, as it awaits them; one
load of `checkKey()` per instance is on its way at a time; the registry on a
MemoryRepository, whose conditional patch is not atomic, is not explored. Signing and
encryption are functions of the keys.

Sorted queries, filters, links and serialization of the repositories, and elements written
beyond the end of a collection. Collections of
binaries: `uploadSuccess` (core/src/services/binary.ts:1388) rebuilds the collection
from the copy in memory and patches it, which is the outdated copy of `StaleWrite`
again, on top of hydrated arrays whose identity the model does not have. cascadeDelete
and downloads. Synchronous methods and statistics of the cache; the
configuration service that the Core initialises first. Framing, failing callbacks and
other errors of connect() in SocketPubSub; node data, metrics and alerts of Cluster.
Line merges (an external diff3), git markers and deltas of versioning. The parts
marked "not modelled" above hold no protocol of their own between two requests, or are
build tooling, presentation, generated parsers or wrappers of services outside this
repository; `PROJECT.json` has the reason for each.

## 6. Plan

The components that keep state between two requests are modelled, and their safety is
proved. What is left:

1. theorems about the contracts alone, to be inherited through the refinements, as that
   an atomic store never loses an increment;
2. the parts of the code that have no state of their own between two requests but
   algorithms worth a reference: dirty tracking and relations of models, filters of
   queries and CloudEvents, the order in which the application loader merges
   configurations;
3. the Listener and pool of PostgreSQL;
4. collections of binaries, and conditional patches of a registry on a
   MemoryRepository, which are not atomic.
