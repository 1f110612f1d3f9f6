-------------------------- MODULE StorePersistence --------------------------
(***************************************************************************)
(* The file behind a MemoryStore (packages/core/src/stores/memory.ts) when *)
(* `persistence` is configured with a delay: a write arms a timer, the     *)
(* timer streams the map to the file, stop() streams it once more, and     *)
(* init() of the next process reads it back.  The process may crash at     *)
(* any point.                                                              *)
(*                                                                         *)
(* A value is the number of the write that produced it.  The file is kept  *)
(* per key instead of per byte: two streams that overlap mix whole lines,  *)
(* which is kinder than the real file, where they may also damage a line.  *)
(* Compression and encryption, which make half a file unreadable, are off. *)
(***************************************************************************)
EXTENDS Integers, FiniteSets

CONSTANTS
  Keys,
  Streams,    \* slots for persist() calls in flight
  MaxWrites,  \* bound: values written to a key
  MaxErrors   \* bound: streams that end with an error

ASSUME PersistenceAssumption ==
  /\ IsFiniteSet(Keys)
  /\ IsFiniteSet(Streams)
  /\ MaxWrites \in Nat \ {0}
  /\ MaxErrors \in Nat

VARIABLES
  process,             \* "running", "stopping", "stopped" or "down"
  storage,             \* the map: key to value
  writes,              \* history: values given to each key so far
  persistenceTimeout,  \* "none", "armed", or "fired" for the id of a past timer
  persistencePromise,  \* a timer's persist() is held here
  stream,              \* each persist() in flight
  file,                \* what the file holds for each key
  errors,              \* streams that failed so far
  saved                \* history: the least value the file must hold, see Saved

processVars == <<process, storage, persistenceTimeout, persistencePromise>>
historyVars == <<writes, errors, saved>>
vars == <<processVars, stream, file, historyVars>>

Absent == 0
Undefined == -1     \* the text "undefined", for a key that was deleted meanwhile

Values == Undefined..MaxWrites
NoValues == [k \in Keys |-> Absent]

Idle == [by |-> "nobody", opened |-> FALSE, todo |-> {}, out |-> NoValues,
         start |-> NoValues, alone |-> TRUE]

\* todo and out are the keys still to read and the lines read but not written;
\* start and alone are history: the map when the stream began, with Undefined for
\* a key deleted since, and whether no other stream was open meanwhile.
StreamType ==
  [by : {"nobody", "timer", "stop"}, opened : BOOLEAN, todo : SUBSET Keys,
   out : [Keys -> Values], start : [Keys -> Values], alone : BOOLEAN]

FieldsOK ==
  /\ process \in {"running", "stopping", "stopped", "down"}
  /\ storage \in [Keys -> Values]
  /\ writes \in [Keys -> 0..MaxWrites]
  /\ persistenceTimeout \in {"none", "armed", "fired"}
  /\ persistencePromise \in BOOLEAN
  /\ stream \in [Streams -> StreamType]
  /\ file \in [Keys -> Values]
  /\ errors \in 0..MaxErrors
  /\ saved \in [Keys -> Values]

Open(s) == stream[s].by # "nobody"

\* A slot that is not open is empty
ClosedIsIdle == \A s \in Streams : ~Open(s) => stream[s] = Idle

\* Type correctness: a persist() that is over, however it ended, leaves neither
\* an open file nor a line that is still to be written.
TypeOK == FieldsOK /\ ClosedIsIdle

Init ==
  /\ process = "running"
  /\ storage = NoValues
  /\ writes = NoValues
  /\ persistenceTimeout = "none"
  /\ persistencePromise = FALSE
  /\ stream = [s \in Streams |-> Idle]
  /\ file = NoValues
  /\ errors = 0
  /\ saved = NoValues

Up == process # "down"

----------------------------------------------------------------------------
(* Writes.  Every set() arms the timer unless persistenceTimeout holds an  *)
(* id; delete() of the map is not hooked.                                  *)

\* Mutant: a write during a persist() arms no timer
SetRelies(k) ==
  /\ Up
  /\ writes[k] < MaxWrites
  /\ writes' = [writes EXCEPT ![k] = @ + 1]
  /\ storage' = [storage EXCEPT ![k] = writes[k] + 1]
  /\ persistenceTimeout' = IF persistenceTimeout = "none" /\ ~persistencePromise
                           THEN "armed" ELSE persistenceTimeout
  /\ UNCHANGED <<process, persistencePromise, stream, file, errors, saved>>

Set(k) ==
  /\ Up
  /\ writes[k] < MaxWrites
  /\ writes' = [writes EXCEPT ![k] = @ + 1]
  /\ storage' = [storage EXCEPT ![k] = writes[k] + 1]
  /\ persistenceTimeout' = IF persistenceTimeout = "none" THEN "armed" ELSE persistenceTimeout
  /\ UNCHANGED <<process, persistencePromise, stream, file, errors, saved>>

Delete(k) ==
  /\ Up
  /\ storage[k] # Absent
  /\ storage' = [storage EXCEPT ![k] = Absent]
  /\ stream' = [s \in Streams |->
                  IF Open(s) THEN [stream[s] EXCEPT !.start[k] = Undefined]
                  ELSE stream[s]]
  /\ UNCHANGED <<process, persistenceTimeout, persistencePromise, file, historyVars>>

----------------------------------------------------------------------------
(* persist(): list the keys, open the file, copy the lines *)

\* Mutant: only the keys that changed are streamed
BeginWithChanges(s, who) ==
  /\ ~Open(s)
  /\ persistenceTimeout' = "none"
  /\ stream' =
       [t \in Streams |->
          IF t = s
          THEN [by |-> who, opened |-> FALSE,
                todo |-> {k \in Keys : storage[k] \notin {Absent, file[k]}},
                out |-> NoValues,
                start |-> storage, alone |-> \A o \in Streams : ~Open(o)]
          ELSE IF Open(t) THEN [stream[t] EXCEPT !.alone = FALSE]
          ELSE stream[t]]

Begin(s, who) ==
  /\ ~Open(s)
  /\ persistenceTimeout' = "none"
  /\ stream' =
       [t \in Streams |->
          IF t = s
          THEN [by |-> who, opened |-> FALSE,
                todo |-> {k \in Keys : storage[k] # Absent}, out |-> NoValues,
                start |-> storage, alone |-> \A o \in Streams : ~Open(o)]
          ELSE IF Open(t) THEN [stream[t] EXCEPT !.alone = FALSE]
          ELSE stream[t]]

\* Mutant: the file is opened without truncating it
OpenFileKeepsLines(s) ==
  /\ Open(s)
  /\ ~stream[s].opened
  /\ stream' = [stream EXCEPT ![s].opened = TRUE]
  /\ UNCHANGED <<file, processVars, historyVars>>

\* createWriteStream truncates the file when it opens it
OpenFile(s) ==
  /\ Open(s)
  /\ ~stream[s].opened
  /\ stream' = [stream EXCEPT ![s].opened = TRUE]
  /\ file' = NoValues
  /\ UNCHANGED <<processVars, historyVars>>

\* _read of the writer: a key of the list, with its value of this moment
ReadLine(s, k) ==
  /\ k \in stream[s].todo
  /\ stream' = [stream EXCEPT ![s].todo = @ \ {k},
                              ![s].out[k] = IF storage[k] = Absent THEN Undefined ELSE storage[k]]
  /\ UNCHANGED <<processVars, file, historyVars>>

WriteLines(s) ==
  /\ stream[s].opened
  /\ stream[s].out # NoValues
  /\ file' = [k \in Keys |-> IF stream[s].out[k] # Absent THEN stream[s].out[k] ELSE file[k]]
  /\ stream' = [stream EXCEPT ![s].out = NoValues]
  /\ UNCHANGED <<processVars, historyVars>>

\* A stream nobody overlapped answers for the map it started from; after an
\* overlap nothing is promised of the file.
Saved(s) == IF stream[s].alone THEN stream[s].start ELSE NoValues

Finish(s) ==
  /\ stream[s].opened
  /\ stream[s].todo = {}
  /\ stream[s].out = NoValues
  /\ stream' = [stream EXCEPT ![s] = Idle]
  /\ saved' = Saved(s)
  /\ persistencePromise' = (persistencePromise /\ stream[s].by # "timer")
  /\ process' = IF stream[s].by = "stop" THEN "stopped" ELSE process
  /\ UNCHANGED <<storage, persistenceTimeout, file, writes, errors>>

\* Mutant: the file is opened with autoClose off, so that an error leaves it open
FailLeavesOpen(s) ==
  /\ Open(s)
  /\ errors < MaxErrors
  /\ errors' = errors + 1
  /\ stream' = [stream EXCEPT ![s].by = "nobody"]
  /\ saved' = NoValues
  /\ process' = IF stream[s].by = "stop" THEN "stopped" ELSE process
  /\ UNCHANGED <<storage, persistenceTimeout, persistencePromise, file, writes>>

\* The write stream reports an error: persist() rejects, and the timer that
\* awaited it does not reach the line that clears persistencePromise.  Nobody
\* handles that rejection: the process lives on when its host listens to
\* unhandledRejection, and otherwise the next step is Crash.
Fail(s) ==
  /\ Open(s)
  /\ errors < MaxErrors
  /\ errors' = errors + 1
  /\ stream' = [stream EXCEPT ![s] = Idle]
  /\ saved' = NoValues
  /\ process' = IF stream[s].by = "stop" THEN "stopped" ELSE process
  /\ UNCHANGED <<storage, persistenceTimeout, persistencePromise, file, writes>>

----------------------------------------------------------------------------
(* The timer, stop(), the end of the process and init() of the next one *)

\* Mutant: the timer does not look at persistencePromise
TimerPersistsAlways ==
  /\ persistenceTimeout = "armed"
  /\ persistencePromise' = TRUE
  /\ \E s \in Streams : Begin(s, "timer")
  /\ UNCHANGED <<process, storage, file, historyVars>>

TimerPersists ==
  /\ persistenceTimeout = "armed"
  /\ ~persistencePromise
  /\ persistencePromise' = TRUE
  /\ \E s \in Streams : Begin(s, "timer")
  /\ UNCHANGED <<process, storage, file, historyVars>>

\* "wait for it to finish": ??= does nothing, persistenceTimeout still holds the
\* id of the very timer that fires
TimerWaits ==
  /\ persistenceTimeout = "armed"
  /\ persistencePromise
  /\ persistenceTimeout' = "fired"
  /\ UNCHANGED <<process, storage, persistencePromise, stream, file, historyVars>>

Timer == TimerPersists \/ TimerWaits

Stop ==
  /\ process = "running"
  /\ process' = "stopping"
  /\ \E s \in Streams : Begin(s, "stop")
  /\ UNCHANGED <<storage, persistencePromise, file, historyVars>>

Crash ==
  /\ Up
  /\ process' = "down"
  /\ storage' = NoValues
  /\ persistenceTimeout' = "none"
  /\ persistencePromise' = FALSE
  /\ stream' = [s \in Streams |-> Idle]
  /\ saved' = IF \E s \in Streams : stream[s].opened THEN NoValues ELSE saved
  /\ UNCHANGED <<file, writes, errors>>

Restart ==
  /\ process = "down"
  /\ process' = "running"
  /\ storage' = file
  /\ UNCHANGED <<persistenceTimeout, persistencePromise, stream, file, historyVars>>

StreamStep(s) ==
  \/ OpenFile(s)
  \/ \E k \in Keys : ReadLine(s, k)
  \/ WriteLines(s)
  \/ Finish(s)

Next ==
  \/ \E k \in Keys : Set(k) \/ Delete(k)
  \/ \E s \in Streams : StreamStep(s) \/ Fail(s)
  \/ Timer
  \/ Stop
  \/ Crash
  \/ Restart

\* Timers fire and streams make progress while the process runs
Fairness ==
  /\ WF_vars(Timer)
  /\ \A s \in Streams : WF_vars(StreamStep(s))

Spec == Init /\ [][Next]_vars

FairSpec == Spec /\ Fairness

----------------------------------------------------------------------------
(* Safety *)

TimerStreams == {s \in Streams : stream[s].by = "timer"}

\* The timer never starts a second stream while its first one is open
\* (persistencePromise is what prevents it); only stop() can overlap it.
OneTimerStream == Cardinality(TimerStreams) <= 1

\* What a persist() that ran alone has saved can be read back: as long as no new
\* stream opened the file, the file holds, for every key of the map at the start
\* of that persist() and not deleted during it, that value or a later one.
SavedIsInFile ==
  (\A s \in Streams : ~stream[s].opened) => \A k \in Keys : saved[k] > 0 => file[k] >= saved[k]

\* After stop() has completed, with no persist() of the timer in flight when it
\* began, the file is the map: deletions included, unless somebody wrote since.
StopSavesAll ==
  [][\A s \in Streams :
       /\ stream[s].by = "stop" /\ stream[s].alone /\ Finish(s)
       /\ stream[s].start = storage
       => file = storage]_vars

----------------------------------------------------------------------------
(* Liveness *)

Unsaved(k, v) == process = "running" /\ storage[k] = v /\ v > 0

\* Persistence has stopped for good: the id of a fired timer is kept, or the
\* promise of a failed persist() is.
Wedged ==
  \/ persistenceTimeout = "fired"
  \/ persistencePromise /\ TimerStreams = {}

\* A value that stays in the map reaches the file, unless the process stops or
\* persistence is wedged: nothing else can keep a write from being saved.
SavedUnlessWedged ==
  \A k \in Keys : \A v \in 1..MaxWrites :
    Unsaved(k, v) ~> file[k] = v \/ ~Unsaved(k, v) \/ Wedged

\* "By default only save once every 1s if modified", "If we are already
\* persisting, wait for it to finish": a value that stays in the map is saved.
EventuallySaved ==
  \A k \in Keys : \A v \in 1..MaxWrites :
    Unsaved(k, v) ~> file[k] = v \/ ~Unsaved(k, v)
=============================================================================
