----------------------- MODULE StorePersistenceProofs -----------------------
(***************************************************************************)
(* What holds of the persistence of a MemoryStore for any keys, streams,   *)
(* writes and errors.                                                      *)
(***************************************************************************)
EXTENDS StorePersistence, FiniteSetTheorems, TLAPS

----------------------------------------------------------------------------
(* The inductive invariant, by parts *)

\* A process that is down has no stream and no timer
DownIsQuiet ==
  process = "down" => persistenceTimeout = "none" /\ \A s \in Streams : ~Open(s)

\* A stream of the timer is the one persistencePromise holds
TimerHoldsPromise ==
  /\ \A s \in TimerStreams : persistencePromise
  /\ \A s, t \in TimerStreams : s = t

\* A stream that knows of no other is the only one
LoneIsLone ==
  \A s, t \in Streams : Open(s) /\ stream[s].alone /\ Open(t) => s = t

\* No value is ahead of the writes that were made to its key
WritesCover(k) ==
  /\ storage[k] <= writes[k]
  /\ file[k] <= writes[k]
  /\ \A s \in Streams : stream[s].start[k] <= writes[k] /\ stream[s].out[k] <= writes[k]

ValuesAreWritten == \A k \in Keys : WritesCover(k)

\* v carries what a save owes to k: the value of the start or a later one, and
\* exactly that of the start when the map has not changed since
Carries(s, k, v) ==
  /\ stream[s].start[k] > 0 => v >= stream[s].start[k]
  /\ storage[k] = stream[s].start[k] => v = stream[s].start[k]

\* Where that value is: in the map while k is to be read, then in a line, then in
\* the file.  A key that has no line was not in the map.
KeyIsCarried(s, k) ==
  /\ k \in stream[s].todo =>
       /\ stream[s].start[k] # Absent
       /\ stream[s].out[k] = Absent
       /\ Carries(s, k, storage[k])
  /\ stream[s].out[k] # Absent => Carries(s, k, stream[s].out[k])
  /\ k \notin stream[s].todo /\ stream[s].out[k] = Absent =>
       Carries(s, k, IF stream[s].opened THEN file[k] ELSE Absent)

LoneCarriesAll ==
  \A s \in Streams : Open(s) /\ stream[s].alone => \A k \in Keys : KeyIsCarried(s, k)

StreamsInv ==
  /\ FieldsOK
  /\ ClosedIsIdle
  /\ DownIsQuiet
  /\ TimerHoldsPromise

SavesInv ==
  /\ StreamsInv
  /\ LoneIsLone
  /\ ValuesAreWritten
  /\ LoneCarriesAll
  /\ SavedIsInFile

----------------------------------------------------------------------------
(* Types *)

LEMMA Constants ==
  /\ MaxWrites \in Nat \ {0}
  /\ Values \subseteq Int
  /\ Absent \in Values /\ Undefined \in Values
  /\ \A n \in 0..MaxWrites : n \in Values
  /\ NoValues \in [Keys -> Values]
  /\ NoValues \in [Keys -> 0..MaxWrites]
  /\ Idle \in StreamType
BY PersistenceAssumption DEF Values, Absent, Undefined, NoValues, Idle, StreamType

\* The fields of a stream
LEMMA StreamFields ==
  ASSUME FieldsOK, NEW s \in Streams
  PROVE  /\ stream[s] \in StreamType
         /\ stream[s].by \in {"nobody", "timer", "stop"}
         /\ stream[s].opened \in BOOLEAN
         /\ stream[s].todo \in SUBSET Keys
         /\ stream[s].out \in [Keys -> Values]
         /\ stream[s].start \in [Keys -> Values]
         /\ stream[s].alone \in BOOLEAN
<1>1. stream[s] \in StreamType
  BY DEF FieldsOK
<1> QED
  BY <1>1 DEF StreamType

LEMMA SetType == ASSUME FieldsOK, NEW k \in Keys, Set(k) PROVE FieldsOK'
<1>1. writes[k] + 1 \in 0..MaxWrites
  BY Constants DEF FieldsOK, Set
<1>2. writes' \in [Keys -> 0..MaxWrites] /\ storage' \in [Keys -> Values]
  BY <1>1, Constants DEF FieldsOK, Set
<1> QED
  BY <1>2 DEF FieldsOK, Set

LEMMA DeleteType == ASSUME FieldsOK, NEW k \in Keys, Delete(k) PROVE FieldsOK'
<1>1. storage' \in [Keys -> Values]
  BY Constants DEF FieldsOK, Delete
<1>2. ASSUME NEW s \in Streams PROVE [stream[s] EXCEPT !.start[k] = Undefined] \in StreamType
  BY StreamFields, Constants DEF StreamType
<1>3. stream' \in [Streams -> StreamType]
  BY <1>2, StreamFields DEF Delete
<1> QED
  BY <1>1, <1>3 DEF FieldsOK, Delete, historyVars

LEMMA BeginType ==
  ASSUME FieldsOK, NEW s \in Streams, NEW who \in {"timer", "stop"}, Begin(s, who)
  PROVE  stream' \in [Streams -> StreamType] /\ persistenceTimeout' = "none"
<1>1. [by |-> who, opened |-> FALSE,
       todo |-> {k \in Keys : storage[k] # Absent}, out |-> NoValues,
       start |-> storage, alone |-> \A o \in Streams : ~Open(o)] \in StreamType
  BY Constants DEF FieldsOK, StreamType
<1>2. ASSUME NEW t \in Streams PROVE [stream[t] EXCEPT !.alone = FALSE] \in StreamType
  BY StreamFields DEF StreamType
<1> QED
  BY <1>1, <1>2, StreamFields DEF Begin

LEMMA OpenFileType == ASSUME FieldsOK, NEW s \in Streams, OpenFile(s) PROVE FieldsOK'
<1>1. [stream[s] EXCEPT !.opened = TRUE] \in StreamType
  BY StreamFields DEF StreamType
<1>2. stream' \in [Streams -> StreamType]
  BY <1>1 DEF FieldsOK, OpenFile
<1>3. file' \in [Keys -> Values]
  BY Constants DEF OpenFile
<1> QED
  BY <1>2, <1>3 DEF FieldsOK, OpenFile, processVars, historyVars

\* The line that _read pushes for a key
Line(k) == IF storage[k] = Absent THEN Undefined ELSE storage[k]

LEMMA ReadLineFields ==
  ASSUME FieldsOK, NEW s \in Streams, NEW k \in Keys, ReadLine(s, k)
  PROVE  /\ Line(k) \in Values /\ Line(k) # Absent
         /\ stream' \in [Streams -> StreamType]
         /\ \A t \in Streams : t # s => stream'[t] = stream[t]
         /\ stream'[s].by = stream[s].by
         /\ stream'[s].opened = stream[s].opened
         /\ stream'[s].todo = stream[s].todo \ {k}
         /\ stream'[s].out = [stream[s].out EXCEPT ![k] = Line(k)]
         /\ stream'[s].start = stream[s].start
         /\ stream'[s].alone = stream[s].alone
<1>1. Line(k) \in Values /\ Line(k) # Absent
  BY Constants DEF FieldsOK, Line, Absent, Undefined
<1> DEFINE new == [stream[s] EXCEPT !.todo = @ \ {k}, !.out[k] = Line(k)]
<1>2. stream' = [stream EXCEPT ![s] = new]
  BY DEF ReadLine, Line
<1>3. /\ new.by = stream[s].by /\ new.opened = stream[s].opened
      /\ new.todo = stream[s].todo \ {k}
      /\ new.out = [stream[s].out EXCEPT ![k] = Line(k)]
      /\ new.start = stream[s].start /\ new.alone = stream[s].alone
  BY StreamFields DEF StreamType
<1>4. new \in StreamType
  BY <1>1, StreamFields DEF StreamType
<1> HIDE DEF new
<1>5. stream' \in [Streams -> StreamType] /\ stream'[s] = new
  BY <1>2, <1>4 DEF FieldsOK
<1> QED
  BY <1>1, <1>2, <1>3, <1>5 DEF FieldsOK

LEMMA ReadLineType ==
  ASSUME FieldsOK, NEW s \in Streams, NEW k \in Keys, ReadLine(s, k) PROVE FieldsOK'
BY ReadLineFields DEF FieldsOK, ReadLine, processVars, historyVars

LEMMA WriteLinesType == ASSUME FieldsOK, NEW s \in Streams, WriteLines(s) PROVE FieldsOK'
<1>1. [stream[s] EXCEPT !.out = NoValues] \in StreamType
  BY StreamFields, Constants DEF StreamType
<1>2. stream' \in [Streams -> StreamType]
  BY <1>1 DEF FieldsOK, WriteLines
<1>3. file' \in [Keys -> Values]
  BY StreamFields DEF FieldsOK, WriteLines
<1> QED
  BY <1>2, <1>3 DEF FieldsOK, WriteLines, processVars, historyVars

LEMMA FinishType == ASSUME FieldsOK, NEW s \in Streams, Finish(s) PROVE FieldsOK'
<1>1. stream' \in [Streams -> StreamType]
  BY Constants DEF FieldsOK, Finish
<1>2. saved' \in [Keys -> Values]
  BY Constants, StreamFields DEF Finish, Saved
<1> QED
  BY <1>1, <1>2 DEF FieldsOK, Finish

LEMMA FailType == ASSUME FieldsOK, NEW s \in Streams, Fail(s) PROVE FieldsOK'
<1>1. stream' \in [Streams -> StreamType] /\ saved' \in [Keys -> Values]
  BY Constants DEF FieldsOK, Fail
<1>2. errors' \in 0..MaxErrors
  BY PersistenceAssumption DEF FieldsOK, Fail
<1> QED
  BY <1>1, <1>2 DEF FieldsOK, Fail

LEMMA StepFieldsOK == FieldsOK /\ [Next]_vars => FieldsOK'
<1> SUFFICES ASSUME FieldsOK, [Next]_vars PROVE FieldsOK'
  OBVIOUS
<1>1. ASSUME NEW k \in Keys, Set(k) \/ Delete(k) PROVE FieldsOK'
  BY <1>1, SetType, DeleteType
<1>2. ASSUME NEW s \in Streams, StreamStep(s) \/ Fail(s) PROVE FieldsOK'
  BY <1>2, OpenFileType, ReadLineType, WriteLinesType, FinishType, FailType DEF StreamStep
<1>3. CASE TimerPersists
  <2>1. stream' \in [Streams -> StreamType] /\ persistenceTimeout' = "none"
    BY <1>3, BeginType DEF TimerPersists
  <2> QED
    BY <1>3, <2>1 DEF FieldsOK, TimerPersists, historyVars
<1>4. CASE TimerWaits
  BY <1>4 DEF FieldsOK, TimerWaits, historyVars
<1>5. CASE Stop
  <2>1. stream' \in [Streams -> StreamType] /\ persistenceTimeout' = "none"
    BY <1>5, BeginType DEF Stop
  <2> QED
    BY <1>5, <2>1 DEF FieldsOK, Stop, historyVars
<1>6. CASE Crash
  BY <1>6, Constants DEF FieldsOK, Crash
<1>7. CASE Restart
  BY <1>7 DEF FieldsOK, Restart, historyVars
<1>8. CASE UNCHANGED vars
  BY <1>8 DEF FieldsOK, vars, processVars, historyVars
<1> QED
  BY <1>1, <1>2, <1>3, <1>4, <1>5, <1>6, <1>7, <1>8 DEF Next, Timer

LEMMA InitFieldsOK == Init => FieldsOK
<1> SUFFICES ASSUME Init PROVE FieldsOK
  OBVIOUS
<1>1. 0 \in 0..MaxErrors
  BY PersistenceAssumption
<1> QED
  BY <1>1, Constants DEF Init, FieldsOK

----------------------------------------------------------------------------
(* What each action does to the fields of the streams *)

LEMMA DeleteFields ==
  ASSUME FieldsOK, NEW k \in Keys, Delete(k), NEW t \in Streams
  PROVE  /\ stream'[t].by = stream[t].by
         /\ stream'[t].opened = stream[t].opened
         /\ stream'[t].todo = stream[t].todo
         /\ stream'[t].out = stream[t].out
         /\ stream'[t].alone = stream[t].alone
         /\ Open(t) => stream'[t].start = [stream[t].start EXCEPT ![k] = Undefined]
         /\ ~Open(t) => stream'[t] = stream[t]
<1> DEFINE new == [stream[t] EXCEPT !.start[k] = Undefined]
<1>1. stream'[t] = IF Open(t) THEN new ELSE stream[t]
  BY DEF Delete
<1>2. /\ new.by = stream[t].by /\ new.opened = stream[t].opened
      /\ new.todo = stream[t].todo /\ new.out = stream[t].out
      /\ new.alone = stream[t].alone
      /\ new.start = [stream[t].start EXCEPT ![k] = Undefined]
  BY StreamFields DEF StreamType
<1> HIDE DEF new
<1> QED
  BY <1>1, <1>2

LEMMA BeginFields ==
  ASSUME FieldsOK, NEW s \in Streams, NEW who \in {"timer", "stop"}, Begin(s, who)
  PROVE  /\ ~Open(s)
         /\ stream'[s].by = who
         /\ stream'[s].opened = FALSE
         /\ stream'[s].todo = {k \in Keys : storage[k] # Absent}
         /\ stream'[s].out = NoValues
         /\ stream'[s].start = storage
         /\ stream'[s].alone <=> \A o \in Streams : ~Open(o)
         /\ \A t \in Streams \ {s} :
              /\ ~Open(t) => stream'[t] = stream[t]
              /\ stream'[t].by = stream[t].by
              /\ stream'[t].opened = stream[t].opened
              /\ Open(t) => ~stream'[t].alone
<1>1. ~Open(s)
  BY DEF Begin
<1> DEFINE new == [by |-> who, opened |-> FALSE,
                   todo |-> {k \in Keys : storage[k] # Absent}, out |-> NoValues,
                   start |-> storage, alone |-> \A o \in Streams : ~Open(o)]
<1>2. stream'[s] = new
  BY DEF Begin
<1>3. /\ stream'[s].by = who
      /\ stream'[s].opened = FALSE
      /\ stream'[s].todo = {k \in Keys : storage[k] # Absent}
      /\ stream'[s].out = NoValues
      /\ stream'[s].start = storage
      /\ stream'[s].alone <=> \A o \in Streams : ~Open(o)
  BY <1>2
<1> HIDE DEF new
<1>4. ASSUME NEW t \in Streams \ {s}
      PROVE  /\ ~Open(t) => stream'[t] = stream[t]
             /\ stream'[t].by = stream[t].by
             /\ stream'[t].opened = stream[t].opened
             /\ Open(t) => ~stream'[t].alone
  <2> DEFINE old == [stream[t] EXCEPT !.alone = FALSE]
  <2>1. stream'[t] = IF Open(t) THEN old ELSE stream[t]
    BY DEF Begin
  <2>2. old.by = stream[t].by /\ old.opened = stream[t].opened /\ old.alone = FALSE
    BY StreamFields DEF StreamType
  <2> HIDE DEF old
  <2> QED
    BY <2>1, <2>2
<1> QED
  BY <1>1, <1>3, <1>4

LEMMA OpenFileFields ==
  ASSUME FieldsOK, NEW s \in Streams, OpenFile(s)
  PROVE  /\ Open(s)
         /\ \A t \in Streams : t # s => stream'[t] = stream[t]
         /\ stream'[s].by = stream[s].by
         /\ stream'[s].opened
         /\ stream'[s].todo = stream[s].todo
         /\ stream'[s].out = stream[s].out
         /\ stream'[s].start = stream[s].start
         /\ stream'[s].alone = stream[s].alone
<1> DEFINE new == [stream[s] EXCEPT !.opened = TRUE]
<1>1. stream' = [stream EXCEPT ![s] = new] /\ Open(s)
  BY DEF OpenFile
<1>2. /\ new.by = stream[s].by /\ new.opened /\ new.todo = stream[s].todo
      /\ new.out = stream[s].out /\ new.start = stream[s].start
      /\ new.alone = stream[s].alone
  BY StreamFields DEF StreamType
<1> HIDE DEF new
<1> QED
  BY <1>1, <1>2 DEF FieldsOK

LEMMA WriteLinesFields ==
  ASSUME FieldsOK, NEW s \in Streams, WriteLines(s)
  PROVE  /\ stream[s].opened
         /\ \A t \in Streams : t # s => stream'[t] = stream[t]
         /\ stream'[s].by = stream[s].by
         /\ stream'[s].opened = stream[s].opened
         /\ stream'[s].todo = stream[s].todo
         /\ stream'[s].out = NoValues
         /\ stream'[s].start = stream[s].start
         /\ stream'[s].alone = stream[s].alone
<1> DEFINE new == [stream[s] EXCEPT !.out = NoValues]
<1>1. stream' = [stream EXCEPT ![s] = new] /\ stream[s].opened
  BY DEF WriteLines
<1>2. /\ new.by = stream[s].by /\ new.opened = stream[s].opened
      /\ new.todo = stream[s].todo /\ new.out = NoValues
      /\ new.start = stream[s].start /\ new.alone = stream[s].alone
  BY StreamFields DEF StreamType
<1> HIDE DEF new
<1> QED
  BY <1>1, <1>2 DEF FieldsOK

LEMMA EndFields ==
  ASSUME FieldsOK, NEW s \in Streams, Finish(s) \/ Fail(s)
  PROVE  /\ stream'[s] = Idle
         /\ \A t \in Streams : t # s => stream'[t] = stream[t]
BY DEF FieldsOK, Finish, Fail

LEMMA IdleFields ==
  /\ Idle.by = "nobody" /\ Idle.opened = FALSE /\ Idle.todo = {}
  /\ Idle.out = NoValues /\ Idle.start = NoValues
BY DEF Idle

----------------------------------------------------------------------------
(* The timer has at most one stream *)

\* A step that starts and ends no stream
LEMMA QuietStreams ==
  ASSUME StreamsInv, FieldsOK',
         \A t \in Streams : /\ stream'[t].by = stream[t].by
                            /\ ~Open(t) => stream'[t] = stream[t],
         process' = process, persistencePromise' = persistencePromise,
         persistenceTimeout' = persistenceTimeout \/ process # "down"
  PROVE  StreamsInv'
<1>1. ClosedIsIdle'
  BY DEF StreamsInv, ClosedIsIdle, Open
<1>2. DownIsQuiet'
  BY DEF StreamsInv, DownIsQuiet, Open
<1>3. TimerStreams' = TimerStreams
  BY DEF TimerStreams
<1>4. TimerHoldsPromise'
  BY <1>3 DEF StreamsInv, TimerHoldsPromise
<1> QED
  BY <1>1, <1>2, <1>4 DEF StreamsInv

LEMMA BeginStreams ==
  ASSUME StreamsInv, FieldsOK', NEW s \in Streams, NEW who \in {"timer", "stop"},
         Begin(s, who), process # "down", process' # "down",
         who = "timer" => ~persistencePromise /\ persistencePromise',
         who = "stop" => persistencePromise' = persistencePromise
  PROVE  StreamsInv'
<1> USE DEF StreamsInv
<1>0. /\ stream'[s].by = who /\ who # "nobody"
      /\ \A t \in Streams \ {s} :
           /\ ~Open(t) => stream'[t] = stream[t]
           /\ stream'[t].by = stream[t].by
  BY BeginFields
<1>1. ClosedIsIdle'
  <2> SUFFICES ASSUME NEW t \in Streams, ~Open(t)' PROVE stream'[t] = Idle
    BY DEF ClosedIsIdle
  <2>1. t # s /\ ~Open(t)
    BY <1>0 DEF Open
  <2> QED
    BY <1>0, <2>1 DEF ClosedIsIdle
<1>2. DownIsQuiet'
  BY DEF DownIsQuiet
<1>3. CASE who = "timer"
  <2>1. TimerStreams = {}
    BY <1>3 DEF TimerHoldsPromise
  <2>2. TimerStreams' \subseteq {s}
    BY <1>0, <2>1 DEF TimerStreams
  <2>3. TimerHoldsPromise'
    BY <1>3, <2>2 DEF TimerHoldsPromise
  <2> QED
    BY <1>1, <1>2, <2>3
<1>4. CASE who = "stop"
  <2>1. TimerStreams' \subseteq TimerStreams
    BY <1>0, <1>4 DEF TimerStreams
  <2>2. TimerHoldsPromise'
    BY <1>4, <2>1 DEF TimerHoldsPromise
  <2> QED
    BY <1>1, <1>2, <2>2
<1> QED
  BY <1>3, <1>4

LEMMA EndStreams ==
  ASSUME StreamsInv, FieldsOK', NEW s \in Streams, Finish(s) \/ Fail(s)
  PROVE  StreamsInv'
<1> USE EndFields, IdleFields DEF StreamsInv
<1>1. ClosedIsIdle'
  BY DEF ClosedIsIdle, Open
<1>2. Open(s)
  BY DEF ClosedIsIdle, Finish, Fail
<1>3. DownIsQuiet'
  <2>1. process # "down"
    BY <1>2 DEF DownIsQuiet
  <2>2. process' # "down"
    BY <2>1 DEF Finish, Fail
  <2> QED
    BY <2>2 DEF DownIsQuiet
<1>4. TimerStreams' = TimerStreams \ {s}
  BY DEF TimerStreams
<1>5. TimerHoldsPromise'
  <2>1. CASE stream[s].by = "timer"
    <3>1. s \in TimerStreams
      BY <2>1 DEF TimerStreams
    <3>2. TimerStreams' = {}
      BY <1>4, <3>1 DEF TimerHoldsPromise
    <3> QED
      BY <3>2 DEF TimerHoldsPromise
  <2>2. CASE stream[s].by # "timer"
    <3>1. persistencePromise' = persistencePromise
      BY <2>2 DEF Finish, Fail, FieldsOK
    <3> QED
      BY <1>4, <3>1 DEF TimerHoldsPromise
  <2> QED
    BY <2>1, <2>2
<1> QED
  BY <1>1, <1>3, <1>5

LEMMA InitStreamsInv == Init => StreamsInv
<1> SUFFICES ASSUME Init PROVE StreamsInv
  OBVIOUS
<1>1. \A s \in Streams : stream[s] = Idle /\ ~Open(s)
  BY IdleFields DEF Init, Open
<1>2. TimerStreams = {}
  BY <1>1, IdleFields DEF TimerStreams
<1> QED
  BY <1>1, <1>2, InitFieldsOK DEF Init, StreamsInv, ClosedIsIdle, DownIsQuiet, TimerHoldsPromise

LEMMA StepStreamsInv == StreamsInv /\ [Next]_vars => StreamsInv'
<1> SUFFICES ASSUME StreamsInv, [Next]_vars PROVE StreamsInv'
  OBVIOUS
<1>1. FieldsOK /\ FieldsOK'
  BY StepFieldsOK DEF StreamsInv
<1>2. ASSUME NEW k \in Keys, Set(k) PROVE StreamsInv'
  BY <1>1, <1>2, QuietStreams DEF Set, Up
<1>3. ASSUME NEW k \in Keys, Delete(k) PROVE StreamsInv'
  BY <1>1, <1>3, QuietStreams, DeleteFields DEF Delete
<1>4. ASSUME NEW s \in Streams, OpenFile(s) PROVE StreamsInv'
  BY <1>1, <1>4, QuietStreams, OpenFileFields DEF OpenFile, processVars
<1>5. ASSUME NEW s \in Streams, NEW k \in Keys, ReadLine(s, k) PROVE StreamsInv'
  <2>1. Open(s)
    BY <1>5, IdleFields DEF StreamsInv, ClosedIsIdle, ReadLine
  <2> QED
    BY <1>1, <1>5, <2>1, QuietStreams, ReadLineFields DEF ReadLine, processVars
<1>6. ASSUME NEW s \in Streams, WriteLines(s) PROVE StreamsInv'
  <2>1. Open(s)
    BY <1>6, IdleFields DEF StreamsInv, ClosedIsIdle, WriteLines
  <2> QED
    BY <1>1, <1>6, <2>1, QuietStreams, WriteLinesFields DEF WriteLines, processVars
<1>7. ASSUME NEW s \in Streams, Finish(s) \/ Fail(s) PROVE StreamsInv'
  BY <1>1, <1>7, EndStreams
<1>8. CASE TimerPersists
  <2>1. PICK s \in Streams : Begin(s, "timer")
    BY <1>8 DEF TimerPersists
  <2>2. process # "down" /\ process' = process
    BY <1>8 DEF TimerPersists, StreamsInv, DownIsQuiet
  <2> QED
    BY <1>1, <1>8, <2>1, <2>2, BeginStreams DEF TimerPersists
<1>9. CASE TimerWaits
  <2>1. process # "down"
    BY <1>9 DEF TimerWaits, StreamsInv, DownIsQuiet
  <2> QED
    BY <1>1, <1>9, <2>1, QuietStreams DEF TimerWaits
<1>10. CASE Stop
  <2>1. PICK s \in Streams : Begin(s, "stop")
    BY <1>10 DEF Stop
  <2> QED
    BY <1>1, <1>10, <2>1, BeginStreams DEF Stop
<1>11. CASE Crash
  <2>1. \A s \in Streams : (stream[s] = Idle)' /\ ~Open(s)'
    BY <1>11, IdleFields DEF Crash, Open
  <2>2. TimerStreams' = {}
    BY <2>1, IdleFields DEF TimerStreams
  <2> QED
    BY <1>1, <1>11, <2>1, <2>2 DEF Crash, StreamsInv, ClosedIsIdle, DownIsQuiet, TimerHoldsPromise
<1>12. CASE Restart
  <2>1. ClosedIsIdle' /\ TimerHoldsPromise'
    BY <1>12 DEF Restart, StreamsInv, ClosedIsIdle, TimerHoldsPromise, TimerStreams, Open
  <2> QED
    BY <1>1, <1>12, <2>1 DEF Restart, StreamsInv, DownIsQuiet
<1>13. CASE UNCHANGED vars
  BY <1>1, <1>13, QuietStreams DEF vars, processVars
<1> QED
  BY <1>2, <1>3, <1>4, <1>5, <1>6, <1>7, <1>8, <1>9, <1>10, <1>11, <1>12, <1>13
     DEF Next, StreamStep, Timer

\* Every reachable state of the store and its file is well typed, and a persist()
\* that is over leaves no open file and no line behind
THEOREM TypeCorrect == Spec => []TypeOK
<1>1. StreamsInv => TypeOK
  BY DEF StreamsInv, TypeOK
<1> QED
  BY <1>1, InitStreamsInv, StepStreamsInv, PTL DEF Spec

\* The timer never starts a second persist() while its first one is under way:
\* persistencePromise is set from the call to the end of the stream, and kept if
\* the stream fails.
THEOREM OneStreamOfTheTimer == Spec => []OneTimerStream
<1>1. StreamsInv => OneTimerStream
  <2> SUFFICES ASSUME StreamsInv PROVE OneTimerStream
    OBVIOUS
  <2>1. CASE TimerStreams = {}
    BY <2>1, FS_EmptySet DEF OneTimerStream
  <2>2. CASE TimerStreams # {}
    <3>1. PICK s \in TimerStreams : TimerStreams = {s}
      BY <2>2 DEF StreamsInv, TimerHoldsPromise
    <3>2. Cardinality(TimerStreams) = 1
      BY <3>1, FS_Singleton
    <3> QED
      BY <3>2 DEF OneTimerStream
  <2> QED
    BY <2>1, <2>2
<1> QED
  BY <1>1, InitStreamsInv, StepStreamsInv, PTL DEF Spec

----------------------------------------------------------------------------
(* A stream that knows of no other is alone *)

\* What an open stream implies
LEMMA OpenFacts ==
  ASSUME StreamsInv, NEW s \in Streams
  PROVE  /\ stream[s].opened => Open(s)
         /\ stream[s].todo # {} => Open(s)
         /\ stream[s].out # NoValues => Open(s)
         /\ ~Open(s) => stream[s].start = NoValues
         /\ Open(s) => process # "down"
BY IdleFields DEF StreamsInv, ClosedIsIdle, DownIsQuiet

LEMMA BeginLoneIsLone ==
  ASSUME StreamsInv, LoneIsLone, NEW s \in Streams, NEW who \in {"timer", "stop"}, Begin(s, who)
  PROVE  LoneIsLone'
<1>0. FieldsOK
  BY DEF StreamsInv
<1> SUFFICES ASSUME NEW t \in Streams, NEW o \in Streams,
                    Open(t)', stream'[t].alone, Open(o)'
             PROVE  t = o
  BY DEF LoneIsLone
<1>1. t # s => ~Open(t)
  BY <1>0, BeginFields
<1>2. t # s => stream'[t] = stream[t]
  BY <1>0, <1>1, BeginFields
<1>3. t = s
  BY <1>1, <1>2 DEF Open
<1>4. \A x \in Streams : ~Open(x)
  BY <1>0, <1>3, BeginFields
<1>5. o # s => stream'[o] = stream[o]
  BY <1>0, <1>4, BeginFields
<1> QED
  BY <1>3, <1>4, <1>5 DEF Open

LEMMA StepLoneIsLone == StreamsInv /\ LoneIsLone /\ [Next]_vars => LoneIsLone'
<1> SUFFICES ASSUME StreamsInv, LoneIsLone, [Next]_vars PROVE LoneIsLone'
  OBVIOUS
<1>1. FieldsOK
  BY DEF StreamsInv
<1>2. ASSUME \A t \in Streams : /\ Open(t)' => Open(t)
                                /\ Open(t)' => stream'[t].alone = stream[t].alone
      PROVE  LoneIsLone'
  BY <1>2 DEF LoneIsLone
<1>3. ASSUME NEW k \in Keys, Set(k) PROVE LoneIsLone'
  BY <1>3 DEF Set, LoneIsLone, Open
<1>4. ASSUME NEW k \in Keys, Delete(k) PROVE LoneIsLone'
  <2>1. \A t \in Streams : stream'[t].by = stream[t].by /\ stream'[t].alone = stream[t].alone
    BY <1>1, <1>4, DeleteFields
  <2> QED
    BY <1>2, <2>1 DEF Open
<1>5. ASSUME NEW s \in Streams, OpenFile(s) \/ WriteLines(s) \/ \E k \in Keys : ReadLine(s, k)
      PROVE  LoneIsLone'
  <2>1. \A t \in Streams : stream'[t].by = stream[t].by /\ stream'[t].alone = stream[t].alone
    BY <1>1, <1>5, OpenFileFields, WriteLinesFields, ReadLineFields
  <2> QED
    BY <1>2, <2>1 DEF Open
<1>6. ASSUME NEW s \in Streams, Finish(s) \/ Fail(s) PROVE LoneIsLone'
  <2>1. stream'[s].by = "nobody" /\ \A t \in Streams : t # s => stream'[t] = stream[t]
    BY <1>1, <1>6, EndFields, IdleFields
  <2> QED
    BY <1>2, <2>1 DEF Open
<1>7. CASE TimerPersists \/ Stop
  BY <1>7, BeginLoneIsLone DEF TimerPersists, Stop
<1>8. CASE TimerWaits \/ Restart
  BY <1>8 DEF TimerWaits, Restart, LoneIsLone, Open
<1>9. CASE Crash
  <2>1. \A t \in Streams : stream'[t].by = "nobody"
    BY <1>9, IdleFields DEF Crash
  <2> QED
    BY <2>1 DEF LoneIsLone, Open
<1>10. CASE UNCHANGED vars
  BY <1>10 DEF vars, LoneIsLone, Open
<1> QED
  BY <1>3, <1>4, <1>5, <1>6, <1>7, <1>8, <1>9, <1>10 DEF Next, StreamStep, Timer

----------------------------------------------------------------------------
(* No value is ahead of the writes *)

\* A step that only copies values that were there
LEMMA CopiesAreWritten ==
  ASSUME FieldsOK, NEW k \in Keys, WritesCover(k), writes' = writes,
         storage'[k] \in {storage[k], file[k], Absent},
         file'[k] \in {file[k], Absent} \/ \E s \in Streams : file'[k] = stream[s].out[k],
         \A s \in Streams :
           /\ stream'[s].start[k] \in {stream[s].start[k], storage[k], Absent, Undefined}
           /\ stream'[s].out[k] \in {stream[s].out[k], storage[k], Absent, Undefined}
  PROVE  WritesCover(k)'
<1>1. Absent <= writes[k] /\ Undefined <= writes[k]
  BY DEF FieldsOK, Absent, Undefined
<1> QED
  BY <1>1 DEF WritesCover

LEMMA StepValuesAreWritten == StreamsInv /\ ValuesAreWritten /\ [Next]_vars => ValuesAreWritten'
<1> SUFFICES ASSUME StreamsInv, ValuesAreWritten, [Next]_vars, NEW k \in Keys
             PROVE  WritesCover(k)'
  BY DEF ValuesAreWritten
<1>1. FieldsOK /\ WritesCover(k) /\ NoValues[k] = Absent
  BY DEF StreamsInv, ValuesAreWritten, NoValues
<1>2. ASSUME NEW j \in Keys, Set(j) PROVE WritesCover(k)'
  <2>1. writes[k] <= writes'[k] /\ storage'[k] <= writes'[k] /\ writes[k] \in Nat /\ writes'[k] \in Nat
    BY <1>1, <1>2 DEF Set, FieldsOK, WritesCover, Values
  <2>2. file' = file /\ stream' = stream
    BY <1>2 DEF Set
  <2>3. file[k] \in Int /\ \A s \in Streams : stream[s].start[k] \in Int /\ stream[s].out[k] \in Int
    BY <1>1, StreamFields, Constants DEF FieldsOK
  <2> QED
    BY <1>1, <2>1, <2>2, <2>3 DEF WritesCover
<1>3. ASSUME NEW j \in Keys, Delete(j) PROVE WritesCover(k)'
  <2>1. storage'[k] \in {storage[k], Absent} /\ file' = file /\ writes' = writes
    BY <1>1, <1>3 DEF Delete, historyVars, FieldsOK
  <2>2. ASSUME NEW s \in Streams
        PROVE  /\ stream'[s].start[k] \in {stream[s].start[k], Undefined}
               /\ stream'[s].out[k] = stream[s].out[k]
    <3>1. /\ stream[s].start \in [Keys -> Values]
          /\ stream'[s].out = stream[s].out
          /\ Open(s) => stream'[s].start = [stream[s].start EXCEPT ![j] = Undefined]
          /\ ~Open(s) => stream'[s] = stream[s]
      BY <1>1, <1>3, DeleteFields, StreamFields
    <3> QED
      BY <3>1
  <2> QED
    BY <1>1, <2>1, <2>2, CopiesAreWritten
<1>4. ASSUME NEW s \in Streams, NEW who \in {"timer", "stop"}, Begin(s, who),
             UNCHANGED <<storage, file, writes>>
      PROVE  WritesCover(k)'
  <2>1. ASSUME NEW t \in Streams
        PROVE  /\ stream'[t].start[k] \in {stream[t].start[k], storage[k]}
               /\ stream'[t].out[k] \in {stream[t].out[k], Absent}
    <3>1. CASE t = s
      BY <1>1, <1>4, <3>1, BeginFields
    <3>2. CASE t # s
      <4>1. [stream[t] EXCEPT !.alone = FALSE].start = stream[t].start
        BY <1>1, StreamFields DEF StreamType
      <4>2. [stream[t] EXCEPT !.alone = FALSE].out = stream[t].out
        BY <1>1, StreamFields DEF StreamType
      <4>3. stream'[t] \in {stream[t], [stream[t] EXCEPT !.alone = FALSE]}
        BY <1>4, <3>2 DEF Begin
      <4> QED
        BY <4>1, <4>2, <4>3
    <3> QED
      BY <3>1, <3>2
  <2> QED
    BY <1>1, <1>4, <2>1, CopiesAreWritten
<1>5. ASSUME NEW s \in Streams, OpenFile(s) PROVE WritesCover(k)'
  <2>1. UNCHANGED <<storage, writes>> /\ file'[k] = Absent
    BY <1>1, <1>5 DEF OpenFile, processVars, historyVars
  <2>2. ASSUME NEW t \in Streams
        PROVE  stream'[t].start = stream[t].start /\ stream'[t].out = stream[t].out
    BY <1>1, <1>5, OpenFileFields
  <2> QED
    BY <1>1, <2>1, <2>2, CopiesAreWritten
<1>6. ASSUME NEW s \in Streams, NEW j \in Keys, ReadLine(s, j) PROVE WritesCover(k)'
  <2>1. UNCHANGED <<storage, writes, file>>
    BY <1>6 DEF ReadLine, processVars, historyVars
  <2>2. ASSUME NEW t \in Streams
        PROVE  /\ stream'[t].start = stream[t].start
               /\ stream'[t].out[k] \in {stream[t].out[k], storage[k], Undefined}
    <3>1. CASE t = s
      <4>1. stream'[s].start = stream[s].start /\ stream'[s].out = [stream[s].out EXCEPT ![j] = Line(j)]
        BY <1>1, <1>6, ReadLineFields
      <4>2. stream[s].out \in [Keys -> Values]
        BY <1>1, StreamFields
      <4> QED
        BY <3>1, <4>1, <4>2 DEF Line
    <3>2. CASE t # s
      BY <1>1, <1>6, <3>2, ReadLineFields
    <3> QED
      BY <3>1, <3>2
  <2> QED
    BY <1>1, <2>1, <2>2, CopiesAreWritten
<1>7. ASSUME NEW s \in Streams, WriteLines(s) PROVE WritesCover(k)'
  <2>1. UNCHANGED <<storage, writes>> /\ file'[k] \in {file[k], stream[s].out[k]}
    BY <1>7 DEF WriteLines, processVars, historyVars
  <2>2. ASSUME NEW t \in Streams
        PROVE  /\ stream'[t].start = stream[t].start
               /\ stream'[t].out[k] \in {stream[t].out[k], Absent}
    BY <1>1, <1>7, WriteLinesFields
  <2> QED
    BY <1>1, <2>1, <2>2, CopiesAreWritten
<1>8. ASSUME NEW s \in Streams, Finish(s) \/ Fail(s) PROVE WritesCover(k)'
  <2>1. UNCHANGED <<storage, writes, file>>
    BY <1>8 DEF Finish, Fail
  <2>2. ASSUME NEW t \in Streams
        PROVE  /\ stream'[t].start[k] \in {stream[t].start[k], Absent}
               /\ stream'[t].out[k] \in {stream[t].out[k], Absent}
    BY <1>1, <1>8, EndFields, IdleFields
  <2> QED
    BY <1>1, <2>1, <2>2, CopiesAreWritten
<1>9. CASE TimerPersists \/ Stop
  BY <1>4, <1>9 DEF TimerPersists, Stop, historyVars
<1>10. CASE TimerWaits \/ UNCHANGED vars
  BY <1>1, <1>10 DEF TimerWaits, vars, processVars, historyVars, WritesCover
<1>11. CASE Crash
  <2>1. UNCHANGED <<writes, file>> /\ storage'[k] = Absent
    BY <1>1, <1>11 DEF Crash
  <2>2. ASSUME NEW t \in Streams
        PROVE  stream'[t].start[k] = Absent /\ stream'[t].out[k] = Absent
    BY <1>1, <1>11, IdleFields DEF Crash
  <2> QED
    BY <1>1, <2>1, <2>2, CopiesAreWritten
<1>12. CASE Restart
  BY <1>1, <1>12 DEF Restart, historyVars, WritesCover
<1> QED
  BY <1>2, <1>3, <1>5, <1>6, <1>7, <1>8, <1>9, <1>10, <1>11, <1>12
     DEF Next, StreamStep, Timer

----------------------------------------------------------------------------
(* A lone stream carries every key to the file *)

\* A step that concerns neither the stream nor the key
LEMMA OthersKeepCarried ==
  ASSUME NEW s \in Streams, NEW k \in Keys, KeyIsCarried(s, k),
         stream'[s].opened = stream[s].opened,
         k \in stream'[s].todo <=> k \in stream[s].todo,
         stream'[s].out[k] = stream[s].out[k],
         stream'[s].start[k] = stream[s].start[k],
         storage'[k] = storage[k], file'[k] = file[k]
  PROVE  KeyIsCarried(s, k)'
BY DEF KeyIsCarried, Carries

LEMMA BeginCarries ==
  ASSUME StreamsInv, NEW s \in Streams, NEW who \in {"timer", "stop"}, Begin(s, who),
         UNCHANGED storage, NEW t \in Streams, Open(t)', stream'[t].alone, NEW k \in Keys
  PROVE  KeyIsCarried(t, k)'
<1>0. FieldsOK
  BY DEF StreamsInv
<1>1. t # s => ~Open(t)
  BY <1>0, BeginFields
<1>2. t # s => stream'[t] = stream[t]
  BY <1>0, <1>1, BeginFields
<1>3. t = s
  BY <1>1, <1>2 DEF Open
<1>4. /\ stream'[s].opened = FALSE
      /\ k \in stream'[s].todo <=> storage[k] # Absent
      /\ stream'[s].out[k] = Absent
      /\ stream'[s].start[k] = storage[k]
  <2>1. /\ stream'[s].opened = FALSE
        /\ stream'[s].todo = {j \in Keys : storage[j] # Absent}
        /\ stream'[s].out = NoValues
        /\ stream'[s].start = storage
    BY <1>0, BeginFields
  <2> QED
    BY <2>1 DEF NoValues
<1>5. storage[k] \in Int
  BY <1>0, Constants DEF FieldsOK
<1> QED
  BY <1>3, <1>4, <1>5 DEF KeyIsCarried, Carries, Absent

LEMMA ReadLineCarries ==
  ASSUME FieldsOK, NEW s \in Streams, NEW k \in Keys, ReadLine(s, k), KeyIsCarried(s, k)
  PROVE  KeyIsCarried(s, k)'
<1>1. k \in stream[s].todo /\ storage' = storage
  BY DEF ReadLine, processVars
<1>2. /\ stream'[s].todo = stream[s].todo \ {k}
      /\ stream'[s].out = [stream[s].out EXCEPT ![k] = Line(k)]
      /\ stream'[s].start[k] = stream[s].start[k]
      /\ Line(k) # Absent
  BY ReadLineFields
<1>3. stream'[s].out[k] = Line(k) /\ k \notin stream'[s].todo
  BY <1>2, StreamFields
<1>4. stream[s].start[k] \in Int /\ storage[k] \in Int
  BY StreamFields, Constants DEF FieldsOK
<1>5. /\ stream[s].start[k] # Absent
      /\ stream[s].start[k] > 0 => storage[k] >= stream[s].start[k]
  BY <1>1 DEF KeyIsCarried, Carries
<1>6. stream[s].start[k] > 0 => Line(k) >= stream[s].start[k]
  BY <1>4, <1>5 DEF Line, Absent
<1>7. storage[k] = stream[s].start[k] => Line(k) = stream[s].start[k]
  BY <1>5 DEF Line
<1> QED
  BY <1>1, <1>2, <1>3, <1>6, <1>7 DEF KeyIsCarried, Carries

LEMMA StepLoneCarriesAll ==
  StreamsInv /\ LoneIsLone /\ ValuesAreWritten /\ LoneCarriesAll /\ [Next]_vars => LoneCarriesAll'
<1> SUFFICES ASSUME StreamsInv, LoneIsLone, ValuesAreWritten, LoneCarriesAll, [Next]_vars,
                    NEW s \in Streams, Open(s)', stream'[s].alone, NEW k \in Keys
             PROVE  KeyIsCarried(s, k)'
  BY DEF LoneCarriesAll
<1>1. FieldsOK
  BY DEF StreamsInv
<1>2. ASSUME stream'[s].by = stream[s].by, stream'[s].alone = stream[s].alone
      PROVE  /\ KeyIsCarried(s, k)
             /\ \A t \in Streams : Open(t) => t = s
  BY <1>2 DEF LoneCarriesAll, LoneIsLone, Open
<1>3. ASSUME NEW j \in Keys, Set(j) PROVE KeyIsCarried(s, k)'
  <2>1. stream' = stream /\ file' = file
    BY <1>3 DEF Set
  <2>2. KeyIsCarried(s, k)
    BY <1>2, <2>1
  <2>3. CASE k # j
    <3>1. storage'[k] = storage[k]
      BY <1>1, <1>3, <2>3 DEF Set, FieldsOK
    <3> QED
      BY <2>1, <2>2, <3>1, OthersKeepCarried
  <2>4. CASE k = j
    <3>1. storage'[k] = writes[k] + 1
      BY <1>1, <1>3, <2>4 DEF Set, FieldsOK
    <3>2. /\ writes[k] \in Int /\ stream[s].start[k] \in Int
          /\ stream[s].start[k] <= writes[k]
      BY <1>1, StreamFields, Constants DEF FieldsOK, ValuesAreWritten, WritesCover
    <3>3. storage'[k] > stream[s].start[k] /\ storage'[k] # stream[s].start[k]
          /\ storage'[k] >= stream[s].start[k]
      BY <3>1, <3>2
    <3> QED
      BY <2>1, <2>2, <3>3 DEF KeyIsCarried, Carries
  <2> QED
    BY <2>3, <2>4
<1>4. ASSUME NEW j \in Keys, Delete(j) PROVE KeyIsCarried(s, k)'
  <2>1. /\ stream'[s].by = stream[s].by /\ stream'[s].alone = stream[s].alone
        /\ stream'[s].opened = stream[s].opened /\ stream'[s].todo = stream[s].todo
        /\ stream'[s].out = stream[s].out
    BY <1>1, <1>4, DeleteFields
  <2>2. KeyIsCarried(s, k)
    BY <1>2, <2>1
  <2>3. stream'[s].start = [stream[s].start EXCEPT ![j] = Undefined]
    <3>1. Open(s)
      BY <2>1 DEF Open
    <3> QED
      BY <1>1, <1>4, <3>1, DeleteFields
  <2>4. file' = file /\ storage' = [storage EXCEPT ![j] = Absent]
    BY <1>4 DEF Delete
  <2>5. CASE k # j
    <3>1. stream'[s].start[k] = stream[s].start[k] /\ storage'[k] = storage[k]
      BY <1>1, <2>3, <2>4, <2>5, StreamFields DEF FieldsOK
    <3> QED
      BY <2>1, <2>2, <2>4, <3>1, OthersKeepCarried
  <2>6. CASE k = j
    <3>1. stream'[s].start[k] = Undefined /\ storage'[k] = Absent
      BY <1>1, <2>3, <2>4, <2>6, StreamFields DEF FieldsOK
    <3> QED
      BY <2>1, <2>2, <3>1 DEF KeyIsCarried, Carries, Undefined, Absent
  <2> QED
    BY <2>5, <2>6
<1>5. ASSUME NEW t \in Streams, OpenFile(t) PROVE KeyIsCarried(s, k)'
  <2>1. stream'[s].by = stream[s].by /\ stream'[s].alone = stream[s].alone /\ Open(t)
    BY <1>1, <1>5, OpenFileFields
  <2>2. t = s /\ KeyIsCarried(s, k)
    BY <1>2, <2>1
  <2>3. /\ stream'[s].opened /\ stream'[s].todo = stream[s].todo
        /\ stream'[s].out = stream[s].out /\ stream'[s].start = stream[s].start
    BY <1>1, <1>5, <2>2, OpenFileFields
  <2>4. storage' = storage /\ file'[k] = Absent /\ ~stream[s].opened
    BY <1>5, <2>2 DEF OpenFile, processVars, NoValues
  <2> QED
    BY <2>2, <2>3, <2>4 DEF KeyIsCarried, Carries
<1>6. ASSUME NEW t \in Streams, NEW j \in Keys, ReadLine(t, j) PROVE KeyIsCarried(s, k)'
  <2>1. /\ stream'[s].by = stream[s].by /\ stream'[s].alone = stream[s].alone
        /\ stream'[s].opened = stream[s].opened /\ stream'[s].start = stream[s].start
        /\ storage' = storage /\ file' = file
    BY <1>1, <1>6, ReadLineFields DEF ReadLine, processVars
  <2>2. KeyIsCarried(s, k)
    BY <1>2, <2>1
  <2>3. CASE t = s /\ j = k
    BY <1>1, <1>6, <2>2, <2>3, ReadLineCarries
  <2>4. CASE t # s \/ j # k
    <3>1. k \in stream'[s].todo <=> k \in stream[s].todo
      BY <1>1, <1>6, <2>4, ReadLineFields
    <3>2. stream'[s].out[k] = stream[s].out[k]
      <4>1. CASE t = s
        <5>1. /\ stream'[s].out = [stream[s].out EXCEPT ![j] = Line(j)]
              /\ stream[s].out \in [Keys -> Values]
          BY <1>1, <1>6, <4>1, ReadLineFields, StreamFields
        <5> QED
          BY <2>4, <4>1, <5>1
      <4>2. CASE t # s
        BY <1>1, <1>6, <4>2, ReadLineFields
      <4> QED
        BY <4>1, <4>2
    <3> QED
      BY <2>1, <2>2, <3>1, <3>2, OthersKeepCarried
  <2> QED
    BY <2>3, <2>4
<1>7. ASSUME NEW t \in Streams, WriteLines(t) PROVE KeyIsCarried(s, k)'
  <2>1. /\ stream'[s].by = stream[s].by /\ stream'[s].alone = stream[s].alone /\ Open(t)
    BY <1>1, <1>7, WriteLinesFields, OpenFacts
  <2>2. t = s /\ KeyIsCarried(s, k)
    BY <1>2, <2>1
  <2>3. /\ stream[s].opened /\ stream'[s].opened /\ stream'[s].todo = stream[s].todo
        /\ stream'[s].out[k] = Absent /\ stream'[s].start = stream[s].start
    BY <1>1, <1>7, <2>2, WriteLinesFields DEF NoValues
  <2>4. /\ storage' = storage
        /\ file'[k] = IF stream[s].out[k] # Absent THEN stream[s].out[k] ELSE file[k]
    BY <1>7, <2>2 DEF WriteLines, processVars
  <2> QED
    BY <2>2, <2>3, <2>4 DEF KeyIsCarried, Carries
<1>8. ASSUME NEW t \in Streams, Finish(t) \/ Fail(t) PROVE KeyIsCarried(s, k)'
  <2>1. t # s
    BY <1>1, <1>8, EndFields, IdleFields DEF Open
  <2>2. stream'[s] = stream[s]
    BY <1>1, <1>8, <2>1, EndFields
  <2>3. storage' = storage /\ file' = file
    BY <1>8 DEF Finish, Fail
  <2> QED
    BY <1>2, <2>2, <2>3, OthersKeepCarried
<1>9. CASE TimerPersists \/ Stop
  BY <1>9, BeginCarries DEF TimerPersists, Stop
<1>10. CASE TimerWaits \/ UNCHANGED vars
  <2>1. stream' = stream /\ storage' = storage /\ file' = file
    BY <1>10 DEF TimerWaits, vars, processVars
  <2> QED
    BY <1>2, <2>1, OthersKeepCarried
<1>11. CASE Crash
  BY <1>11, IdleFields DEF Crash, Open
<1>12. CASE Restart
  BY <1>12, OpenFacts DEF Restart, Open
<1> QED
  BY <1>3, <1>4, <1>5, <1>6, <1>7, <1>8, <1>9, <1>10, <1>11, <1>12
     DEF Next, StreamStep, Timer

----------------------------------------------------------------------------
(* What a completed save leaves in the file *)

\* A lone stream that is about to finish has written everything
LEMMA LoneFinishes ==
  ASSUME SavesInv, NEW s \in Streams, Finish(s), stream[s].alone, NEW k \in Keys
  PROVE  Carries(s, k, file[k])
<1>1. /\ stream[s].opened /\ k \notin stream[s].todo /\ stream[s].out[k] = Absent
  BY DEF Finish, NoValues
<1>2. KeyIsCarried(s, k)
  BY <1>1, OpenFacts DEF SavesInv, LoneCarriesAll
<1> QED
  BY <1>1, <1>2 DEF KeyIsCarried

LEMMA StepSavedIsInFile == SavesInv /\ [Next]_vars => SavedIsInFile'
<1> SUFFICES ASSUME SavesInv, [Next]_vars,
                    \A s \in Streams : ~stream'[s].opened, NEW k \in Keys, saved'[k] > 0
             PROVE  file'[k] >= saved'[k]
  BY DEF SavedIsInFile
<1>1. FieldsOK
  BY DEF SavesInv, StreamsInv
<1>2. ASSUME \A s \in Streams : stream'[s].opened = stream[s].opened,
             file' = file, saved' = saved
      PROVE  file'[k] >= saved'[k]
  BY <1>2 DEF SavesInv, SavedIsInFile
<1>3. ASSUME saved' = NoValues PROVE FALSE
  BY <1>3 DEF NoValues, Absent
<1>4. ASSUME NEW j \in Keys, Set(j) PROVE file'[k] >= saved'[k]
  BY <1>2, <1>4 DEF Set
<1>5. ASSUME NEW j \in Keys, Delete(j) PROVE file'[k] >= saved'[k]
  BY <1>1, <1>2, <1>5, DeleteFields DEF Delete, historyVars
<1>6. ASSUME NEW s \in Streams, OpenFile(s) \/ WriteLines(s) PROVE file'[k] >= saved'[k]
  <2>1. stream'[s].opened
    BY <1>1, <1>6, OpenFileFields, WriteLinesFields
  <2> QED
    BY <2>1
<1>7. ASSUME NEW s \in Streams, NEW j \in Keys, ReadLine(s, j) PROVE file'[k] >= saved'[k]
  BY <1>1, <1>2, <1>7, ReadLineFields DEF ReadLine, historyVars
<1>8. ASSUME NEW s \in Streams, Finish(s) PROVE file'[k] >= saved'[k]
  <2>1. CASE stream[s].alone
    BY <1>8, <2>1, LoneFinishes DEF Finish, Saved, Carries
  <2>2. CASE ~stream[s].alone
    BY <1>3, <1>8, <2>2 DEF Finish, Saved
  <2> QED
    BY <2>1, <2>2
<1>9. ASSUME NEW s \in Streams, Fail(s) PROVE file'[k] >= saved'[k]
  BY <1>3, <1>9 DEF Fail
<1>10. CASE TimerPersists \/ Stop
  <2>1. PICK s \in Streams, who \in {"timer", "stop"} : Begin(s, who)
    BY <1>10 DEF TimerPersists, Stop
  <2>2. ~stream[s].opened
    BY <1>1, <2>1, BeginFields, OpenFacts DEF SavesInv
  <2>3. \A t \in Streams : stream'[t].opened = stream[t].opened
    BY <1>1, <2>1, <2>2, BeginFields, StreamFields
  <2> QED
    BY <1>2, <1>10, <2>3 DEF TimerPersists, Stop, historyVars
<1>11. CASE TimerWaits \/ Restart \/ UNCHANGED vars
  BY <1>2, <1>11 DEF TimerWaits, Restart, vars, processVars, historyVars
<1>12. CASE Crash
  <2>1. CASE \E s \in Streams : stream[s].opened
    BY <1>3, <1>12, <2>1 DEF Crash
  <2>2. CASE \A s \in Streams : ~stream[s].opened
    BY <1>12, <2>2 DEF Crash, SavesInv, SavedIsInFile
  <2> QED
    BY <2>1, <2>2
<1> QED
  BY <1>4, <1>5, <1>6, <1>7, <1>8, <1>9, <1>10, <1>11, <1>12 DEF Next, StreamStep, Timer

LEMMA InitSavesInv == Init => SavesInv
<1> SUFFICES ASSUME Init PROVE SavesInv
  OBVIOUS
<1>1. \A s \in Streams : stream[s] = Idle /\ ~Open(s)
  BY IdleFields DEF Init, Open
<1>2. LoneIsLone /\ LoneCarriesAll
  BY <1>1 DEF LoneIsLone, LoneCarriesAll
<1>3. ValuesAreWritten
  BY <1>1, IdleFields DEF Init, ValuesAreWritten, WritesCover, NoValues, Absent
<1>4. SavedIsInFile
  BY DEF Init, SavedIsInFile, NoValues, Absent
<1> QED
  BY <1>2, <1>3, <1>4, InitStreamsInv DEF SavesInv

LEMMA StepSavesInv == SavesInv /\ [Next]_vars => SavesInv'
BY StepStreamsInv, StepLoneIsLone, StepValuesAreWritten, StepLoneCarriesAll, StepSavedIsInFile
   DEF SavesInv

\* What a persist() that ran alone has saved can be read back: whatever is written
\* meanwhile, and through crashes and restarts, until a stream opens the file.
THEOREM SavedStaysInFile == Spec => []SavedIsInFile
<1>1. SavesInv => SavedIsInFile
  BY DEF SavesInv
<1> QED
  BY <1>1, InitSavesInv, StepSavesInv, PTL DEF Spec

\* When stop() completes its persist(), alone and with nothing written since, the
\* file is the map.
THEOREM StopSavesTheMap == Spec => StopSavesAll
<1>1. ASSUME SavesInv, NEW s \in Streams, stream[s].alone, Finish(s), stream[s].start = storage
      PROVE  file = storage
  <2>1. \A k \in Keys : file[k] = storage[k]
    BY <1>1, LoneFinishes DEF Carries
  <2> QED
    BY <1>1, <2>1 DEF SavesInv, StreamsInv, FieldsOK
<1>2. SavesInv => [\A s \in Streams :
                     /\ stream[s].by = "stop" /\ stream[s].alone /\ Finish(s)
                     /\ stream[s].start = storage
                     => file = storage]_vars
  BY <1>1
<1> QED
  BY <1>2, InitSavesInv, StepSavesInv, PTL DEF Spec, StopSavesAll
=============================================================================
