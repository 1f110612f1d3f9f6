-------------------------- MODULE QueueConsumers --------------------------
(***************************************************************************)
(* Queue.consume() of @webda/core (packages/core/src/queues/               *)
(* queueservice.ts) at work on a MemoryQueue.  One parent loop receives    *)
(* and processes; when messages come fast it launches child loops, which   *)
(* stop by themselves when they receive nothing.  A loop is a              *)
(* CancelableLoopPromise (packages/utils/src/waiter.ts): its shouldRun     *)
(* flag is read between two iterations only.                               *)
(*                                                                         *)
(* The readers of the queue are the loops.  The back-off delay is a state  *)
(* without a length, so failedIterations, which only sets it, is left out. *)
(***************************************************************************)
EXTENDS MemoryQueue

CONSTANTS
  Parent,       \* the loop consume() returns
  MaxConsumers  \* parameters.maxConsumers

Children == Readers \ {Parent}

ASSUME ConsumersAssumption ==
  /\ Parent \in Readers
  /\ IsFiniteSet(Readers)
  /\ MaxConsumers \in Nat \ {0}
  /\ Cardinality(Children) >= MaxConsumers - 1

VARIABLES
  loop,       \* where each loop is in its iteration
  result,     \* what consumerReceiveMessage returned, until the iteration ends
  shouldRun,  \* the flag of its CancelableLoopPromise
  consumers,  \* the children consume() keeps track of
  consume,    \* progress of consume() and of the cancel() of its promise
  done        \* history: messages whose callback succeeded

consumerVars == <<loop, result, shouldRun, consumers, consume, done>>
allVars == <<vars, consumerVars>>

LoopStates ==
  {"off", "next", "reading", "working", "acking", "backoff", "over"}

\* items = -1, items = 0, items > 0 received in 3 seconds or more, or in less
Results == {"failed", "empty", "slow", "fast"}

ConsumersTypeOK ==
  /\ TypeOK
  /\ loop \in [Readers -> LoopStates]
  /\ result \in [Readers -> Results]
  /\ shouldRun \in [Readers -> BOOLEAN]
  /\ consumers \in SUBSET Children
  /\ consume \in {"notCalled", "running", "cancelling", "cancelled"}
  /\ done \in SUBSET Messages

ConsumersInit ==
  /\ Init
  /\ loop = [c \in Readers |-> "off"]
  /\ result = [c \in Readers |-> "empty"]
  /\ shouldRun = [c \in Readers |-> FALSE]
  /\ consumers = {}
  /\ consume = "notCalled"
  /\ done = {}

At(c, state) == loop[c] = state

Goto(c, state) == loop' = [loop EXCEPT ![c] = state]

Yields(c, r) == result' = [result EXCEPT ![c] = r]

Send(m) == SendMessage(m) /\ UNCHANGED consumerVars

Expire(m) == ClaimExpires(m) /\ UNCHANGED consumerVars

Timeout(c) == ReadTimesOut(c) /\ UNCHANGED consumerVars

----------------------------------------------------------------------------
(* consumerReceiveMessage up to its first await: `c` goes to `state` *)

StartsReceiving(c, state, res) ==
  \/ ReceiveAtOnce(c) /\ state = "working" /\ res = "fast"
  \/ ReceiveBlocks(c) /\ state = "reading" /\ res = result[c]
  \/ ReceiveThrows(c) /\ state = "backoff" /\ res = "failed"

\* Mutant: the parent loop is kept among the children
ConsumeKeepsParent ==
  /\ consume = "notCalled"
  /\ consume' = "running"
  /\ shouldRun' = [shouldRun EXCEPT ![Parent] = TRUE]
  /\ \E state \in LoopStates, res \in Results :
       StartsReceiving(Parent, state, res) /\ Goto(Parent, state) /\ Yields(Parent, res)
  /\ consumers' = {Parent}
  /\ UNCHANGED done

\* The constructor of the loop runs the first iteration at once
Consume ==
  /\ consume = "notCalled"
  /\ consume' = "running"
  /\ shouldRun' = [shouldRun EXCEPT ![Parent] = TRUE]
  /\ \E state \in LoopStates, res \in Results :
       StartsReceiving(Parent, state, res) /\ Goto(Parent, state) /\ Yields(Parent, res)
  /\ UNCHANGED <<consumers, done>>

Receives(c) ==
  /\ At(c, "next")
  /\ shouldRun[c]
  /\ \E state \in LoopStates, res \in Results :
       StartsReceiving(c, state, res) /\ Goto(c, state) /\ Yields(c, res)
  /\ UNCHANGED <<shouldRun, consumers, consume, done>>

Resumes(c) ==
  /\ At(c, "reading")
  /\ \/ ReturnItem(c) /\ Goto(c, "working") /\ (Yields(c, "fast") \/ Yields(c, "slow"))
     \/ ReturnEmpty(c) /\ Goto(c, "over") /\ Yields(c, "empty")
     \/ ReturnThrows(c) /\ Goto(c, "backoff") /\ Yields(c, "failed")
  /\ UNCHANGED <<shouldRun, consumers, consume, done>>

CallbackSucceeds(c) ==
  /\ At(c, "working")
  /\ done' = done \union {item[c].message}
  /\ Goto(c, "acking")
  /\ UNCHANGED <<vars, result, shouldRun, consumers, consume>>

\* Mutant: the message is deleted whether the callback failed or not
CallbackFailsDeletes(c) ==
  /\ At(c, "working")
  /\ lapses[item[c].message] < MaxLapses
  /\ DeleteMessage(c)
  /\ Goto(c, "over")
  /\ UNCHANGED <<result, shouldRun, consumers, consume, done>>

\* The error is logged and the message is left to its claim.  Bound: a callback
\* may fail as long as the claim may still expire.
CallbackFails(c) ==
  /\ At(c, "working")
  /\ lapses[item[c].message] < MaxLapses
  /\ Abandon(c)
  /\ Goto(c, "over")
  /\ UNCHANGED <<result, shouldRun, consumers, consume, done>>

Acknowledges(c) ==
  /\ At(c, "acking")
  /\ DeleteMessage(c)
  /\ Goto(c, "over")
  /\ UNCHANGED <<result, shouldRun, consumers, consume, done>>

BackoffEnds(c) ==
  /\ At(c, "backoff")
  /\ Goto(c, "over")
  /\ UNCHANGED <<vars, result, shouldRun, consumers, consume, done>>

----------------------------------------------------------------------------
(* parentQueueCallback and childQueueCallback, after the await *)

\* Mutant: the parent is not counted
MayLaunchOneMore ==
  result[Parent] = "fast" /\ Cardinality(consumers) <= MaxConsumers - 1

MayLaunch == result[Parent] = "fast" /\ Cardinality(consumers) < MaxConsumers - 1

ParentLaunches(child) ==
  /\ At(Parent, "over")
  /\ MayLaunch
  /\ At(child, "off")
  /\ consumers' = consumers \union {child}
  /\ shouldRun' = [shouldRun EXCEPT ![child] = TRUE]
  /\ \E state \in LoopStates, res \in Results :
       /\ StartsReceiving(child, state, res)
       /\ loop' = [loop EXCEPT ![Parent] = "next", ![child] = state]
       /\ result' = [result EXCEPT ![Parent] = "empty", ![child] = res]
  /\ UNCHANGED <<consume, done>>

\* Mutant: the parent stops on an empty queue, like a child
ParentGoesOnLikeChild ==
  /\ At(Parent, "over")
  /\ ~MayLaunch
  /\ shouldRun' = [shouldRun EXCEPT ![Parent] = @ /\ result[Parent] \in {"slow", "fast"}]
  /\ Goto(Parent, "next") /\ Yields(Parent, "empty")
  /\ UNCHANGED <<vars, consumers, consume, done>>

ParentGoesOn ==
  /\ At(Parent, "over")
  /\ ~MayLaunch
  /\ Goto(Parent, "next") /\ Yields(Parent, "empty")
  /\ UNCHANGED <<vars, shouldRun, consumers, consume, done>>

\* Mutant: a child goes on for ever, like the parent
ChildGoesOn(child) ==
  /\ At(child, "over")
  /\ Goto(child, "next") /\ Yields(child, "empty")
  /\ UNCHANGED <<vars, shouldRun, consumers, consume, done>>

ChildDecides(child) ==
  /\ At(child, "over")
  /\ shouldRun' = [shouldRun EXCEPT ![child] = @ /\ result[child] \in {"slow", "fast"}]
  /\ Goto(child, "next") /\ Yields(child, "empty")
  /\ UNCHANGED <<vars, consumers, consume, done>>

LoopEnds(c) ==
  /\ At(c, "next")
  /\ ~shouldRun[c]
  /\ Goto(c, "off")
  /\ consumers' = consumers \ {c}
  /\ UNCHANGED <<vars, result, shouldRun, consume, done>>

----------------------------------------------------------------------------
(* cancel() of the parent: its onCancel cancels the children of the moment *)
(* and is awaited before the parent's own flag is cleared.                 *)

CancelStarts ==
  /\ consume = "running"
  /\ consume' = "cancelling"
  /\ shouldRun' = [c \in Readers |-> shouldRun[c] /\ c \notin consumers]
  /\ UNCHANGED <<vars, loop, result, consumers, done>>

CancelSettles ==
  /\ consume = "cancelling"
  /\ consume' = "cancelled"
  /\ shouldRun' = [shouldRun EXCEPT ![Parent] = FALSE]
  /\ UNCHANGED <<vars, loop, result, consumers, done>>

LoopStep(c) ==
  \/ Receives(c)
  \/ Resumes(c)
  \/ CallbackSucceeds(c)
  \/ CallbackFails(c)
  \/ Acknowledges(c)
  \/ BackoffEnds(c)
  \/ LoopEnds(c)

ParentStep == ParentGoesOn \/ \E child \in Children : ParentLaunches(child)

ConsumersNext ==
  \/ \E m \in Messages : Send(m) \/ Expire(m)
  \/ \E c \in Readers : LoopStep(c) \/ Timeout(c)
  \/ ParentStep
  \/ \E child \in Children : ChildDecides(child)
  \/ Consume
  \/ CancelStarts
  \/ CancelSettles

\* Timers fire, promises that were resolved run their continuation, and a
\* callback returns: the event loop is fair to each of them.  consume() is
\* called; nothing obliges anyone to send or to cancel.
Fairness ==
  /\ \A m \in Messages : WF_allVars(Expire(m))
  /\ \A c \in Readers : WF_allVars(LoopStep(c)) /\ WF_allVars(Timeout(c))
  /\ \A child \in Children : WF_allVars(ChildDecides(child))
  /\ WF_allVars(ParentStep)
  /\ WF_allVars(Consume)
  /\ WF_allVars(CancelSettles)

ConsumersSpec == ConsumersInit /\ [][ConsumersNext]_allVars

FairConsumersSpec == ConsumersSpec /\ Fairness

----------------------------------------------------------------------------
(* Safety *)

Active == {c \in Readers : ~At(c, "off")}

\* No more loops than maxConsumers are alive, the parent and the children whose
\* iteration is not over yet included (consumers.size is checked at the launch,
\* and a child leaves the set when its promise has settled).
ConsumersBounded == Cardinality(Active) <= MaxConsumers

\* A message disappears from the queue only after a callback succeeded on it,
\* whatever claims expired and whoever else is processing it.
DeletedOnlyOnSuccess ==
  \A m \in Messages : ~Fresh(m) /\ m \notin queue => m \in done

\* "Cancel the loop, invoking the optional onCancel hook and stopping future
\* iterations": once cancel() has settled, consume() launches no new consumer.
NoLaunchAfterCancel ==
  [][consume = "cancelled" => consumers' \subseteq consumers]_allVars

----------------------------------------------------------------------------
(* Liveness *)

\* A message that was sent, that can be read and on which the callback does not
\* fail for ever is processed, unless the consumer is cancelled.
EventuallyProcessed ==
  \A m \in Messages \ Poison :
    ~Fresh(m) ~> (m \in done /\ m \notin queue) \/ consume \in {"cancelling", "cancelled"}

\* "it will decrease to just one consumer if no messages are available": senders
\* are finite here, so in the end only the parent is left.
ScalesDown == <>[](consumers = {})
=============================================================================
