----------------------- MODULE QueueConsumersProofs -----------------------
(***************************************************************************)
(* What Queue.consume() guarantees for any number of messages and of       *)
(* consumers.  Every step of the consumers is a step of the queue, so what *)
(* MemoryQueueProofs shows of the queue holds under consume() too.         *)
(***************************************************************************)
EXTENDS QueueConsumers, MemoryQueueProofs, FiniteSetTheorems

LEMMA StartsIsReceive ==
  ASSUME NEW c, NEW state, NEW res, StartsReceiving(c, state, res)
  PROVE  Receive(c)
  BY DEF StartsReceiving, Receive

LEMMA StepIsQueueStep == [ConsumersNext]_allVars => [Next]_vars
<1> SUFFICES ASSUME [ConsumersNext]_allVars PROVE [Next]_vars
  OBVIOUS
<1>1. ASSUME NEW m \in Messages, Send(m) \/ Expire(m) PROVE Next
  BY <1>1 DEF Send, Expire, Next
<1>2. ASSUME NEW c \in Readers, LoopStep(c) \/ Timeout(c) PROVE [Next]_vars
  BY <1>2, StartsIsReceive
  DEF LoopStep, Receives, Resumes, CallbackSucceeds, CallbackFails, Acknowledges,
      BackoffEnds, LoopEnds, Timeout, Return, Next
<1>3. CASE ParentStep
  BY <1>3, StartsIsReceive DEF ParentStep, ParentGoesOn, ParentLaunches, Children, Next
<1>4. CASE \E child \in Children : ChildDecides(child)
  BY <1>4 DEF ChildDecides
<1>5. CASE Consume
  BY <1>5, StartsIsReceive, ConsumersAssumption DEF Consume, Next
<1>6. CASE CancelStarts \/ CancelSettles
  BY <1>6 DEF CancelStarts, CancelSettles
<1>7. CASE UNCHANGED allVars
  BY <1>7 DEF allVars
<1> QED
  BY <1>1, <1>2, <1>3, <1>4, <1>5, <1>6, <1>7 DEF ConsumersNext

\* A queue under consume() is a MemoryQueue: loops that receive, fail, back off
\* and delete do nothing to it that its callers may not do.
THEOREM ConsumersUseTheQueue == ConsumersSpec => Spec
<1>1. ConsumersInit => Init
  BY DEF ConsumersInit
<1> QED
  BY <1>1, StepIsQueueStep, PTL DEF ConsumersSpec, Spec

\* So consume() with everything it may do, cancellation included, is an at-least-once
\* queue: no message is lost, and none is deleted by a loop that does not hold it.
THEOREM ConsumersAreAtLeastOnce == ConsumersSpec => IsAtLeastOnce
  BY ConsumersUseTheQueue, MemoryQueueIsAtLeastOnce, PTL

\* Hence no two consumers process the same receipt (queueservice.ts, msgWorker).
THEOREM ExclusiveConsumers == ConsumersSpec => []ExclusiveClaim
  BY ConsumersUseTheQueue, ExclusiveClaims, PTL

\* Nor does a message that is sent while loops wait leave all of them asleep, when
\* the queue has no read timeout.
THEOREM SendsWakeConsumers ==
  ASSUME ~ReadTimeout
  PROVE  ConsumersSpec => SendWakesReader
<1>1. Spec => SendWakesReader
  BY SendsWakeReaders
<1>. QED BY <1>1, ConsumersUseTheQueue, PTL

----------------------------------------------------------------------------
(* Types, and what a loop at work knows *)

\* A loop at work holds a receipt; one that acknowledges has seen its callback
\* succeed.
BusyHolds == \A c \in Readers : loop[c] \in {"working", "acking"} => item[c] # Nothing

AckedIsDone == \A c \in Readers : loop[c] = "acking" => item[c].message \in done

WorkInv ==
  /\ ConsumersTypeOK
  /\ BusyHolds
  /\ AckedIsDone
  /\ DeletedOnlyOnSuccess

LEMMA InitWorkInv == ConsumersInit => WorkInv
<1> SUFFICES ASSUME ConsumersInit PROVE WorkInv
  OBVIOUS
<1>1. ConsumersTypeOK
  BY InitTypeOK DEF ConsumersInit, ConsumersTypeOK, LoopStates, Results
<1> QED
  BY <1>1 DEF ConsumersInit, Init, WorkInv, BusyHolds, AckedIsDone, DeletedOnlyOnSuccess, Fresh

\* What consumerReceiveMessage does before its first await
LEMMA StartsReceivingEffect ==
  ASSUME TypeOK, NEW c \in Readers, NEW state, NEW res, StartsReceiving(c, state, res)
  PROVE  /\ state \in {"working", "reading", "backoff"}
         /\ UNCHANGED <<queue, arrival>>
         /\ \A s \in Readers \ {c} : item'[s] = item[s]
         /\ state = "working" => item'[c] # Nothing
<1>1. CASE ReceiveAtOnce(c) /\ state = "working"
  <2>1. PICK m \in Messages : item' = [item EXCEPT ![c] = Receipt(m, lapses[m])]
    BY <1>1 DEF ReceiveAtOnce, GetItem
  <2>2. Receipt(m, lapses[m]) # Nothing
    BY MemoryQueueAssumption DEF Receipt, Nothing
  <2> QED
    BY <1>1, <2>1, <2>2 DEF ReceiveAtOnce, TypeOK
<1>2. CASE ReceiveBlocks(c) /\ state = "reading"
  BY <1>2 DEF ReceiveBlocks
<1>3. CASE ReceiveThrows(c) /\ state = "backoff"
  BY <1>3 DEF ReceiveThrows, GetItemThrows
<1> QED
  BY <1>1, <1>2, <1>3 DEF StartsReceiving

\* A step that touches neither the queue nor what loops at work hold
LEMMA IdleStepKeepsWork ==
  ASSUME WorkInv, ConsumersTypeOK', UNCHANGED <<queue, arrival, done>>,
         \A s \in Readers :
            loop'[s] \in {"working", "acking"} =>
              \/ loop'[s] = loop[s] /\ item'[s] = item[s]
              \/ loop'[s] = "working" /\ item'[s] # Nothing
  PROVE  WorkInv'
<1>1. BusyHolds' /\ AckedIsDone'
  BY DEF WorkInv, BusyHolds, AckedIsDone
<1>2. DeletedOnlyOnSuccess'
  BY DEF WorkInv, DeletedOnlyOnSuccess, Fresh
<1> QED
  BY <1>1, <1>2 DEF WorkInv

LEMMA StepWorkInv == WorkInv /\ [ConsumersNext]_allVars => WorkInv'
<1> SUFFICES ASSUME WorkInv, [ConsumersNext]_allVars PROVE WorkInv'
  OBVIOUS
<1>1. ConsumersTypeOK /\ TypeOK /\ TypeOK'
  BY StepIsQueueStep, StepTypeOK DEF WorkInv, ConsumersTypeOK
<1> USE <1>1 DEF ConsumersTypeOK, At, Goto, Yields
<1>2. ASSUME NEW m \in Messages, Send(m) PROVE WorkInv'
  <2>1. DeletedOnlyOnSuccess'
    BY <1>2 DEF Send, SendMessage, consumerVars, WorkInv, DeletedOnlyOnSuccess, Fresh, TypeOK
  <2> QED
    BY <1>2, <2>1 DEF Send, SendMessage, consumerVars, WorkInv, BusyHolds, AckedIsDone
<1>3. ASSUME NEW m \in Messages, Expire(m) PROVE WorkInv'
  BY <1>3, IdleStepKeepsWork DEF Expire, ClaimExpires, consumerVars
<1>4. ASSUME NEW c \in Readers, Timeout(c) PROVE WorkInv'
  BY <1>4, IdleStepKeepsWork DEF Timeout, ReadTimesOut, consumerVars
<1>5. CASE Consume
  <2>1. PICK state \in LoopStates, res \in Results :
          /\ StartsReceiving(Parent, state, res)
          /\ loop' = [loop EXCEPT ![Parent] = state]
          /\ result' = [result EXCEPT ![Parent] = res]
    BY <1>5 DEF Consume
  <2>2. ConsumersTypeOK'
    BY <1>5, <2>1 DEF Consume
  <2> QED
    BY <1>5, <2>1, <2>2, StartsReceivingEffect, IdleStepKeepsWork, ConsumersAssumption DEF Consume
<1>6. ASSUME NEW c \in Readers, Receives(c) PROVE WorkInv'
  <2>1. PICK state \in LoopStates, res \in Results :
          /\ StartsReceiving(c, state, res)
          /\ loop' = [loop EXCEPT ![c] = state]
          /\ result' = [result EXCEPT ![c] = res]
    BY <1>6 DEF Receives
  <2>2. ConsumersTypeOK'
    BY <1>6, <2>1 DEF Receives
  <2> QED
    BY <1>6, <2>1, <2>2, StartsReceivingEffect, IdleStepKeepsWork DEF Receives
<1>7. ASSUME NEW c \in Readers, Resumes(c) PROVE WorkInv'
  <2>1. CASE ReturnItem(c) /\ loop' = [loop EXCEPT ![c] = "working"]
    <3>1. PICK m \in Messages : item' = [item EXCEPT ![c] = Receipt(m, lapses[m])]
      BY <2>1 DEF ReturnItem, GetItem
    <3>2. Receipt(m, lapses[m]) # Nothing
      BY MemoryQueueAssumption DEF Receipt, Nothing
    <3>3. ConsumersTypeOK'
      BY <1>7, <2>1 DEF Resumes, LoopStates, Results
    <3>4. \A s \in Readers : s # c => item'[s] = item[s] /\ loop'[s] = loop[s]
      BY <2>1, <3>1 DEF TypeOK
    <3>5. item'[c] # Nothing /\ loop'[c] = "working"
      BY <2>1, <3>1, <3>2 DEF TypeOK
    <3> QED
      BY <1>7, <2>1, <3>3, <3>4, <3>5, IdleStepKeepsWork DEF Resumes, ReturnItem
  <2>2. CASE /\ ReturnEmpty(c) \/ ReturnThrows(c)
             /\ \E state \in {"over", "backoff"} : loop' = [loop EXCEPT ![c] = state]
    <3>1. ConsumersTypeOK'
      BY <1>7, <2>2 DEF Resumes, LoopStates, Results
    <3>2. UNCHANGED <<queue, arrival, item>>
      BY <2>2 DEF ReturnEmpty, ReturnThrows, GetItemThrows
    <3> QED
      BY <1>7, <2>2, <3>1, <3>2, IdleStepKeepsWork DEF Resumes
  <2> QED
    BY <1>7, <2>1, <2>2 DEF Resumes
<1>8. ASSUME NEW c \in Readers, CallbackSucceeds(c) PROVE WorkInv'
  <2>1. /\ item[c] # Nothing
        /\ item[c].message \in Messages
    BY <1>8 DEF CallbackSucceeds, WorkInv, BusyHolds, TypeOK, Receipts
  <2>2. ConsumersTypeOK'
    BY <1>8, <2>1 DEF CallbackSucceeds, LoopStates
  <2>3. BusyHolds' /\ AckedIsDone' /\ DeletedOnlyOnSuccess'
    BY <1>8, <2>1
    DEF CallbackSucceeds, vars, WorkInv, BusyHolds, AckedIsDone, DeletedOnlyOnSuccess, Fresh
  <2> QED
    BY <2>2, <2>3 DEF WorkInv
<1>9. ASSUME NEW c \in Readers, CallbackFails(c) PROVE WorkInv'
  <2>1. ConsumersTypeOK'
    BY <1>9 DEF CallbackFails, LoopStates
  <2>2. \A s \in Readers : s # c => item'[s] = item[s] /\ loop'[s] = loop[s]
    BY <1>9 DEF CallbackFails, Abandon, TypeOK
  <2> QED
    BY <1>9, <2>1, <2>2, IdleStepKeepsWork DEF CallbackFails, Abandon
<1>10. ASSUME NEW c \in Readers, Acknowledges(c) PROVE WorkInv'
  <2>1. ConsumersTypeOK'
    BY <1>10 DEF Acknowledges, LoopStates
  <2>2. /\ \A s \in Readers : s # c => item'[s] = item[s] /\ loop'[s] = loop[s]
        /\ loop'[c] = "over"
        /\ queue' = queue \ {item[c].message}
        /\ UNCHANGED <<arrival, done>>
        /\ item[c].message \in done
    BY <1>10 DEF Acknowledges, DeleteMessage, TypeOK, WorkInv, AckedIsDone
  <2> QED
    BY <2>1, <2>2 DEF WorkInv, BusyHolds, AckedIsDone, DeletedOnlyOnSuccess, Fresh
<1>11. ASSUME NEW c \in Readers, BackoffEnds(c) \/ LoopEnds(c) PROVE WorkInv'
  <2>1. ConsumersTypeOK'
    BY <1>11 DEF BackoffEnds, LoopEnds, LoopStates
  <2> QED
    BY <1>11, <2>1, IdleStepKeepsWork DEF BackoffEnds, LoopEnds, vars
<1>12. ASSUME NEW child \in Children, ParentLaunches(child) PROVE WorkInv'
  <2>1. PICK state \in LoopStates, res \in Results :
          /\ StartsReceiving(child, state, res)
          /\ loop' = [loop EXCEPT ![Parent] = "next", ![child] = state]
          /\ result' = [result EXCEPT ![Parent] = "empty", ![child] = res]
    BY <1>12 DEF ParentLaunches
  <2>2. child \in Readers /\ child # Parent /\ Parent \in Readers
    BY ConsumersAssumption DEF Children
  <2>3. ConsumersTypeOK'
    BY <1>12, <2>1, <2>2 DEF ParentLaunches, LoopStates, Results
  <2> QED
    BY <1>12, <2>1, <2>2, <2>3, StartsReceivingEffect, IdleStepKeepsWork DEF ParentLaunches
<1>13. CASE ParentGoesOn \/ \E child \in Children : ChildDecides(child)
  <2>1. ConsumersTypeOK'
    BY <1>13, ConsumersAssumption DEF ParentGoesOn, ChildDecides, Children, LoopStates, Results
  <2> QED
    BY <1>13, <2>1, ConsumersAssumption, IdleStepKeepsWork
    DEF ParentGoesOn, ChildDecides, Children, vars
<1>14. CASE CancelStarts \/ CancelSettles
  BY <1>14, IdleStepKeepsWork DEF CancelStarts, CancelSettles, vars
<1>15. CASE UNCHANGED allVars
  BY <1>15, IdleStepKeepsWork DEF allVars, vars, consumerVars
<1> QED
  BY <1>2, <1>3, <1>4, <1>5, <1>6, <1>7, <1>8, <1>9, <1>10, <1>11, <1>12, <1>13, <1>14, <1>15
  DEF ConsumersNext, LoopStep, ParentStep

LEMMA WorkCorrect == ConsumersSpec => []WorkInv
  BY InitWorkInv, StepWorkInv, PTL DEF ConsumersSpec

\* consumerReceiveMessage deletes a message after its callback and not otherwise:
\* nothing leaves the queue unprocessed, whoever else works on it meanwhile.
THEOREM DeletionsFollowSuccess == ConsumersSpec => []DeletedOnlyOnSuccess
  BY WorkCorrect, PTL DEF WorkInv

----------------------------------------------------------------------------
(* The number of consumers *)

\* Every loop that is not off is the parent or one it keeps track of
FewConsumers ==
  /\ Active \subseteq consumers \union {Parent}
  /\ consumers \subseteq Children
  /\ Cardinality(consumers) <= MaxConsumers - 1

\* Few enough loops are tracked for the bound to hold of those alive
LEMMA FewConsumersSuffice == FewConsumers => ConsumersBounded
<1> SUFFICES ASSUME FewConsumers PROVE Cardinality(Active) <= MaxConsumers
  BY DEF ConsumersBounded
<1>1. IsFiniteSet(consumers) /\ Parent \notin consumers
  BY FS_Subset, ConsumersAssumption DEF FewConsumers, Children
<1>2. /\ IsFiniteSet(consumers \union {Parent})
      /\ Cardinality(consumers \union {Parent}) = Cardinality(consumers) + 1
      /\ Cardinality(consumers) \in Nat
  BY <1>1, FS_AddElement, FS_CardinalityType
<1>3. Cardinality(Active) <= Cardinality(consumers \union {Parent}) /\ Cardinality(Active) \in Nat
  BY <1>2, FS_Subset, FS_CardinalityType DEF FewConsumers
<1> QED
  BY <1>2, <1>3, ConsumersAssumption DEF FewConsumers

LEMMA InitFewConsumers == ConsumersInit => FewConsumers
  BY FS_EmptySet, ConsumersAssumption DEF ConsumersInit, FewConsumers, Active, At

LEMMA StepFewConsumers == WorkInv /\ FewConsumers /\ [ConsumersNext]_allVars => FewConsumers'
<1> SUFFICES ASSUME WorkInv, FewConsumers, [ConsumersNext]_allVars PROVE FewConsumers'
  OBVIOUS
<1> USE DEF FewConsumers, Active, At, Goto
<1>1. loop \in [Readers -> LoopStates]
  BY DEF WorkInv, ConsumersTypeOK
<1>2. ASSUME UNCHANGED consumers,
             \A c \in Readers : loop'[c] # "off" => loop[c] # "off" \/ c = Parent
      PROVE  FewConsumers'
  BY <1>2
<1>3. ASSUME UNCHANGED <<loop, consumers>> PROVE FewConsumers'
  BY <1>3, <1>2
<1>4. ASSUME NEW c \in Readers, LoopStep(c), ~LoopEnds(c) PROVE FewConsumers'
  <2>1. /\ UNCHANGED consumers
        /\ loop[c] # "off"
        /\ \E state : loop' = [loop EXCEPT ![c] = state]
    BY <1>4
    DEF LoopStep, Receives, Resumes, CallbackSucceeds, CallbackFails, Acknowledges, BackoffEnds
  <2> QED
    BY <1>1, <1>2, <2>1
<1>5. ASSUME NEW c \in Readers, LoopEnds(c) PROVE FewConsumers'
  <2>1. /\ consumers' = consumers \ {c}
        /\ loop' = [loop EXCEPT ![c] = "off"]
    BY <1>5 DEF LoopEnds
  <2>2. Active' = Active \ {c}
    BY <1>1, <2>1
  <2>3. IsFiniteSet(consumers)
    BY FS_Subset, ConsumersAssumption DEF Children
  <2>4. /\ Cardinality(consumers') <= Cardinality(consumers)
        /\ Cardinality(consumers') \in Nat
        /\ Cardinality(consumers) \in Nat
    BY <2>1, <2>3, FS_Subset, FS_CardinalityType
  <2> QED
    BY <2>1, <2>2, <2>4, ConsumersAssumption
<1>6. ASSUME NEW child \in Children, ParentLaunches(child) PROVE FewConsumers'
  <2>1. /\ Cardinality(consumers) < MaxConsumers - 1
        /\ consumers' = consumers \union {child}
        /\ \E state : loop' = [loop EXCEPT ![Parent] = "next", ![child] = state]
    BY <1>6 DEF ParentLaunches, MayLaunch
  <2>2. Active' \subseteq Active \union {child, Parent}
    BY <1>1, <2>1
  <2>3. IsFiniteSet(consumers)
    BY FS_Subset, ConsumersAssumption DEF Children
  <2>4. /\ Cardinality(consumers') <= Cardinality(consumers) + 1
        /\ Cardinality(consumers') \in Nat
        /\ Cardinality(consumers) \in Nat
    <3>1. /\ IsFiniteSet(consumers \union {child})
          /\ Cardinality(consumers \union {child}) =
               IF child \in consumers THEN Cardinality(consumers) ELSE Cardinality(consumers) + 1
      BY <2>3, FS_AddElement
    <3>2. Cardinality(consumers) \in Nat /\ Cardinality(consumers \union {child}) \in Nat
      BY <2>3, <3>1, FS_CardinalityType
    <3> QED
      BY <2>1, <3>1, <3>2
  <2>5. Cardinality(consumers') <= MaxConsumers - 1
    BY <2>1, <2>4, ConsumersAssumption
  <2>6. Active' \subseteq consumers' \union {Parent} /\ consumers' \subseteq Children
    BY <2>1, <2>2
  <2> QED
    BY <2>5, <2>6
<1>7. CASE ParentGoesOn \/ Consume
  <2>1. UNCHANGED consumers /\ \E state : loop' = [loop EXCEPT ![Parent] = state]
    BY <1>7 DEF ParentGoesOn, Consume
  <2> QED
    BY <1>1, <1>2, <2>1
<1>8. ASSUME NEW child \in Children, ChildDecides(child) PROVE FewConsumers'
  <2>1. UNCHANGED consumers /\ loop[child] # "off" /\ loop' = [loop EXCEPT ![child] = "next"]
    BY <1>8 DEF ChildDecides
  <2> QED
    BY <1>1, <1>2, <2>1
<1> QED
  BY <1>3, <1>4, <1>5, <1>6, <1>7, <1>8
  DEF ConsumersNext, LoopStep, ParentStep, Send, Expire, Timeout, CancelStarts, CancelSettles,
      allVars, consumerVars

LEMMA FewCorrect == ConsumersSpec => []FewConsumers
  BY InitFewConsumers, StepFewConsumers, WorkCorrect, PTL DEF ConsumersSpec

\* consume() keeps at most maxConsumers loops alive, whatever maxConsumers is.
THEOREM ConsumersAreBounded == ConsumersSpec => []ConsumersBounded
  BY FewCorrect, FewConsumersSuffice, PTL

\* The consumers and the queue keep their types.
THEOREM ConsumersTypeCorrect == ConsumersSpec => []ConsumersTypeOK
  BY WorkCorrect, PTL DEF WorkInv

----------------------------------------------------------------------------
(* After cancel() *)

\* cancel() has settled and the iteration of the parent it met is over.
ParentIsOver == consume = "cancelled" /\ loop[Parent] \in {"next", "off"}

CancelledStops == consume = "cancelled" => ~shouldRun[Parent]

\* Once cancelled no consumer is launched, but for one: what ends the iteration the
\* parent was in, and nothing follows it.
LaunchesOnceMore ==
  consume = "cancelled" =>
    /\ ParentIsOver => ParentIsOver' /\ consumers' \subseteq consumers
    /\ consumers' \subseteq consumers \/ ParentIsOver'

LEMMA CancelledStep ==
  ASSUME WorkInv, CancelledStops, [ConsumersNext]_allVars
  PROVE  CancelledStops' /\ LaunchesOnceMore
<1>1. /\ loop \in [Readers -> LoopStates] /\ shouldRun \in [Readers -> BOOLEAN]
      /\ Parent \in Readers /\ \A child \in Children : child \in Readers /\ child # Parent
  BY ConsumersAssumption DEF WorkInv, ConsumersTypeOK, Children
<1>2. CASE UNCHANGED <<loop, shouldRun, consumers, consume>>
  BY <1>2 DEF CancelledStops, LaunchesOnceMore, ParentIsOver
<1>3. ASSUME NEW c \in Readers, LoopStep(c) PROVE CancelledStops' /\ LaunchesOnceMore
  <2>1. /\ UNCHANGED <<shouldRun, consume>> /\ consumers' \subseteq consumers
        /\ \E state : loop' = [loop EXCEPT ![c] = state]
    BY <1>3 DEF LoopStep, Receives, Resumes, CallbackSucceeds, CallbackFails, Acknowledges,
                BackoffEnds, LoopEnds, Goto
  <2>2. CASE c # Parent
    BY <1>1, <2>1, <2>2 DEF CancelledStops, LaunchesOnceMore, ParentIsOver
  <2>3. CASE c = Parent /\ ~ParentIsOver
    BY <2>1, <2>3 DEF CancelledStops, LaunchesOnceMore
  <2>4. CASE c = Parent /\ ParentIsOver
    <3>1. LoopEnds(Parent)
      BY <1>3, <2>4 DEF LoopStep, Receives, Resumes, CallbackSucceeds, CallbackFails, Acknowledges,
                        BackoffEnds, At, ParentIsOver, CancelledStops
    <3>. QED BY <1>1, <2>1, <3>1 DEF LoopEnds, Goto, CancelledStops, LaunchesOnceMore, ParentIsOver
  <2>. QED BY <2>2, <2>3, <2>4
<1>4. ASSUME NEW child \in Children, ParentLaunches(child) PROVE CancelledStops' /\ LaunchesOnceMore
  <2>1. /\ loop[Parent] = "over" /\ loop'[Parent] = "next" /\ shouldRun'[Parent] = shouldRun[Parent]
        /\ consume' = consume
    BY <1>1, <1>4 DEF ParentLaunches, At
  <2>. QED BY <2>1 DEF CancelledStops, LaunchesOnceMore, ParentIsOver
<1>5. CASE ParentGoesOn
  BY <1>1, <1>5 DEF ParentGoesOn, Goto, CancelledStops, LaunchesOnceMore, ParentIsOver
<1>6. ASSUME NEW child \in Children, ChildDecides(child) PROVE CancelledStops' /\ LaunchesOnceMore
  BY <1>1, <1>6 DEF ChildDecides, Goto, CancelledStops, LaunchesOnceMore, ParentIsOver
<1>7. CASE Consume \/ CancelStarts
  BY <1>7 DEF Consume, CancelStarts, CancelledStops, LaunchesOnceMore
<1>8. CASE CancelSettles
  BY <1>1, <1>8 DEF CancelSettles, CancelledStops, LaunchesOnceMore
<1>. QED
  BY <1>2, <1>3, <1>4, <1>5, <1>6, <1>7, <1>8
     DEF ConsumersNext, ParentStep, Send, Expire, Timeout, allVars, consumerVars

\* The comment of cancel() says that future iterations are stopped, and a run shows
\* that one consumer more may be launched.  It is never more than one: the parent
\* launches at the end of the iteration that cancel() met, and does not begin another.
THEOREM OneLaunchAfterCancel == ConsumersSpec => [][LaunchesOnceMore]_allVars
<1>1. ConsumersInit => CancelledStops
  BY DEF ConsumersInit, CancelledStops
<1>2. WorkInv /\ CancelledStops /\ [ConsumersNext]_allVars
      => CancelledStops' /\ [LaunchesOnceMore]_allVars
  BY CancelledStep
<1>. QED BY <1>1, <1>2, WorkCorrect, PTL DEF ConsumersSpec
=============================================================================
