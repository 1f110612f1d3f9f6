---------------------------- MODULE MemoryQueue ----------------------------
(***************************************************************************)
(* MemoryQueue of @webda/core (packages/core/src/queues/memoryqueue.ts):   *)
(* the in-memory FIFO queue.  Several asynchronous callers share one       *)
(* instance; an action is the code that runs between two awaits.           *)
(*                                                                         *)
(* The clock is abstracted to what getItem compares: a message is in       *)
(* `claimed` while its Claimed stamp is younger than expireMs, and         *)
(* ClaimExpires is the passage of that time.  `lapses` counts, per         *)
(* message, how often that happened: it is history, read by no guard but   *)
(* the bound MaxLapses.                                                    *)
(*                                                                         *)
(* pendingReads is never shifted more often than a message is sent, so an  *)
(* entry behind MaxPendingReads >= |Messages| others is never called: such *)
(* an entry is not recorded.  That is the bound on the list, which in the  *)
(* code grows with every read that times out.                              *)
(***************************************************************************)
EXTENDS Integers, Sequences, FiniteSets

CONSTANTS
  Messages,        \* the uids sendMessage draws
  Poison,          \* messages whose body unserialize cannot read
  Readers,         \* concurrent callers of receiveMessage
  NoMessage,       \* "this reader holds nothing"
  ReadTimeout,     \* TRUE when parameters.timeout is set
  MaxLapses,       \* bound: how often a claim on one message may expire
  MaxPendingReads  \* bound: length of pendingReads, see above

ASSUME MemoryQueueAssumption ==
  /\ IsFiniteSet(Messages)
  /\ Poison \subseteq Messages
  /\ NoMessage \notin Messages
  /\ ReadTimeout \in BOOLEAN
  /\ MaxLapses \in Nat
  /\ MaxPendingReads \in Nat
  /\ MaxPendingReads >= Cardinality(Messages)

VARIABLES
  queue,         \* the keys of _queue
  sent,          \* number of messages sent so far
  arrival,       \* insertion rank of a key, 0 before sendMessage
  claimed,       \* keys whose Claimed is at most expireMs old
  lapses,        \* history: claims that expired, per message
  pendingReads,  \* readers to call on sendMessage, and whether they still wait
  reader,        \* where each caller is in receiveMessage
  item           \* the receipt each caller holds, or Nothing

vars == <<queue, sent, arrival, claimed, lapses, pendingReads, reader, item>>

ReaderStates == {"idle", "blocked", "woken"}

Nothing == [message |-> NoMessage, lapse |-> 0]

Receipts == [message : Messages, lapse : Nat]

\* The receipt of m handed out after its n-th lapse
Receipt(m, n) == [message |-> m, lapse |-> n]

PendingRead(r, live) == [reader |-> r, live |-> live]

TypeOK ==
  /\ queue \in SUBSET Messages
  /\ sent \in Nat
  /\ arrival \in [Messages -> Nat]
  /\ claimed \in SUBSET queue
  /\ lapses \in [Messages -> Nat]
  /\ pendingReads \in Seq([reader : Readers, live : BOOLEAN])
  /\ reader \in [Readers -> ReaderStates]
  /\ item \in [Readers -> Receipts \union {Nothing}]

Init ==
  /\ queue = {}
  /\ sent = 0
  /\ arrival = [m \in Messages |-> 0]
  /\ claimed = {}
  /\ lapses = [m \in Messages |-> 0]
  /\ pendingReads = <<>>
  /\ reader = [r \in Readers |-> "idle"]
  /\ item = [r \in Readers |-> Nothing]

----------------------------------------------------------------------------
(* getItem: the first key, in insertion order, that nobody claims *)

Claimable == queue \ claimed

\* Mutant: the keys are visited from the youngest
IsYoungest(m) == m \in Claimable /\ \A n \in Claimable : arrival[m] >= arrival[n]

IsFirst(m) == m \in Claimable /\ \A n \in Claimable : arrival[m] <= arrival[n]

\* Mutant: the claim is not stamped
GetItemUnclaimed(r) ==
  \E m \in Messages :
    /\ IsFirst(m) /\ m \notin Poison
    /\ item' = [item EXCEPT ![r] = Receipt(m, lapses[m])]
    /\ UNCHANGED claimed

GetItem(r) ==
  \E m \in Messages :
    /\ IsFirst(m) /\ m \notin Poison
    /\ claimed' = claimed \union {m}
    /\ item' = [item EXCEPT ![r] = Receipt(m, lapses[m])]

\* unserialize throws after the claim was stamped: the caller gets an error
GetItemThrows ==
  \E m \in Messages :
    /\ IsFirst(m) /\ m \in Poison
    /\ claimed' = claimed \union {m}
    /\ UNCHANGED item

----------------------------------------------------------------------------
(* sendMessage, which also calls the read that has waited longest *)

Fresh(m) == arrival[m] = 0

ShiftPendingReads ==
  /\ pendingReads' = IF pendingReads = <<>> THEN <<>> ELSE Tail(pendingReads)
  /\ reader' = IF pendingReads # <<>> /\ Head(pendingReads).live
               THEN [reader EXCEPT ![Head(pendingReads).reader] = "woken"]
               ELSE reader

\* Mutant: only the message that ends an empty queue interrupts a read
SendMessageToEmpty(m) ==
  /\ Fresh(m)
  /\ queue' = queue \union {m}
  /\ sent' = sent + 1
  /\ arrival' = [arrival EXCEPT ![m] = sent + 1]
  /\ IF queue = {} THEN ShiftPendingReads ELSE UNCHANGED <<pendingReads, reader>>
  /\ UNCHANGED <<claimed, lapses, item>>

SendMessage(m) ==
  /\ Fresh(m)
  /\ queue' = queue \union {m}
  /\ sent' = sent + 1
  /\ arrival' = [arrival EXCEPT ![m] = sent + 1]
  /\ ShiftPendingReads
  /\ UNCHANGED <<claimed, lapses, item>>

----------------------------------------------------------------------------
(* receiveMessage: return an item at once, or wait for a send or a timeout *)
(* and look a second time.                                                 *)

Ready(r) == reader[r] = "idle" /\ item[r] = Nothing

ReceiveAtOnce(r) ==
  /\ Ready(r)
  /\ GetItem(r)
  /\ UNCHANGED <<queue, sent, arrival, lapses, pendingReads, reader>>

ReceiveBlocks(r) ==
  /\ Ready(r)
  /\ Claimable = {}
  /\ reader' = [reader EXCEPT ![r] = "blocked"]
  /\ pendingReads' = IF Len(pendingReads) < MaxPendingReads
                     THEN Append(pendingReads, PendingRead(r, TRUE))
                     ELSE pendingReads
  /\ UNCHANGED <<queue, sent, arrival, claimed, lapses, item>>

ReceiveThrows(r) ==
  /\ Ready(r)
  /\ GetItemThrows
  /\ UNCHANGED <<queue, sent, arrival, lapses, pendingReads, reader>>

\* Mutant: the timer drops the oldest entry instead of its own
ReadTimesOutShifts(r) ==
  /\ ReadTimeout
  /\ reader[r] = "blocked"
  /\ reader' = [reader EXCEPT ![r] = "woken"]
  /\ pendingReads' = IF pendingReads = <<>> THEN <<>> ELSE Tail(pendingReads)
  /\ UNCHANGED <<queue, sent, arrival, claimed, lapses, item>>

\* The timer resolves the read.  The filter that should drop the entry compares
\* the registered wrapper with `resolve` and keeps it: it goes on in the list,
\* and calling it later wakes nobody.
ReadTimesOut(r) ==
  /\ ReadTimeout
  /\ reader[r] = "blocked"
  /\ reader' = [reader EXCEPT ![r] = "woken"]
  /\ pendingReads' = [i \in DOMAIN pendingReads |->
                        IF pendingReads[i].reader = r
                        THEN PendingRead(r, FALSE)
                        ELSE pendingReads[i]]
  /\ UNCHANGED <<queue, sent, arrival, claimed, lapses, item>>

ReturnItem(r) ==
  /\ reader[r] = "woken"
  /\ GetItem(r)
  /\ reader' = [reader EXCEPT ![r] = "idle"]
  /\ UNCHANGED <<queue, sent, arrival, lapses, pendingReads>>

ReturnEmpty(r) ==
  /\ reader[r] = "woken"
  /\ Claimable = {}
  /\ reader' = [reader EXCEPT ![r] = "idle"]
  /\ UNCHANGED <<queue, sent, arrival, claimed, lapses, pendingReads, item>>

ReturnThrows(r) ==
  /\ reader[r] = "woken"
  /\ GetItemThrows
  /\ reader' = [reader EXCEPT ![r] = "idle"]
  /\ UNCHANGED <<queue, sent, arrival, lapses, pendingReads>>

----------------------------------------------------------------------------
(* What a caller does with its receipt, and the clock *)

\* Mutant: the claim outlives its message
DeleteMessageKeepsClaim(r) ==
  /\ item[r] # Nothing
  /\ queue' = queue \ {item[r].message}
  /\ item' = [item EXCEPT ![r] = Nothing]
  /\ UNCHANGED <<claimed, sent, arrival, lapses, pendingReads, reader>>

DeleteMessage(r) ==
  /\ item[r] # Nothing
  /\ queue' = queue \ {item[r].message}
  /\ claimed' = claimed \ {item[r].message}
  /\ item' = [item EXCEPT ![r] = Nothing]
  /\ UNCHANGED <<sent, arrival, lapses, pendingReads, reader>>

\* The caller failed on the message and never deletes it
Abandon(r) ==
  /\ item[r] # Nothing
  /\ item' = [item EXCEPT ![r] = Nothing]
  /\ UNCHANGED <<queue, sent, arrival, claimed, lapses, pendingReads, reader>>

\* Mutant: a message whose claim expires is dropped
ClaimExpiresDrops(m) ==
  /\ m \in claimed
  /\ lapses[m] < MaxLapses
  /\ queue' = queue \ {m}
  /\ claimed' = claimed \ {m}
  /\ lapses' = [lapses EXCEPT ![m] = @ + 1]
  /\ UNCHANGED <<sent, arrival, pendingReads, reader, item>>

ClaimExpires(m) ==
  /\ m \in claimed
  /\ lapses[m] < MaxLapses
  /\ claimed' = claimed \ {m}
  /\ lapses' = [lapses EXCEPT ![m] = @ + 1]
  /\ UNCHANGED <<queue, sent, arrival, pendingReads, reader, item>>

Receive(r) ==
  \/ ReceiveAtOnce(r)
  \/ ReceiveBlocks(r)
  \/ ReceiveThrows(r)

Return(r) ==
  \/ ReturnItem(r)
  \/ ReturnEmpty(r)
  \/ ReturnThrows(r)

Next ==
  \/ \E m \in Messages : SendMessage(m) \/ ClaimExpires(m)
  \/ \E r \in Readers :
       \/ Receive(r)
       \/ ReadTimesOut(r)
       \/ Return(r)
       \/ DeleteMessage(r)
       \/ Abandon(r)

Spec == Init /\ [][Next]_vars

----------------------------------------------------------------------------
(* Safety *)

\* Two callers are given the same message only when the claim of the first one
\* expired in between (Claimed is stamped before any await of getItem's caller).
ExclusiveClaim ==
  \A r, s \in Readers :
    r # s /\ item[r] # Nothing => item[r] # item[s]

Delivered(m) == ~Fresh(m) /\ (m \notin queue \/ m \in claimed \/ lapses[m] > 0)

\* FIFO: a message is not delivered for the first time before an older one
\* (for..in over _queue visits the keys in the order sendMessage inserted them).
FirstDeliveryInOrder ==
  \A m, n \in Messages :
    ~Fresh(m) /\ arrival[m] < arrival[n] /\ Delivered(n) => Delivered(m)

LiveReads(r) ==
  {i \in DOMAIN pendingReads : pendingReads[i] = PendingRead(r, TRUE)}

\* A caller is waiting in receiveMessage exactly while one live entry of
\* pendingReads can wake it (beyond the bound of the list, none has to): neither
\* a timeout nor a send leaves a waiting caller that nobody knows of.  An entry
\* left out at the bound implies a list that only sends have shortened since.
BlockedIsListed ==
  \A r \in Readers :
    /\ \A i, j \in LiveReads(r) : i = j
    /\ LiveReads(r) # {} => reader[r] = "blocked"
    /\ reader[r] = "blocked" =>
         LiveReads(r) # {} \/ MaxPendingReads - Len(pendingReads) <= sent

\* A queue is an at-least-once queue: no step loses a message, and a message
\* leaves only through deleteMessage with a receipt that was handed out.
Stage(m) ==
  IF Fresh(m) THEN "unsent"
  ELSE IF m \notin queue THEN "deleted"
  ELSE IF m \in claimed THEN "leased"
  ELSE "available"

AtLeastOnce == INSTANCE AtLeastOnceQueue WITH
  stage <- [m \in Messages |-> Stage(m)],
  hand <- [r \in Readers |-> item[r].message]

IsAtLeastOnce == AtLeastOnce!Spec

\* "We wait before returning an empty array or a message if interrupted": a send
\* that finds readers waiting interrupts one of them.
SendWakesReader ==
  [][\A m \in Messages :
       /\ Fresh(m) /\ ~Fresh(m)'
       /\ \E r \in Readers : reader[r] = "blocked"
       => \E r \in Readers : reader[r] = "blocked" /\ reader'[r] = "woken"]_vars
=============================================================================
