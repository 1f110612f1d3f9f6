------------------------- MODULE MemoryQueueProofs -------------------------
(***************************************************************************)
(* What MemoryQueue guarantees for any number of messages and callers.     *)
(***************************************************************************)
EXTENDS MemoryQueue, SequenceTheorems, FiniteSetTheorems, TLAPS

LEMMA ReceiptFields ==
  ASSUME NEW m, NEW n
  PROVE  Receipt(m, n).message = m /\ Receipt(m, n).lapse = n
  BY DEF Receipt

LEMMA FunctionIsSeq ==
  ASSUME NEW S, NEW n \in Nat, NEW f \in [1..n -> S]
  PROVE  f \in Seq(S) /\ Len(f) = n
  OBVIOUS

LEMMA InitTypeOK == Init => TypeOK
  BY MemoryQueueAssumption DEF Init, TypeOK, ReaderStates, Nothing, Receipts

LEMMA StepTypeOK == TypeOK /\ [Next]_vars => TypeOK'
<1> SUFFICES ASSUME TypeOK, [Next]_vars PROVE TypeOK'
  OBVIOUS
<1> USE MemoryQueueAssumption DEF TypeOK, ReaderStates, Receipts
<1>1. ASSUME NEW m \in Messages, SendMessage(m) PROVE TypeOK'
  <2>1. pendingReads' \in Seq([reader : Readers, live : BOOLEAN])
    BY <1>1, HeadTailProperties DEF SendMessage, ShiftPendingReads
  <2>2. reader' \in [Readers -> ReaderStates]
    BY <1>1, HeadTailProperties DEF SendMessage, ShiftPendingReads
  <2> QED
    BY <1>1, <2>1, <2>2 DEF SendMessage
<1>2. ASSUME NEW m \in Messages, ClaimExpires(m) PROVE TypeOK'
  BY <1>2 DEF ClaimExpires
<1>3. ASSUME NEW r \in Readers, GetItem(r) PROVE claimed' \in SUBSET queue /\ item' \in [Readers -> Receipts \union {Nothing}]
  BY <1>3 DEF GetItem, IsFirst, Claimable, Receipt
<1>4. ASSUME GetItemThrows PROVE claimed' \in SUBSET queue /\ item' = item
  BY <1>4 DEF GetItemThrows, IsFirst, Claimable
<1>5. ASSUME NEW r \in Readers, Receive(r) PROVE TypeOK'
  <2>1. CASE ReceiveAtOnce(r)
    <3>1. claimed' \in SUBSET queue /\ item' \in [Readers -> Receipts \union {Nothing}]
      BY <2>1, <1>3 DEF ReceiveAtOnce
    <3> QED
      BY <2>1, <3>1 DEF ReceiveAtOnce
  <2>2. CASE ReceiveBlocks(r)
    <3>1. PendingRead(r, TRUE) \in [reader : Readers, live : BOOLEAN]
      BY DEF PendingRead
    <3>2. pendingReads' \in Seq([reader : Readers, live : BOOLEAN])
      BY <2>2, <3>1, AppendProperties DEF ReceiveBlocks
    <3>3. reader' \in [Readers -> ReaderStates]
      BY <2>2 DEF ReceiveBlocks
    <3> QED
      BY <2>2, <3>2, <3>3 DEF ReceiveBlocks
  <2>3. CASE ReceiveThrows(r)
    BY <2>3, <1>4 DEF ReceiveThrows
  <2> QED
    BY <1>5, <2>1, <2>2, <2>3 DEF Receive
<1>6. ASSUME NEW r \in Readers, ReadTimesOut(r) PROVE TypeOK'
  <2>1. pendingReads' \in Seq([reader : Readers, live : BOOLEAN])
    <3> DEFINE Entries == [reader : Readers, live : BOOLEAN]
    <3>1. pendingReads \in [1..Len(pendingReads) -> Entries] /\ Len(pendingReads) \in Nat
      BY LenProperties
    <3>2. PendingRead(r, FALSE) \in Entries
      BY DEF PendingRead
    <3>3. pendingReads' \in [1..Len(pendingReads) -> Entries]
      BY <1>6, <3>1, <3>2 DEF ReadTimesOut
    <3> QED
      BY <3>1, <3>3, FunctionIsSeq
  <2>2. reader' \in [Readers -> ReaderStates]
    BY <1>6 DEF ReadTimesOut
  <2> QED
    BY <1>6, <2>1, <2>2 DEF ReadTimesOut
<1>7. ASSUME NEW r \in Readers, Return(r) PROVE TypeOK'
  <2>1. CASE ReturnItem(r)
    <3>1. claimed' \in SUBSET queue /\ item' \in [Readers -> Receipts \union {Nothing}]
      BY <2>1, <1>3 DEF ReturnItem
    <3> QED
      BY <2>1, <3>1 DEF ReturnItem
  <2>2. CASE ReturnEmpty(r)
    BY <2>2 DEF ReturnEmpty
  <2>3. CASE ReturnThrows(r)
    BY <2>3, <1>4 DEF ReturnThrows
  <2> QED
    BY <1>7, <2>1, <2>2, <2>3 DEF Return
<1>8. ASSUME NEW r \in Readers, DeleteMessage(r) PROVE TypeOK'
  BY <1>8 DEF DeleteMessage
<1>9. ASSUME NEW r \in Readers, Abandon(r) PROVE TypeOK'
  BY <1>9 DEF Abandon
<1>10. CASE UNCHANGED vars
  BY <1>10 DEF vars
<1> QED
  BY <1>1, <1>2, <1>5, <1>6, <1>7, <1>8, <1>9, <1>10 DEF Next

\* Every variable keeps its type, for any number of messages and callers
\* (memoryqueue.ts: no reader holds what sendMessage never stored, and a claim is
\* always on a key of _queue).
THEOREM TypeCorrect == Spec => []TypeOK
  BY InitTypeOK, StepTypeOK, PTL DEF Spec

----------------------------------------------------------------------------
(* The list of pending reads *)

LiveIsBlocked ==
  \A i \in DOMAIN pendingReads :
    pendingReads[i].live => reader[pendingReads[i].reader] = "blocked"

LiveIsListedOnce ==
  \A i, j \in DOMAIN pendingReads :
    /\ pendingReads[i].live /\ pendingReads[j].live
    /\ pendingReads[i].reader = pendingReads[j].reader
    => i = j

Listed(r) == \E i \in DOMAIN pendingReads : pendingReads[i] = PendingRead(r, TRUE)

BlockedIsLive ==
  \A r \in Readers :
    reader[r] = "blocked" => Listed(r) \/ MaxPendingReads - Len(pendingReads) <= sent

ReadsInv ==
  /\ TypeOK
  /\ Len(pendingReads) <= MaxPendingReads
  /\ LiveIsBlocked
  /\ LiveIsListedOnce
  /\ BlockedIsLive

LEMMA ReadsInvSuffices == ReadsInv => BlockedIsListed
<1> SUFFICES ASSUME ReadsInv, NEW r \in Readers
             PROVE  /\ \A i, j \in LiveReads(r) : i = j
                    /\ LiveReads(r) # {} => reader[r] = "blocked"
                    /\ reader[r] = "blocked" =>
                         LiveReads(r) # {} \/ MaxPendingReads - Len(pendingReads) <= sent
  BY DEF BlockedIsListed
<1>1. \A i \in LiveReads(r) :
        i \in DOMAIN pendingReads /\ pendingReads[i].live /\ pendingReads[i].reader = r
  BY DEF LiveReads, PendingRead
<1> QED
  BY <1>1 DEF ReadsInv, LiveIsBlocked, LiveIsListedOnce, BlockedIsLive, Listed, LiveReads

LEMMA InitReadsInv == Init => ReadsInv
  BY InitTypeOK, MemoryQueueAssumption
  DEF Init, ReadsInv, LiveIsBlocked, LiveIsListedOnce, BlockedIsLive

LEMMA PendingReadsShape ==
  ASSUME TypeOK
  PROVE  /\ pendingReads \in Seq([reader : Readers, live : BOOLEAN])
         /\ Len(pendingReads) \in Nat
         /\ DOMAIN pendingReads = 1..Len(pendingReads)
         /\ \A i \in 1..Len(pendingReads) :
              pendingReads[i].reader \in Readers /\ pendingReads[i].live \in BOOLEAN
<1>1. pendingReads \in Seq([reader : Readers, live : BOOLEAN])
  BY DEF TypeOK
<1>2. /\ Len(pendingReads) \in Nat
      /\ pendingReads \in [1..Len(pendingReads) -> [reader : Readers, live : BOOLEAN]]
      /\ DOMAIN pendingReads = 1..Len(pendingReads)
  BY <1>1, LenProperties
<1> QED
  BY <1>1, <1>2

LEMMA AppendedEntry ==
  ASSUME TypeOK, NEW r \in Readers, pendingReads' = Append(pendingReads, PendingRead(r, TRUE))
  PROVE  /\ Len(pendingReads') = Len(pendingReads) + 1
         /\ DOMAIN pendingReads' = 1..Len(pendingReads) + 1
         /\ \A i \in 1..Len(pendingReads) : pendingReads'[i] = pendingReads[i]
         /\ pendingReads'[Len(pendingReads) + 1] = PendingRead(r, TRUE)
<1>. DEFINE Entries == [reader : Readers, live : BOOLEAN]
            entry == PendingRead(r, TRUE)
<1>1. pendingReads \in Seq(Entries) /\ entry \in Entries
  BY DEF TypeOK, PendingRead
<1>2. pendingReads' = Append(pendingReads, entry)
  OBVIOUS
<1>. HIDE DEF Entries, entry
<1>3. /\ Append(pendingReads, entry) \in Seq(Entries)
      /\ Len(Append(pendingReads, entry)) = Len(pendingReads) + 1
      /\ \A i \in 1..Len(pendingReads) : Append(pendingReads, entry)[i] = pendingReads[i]
      /\ Append(pendingReads, entry)[Len(pendingReads) + 1] = entry
  BY <1>1, AppendProperties
<1>4. DOMAIN pendingReads' = 1..Len(pendingReads) + 1
  BY <1>2, <1>3, LenProperties
<1>. QED BY <1>2, <1>3, <1>4 DEF entry

\* A step that leaves the list alone, and blocks or wakes nobody
LEMMA QuietKeepsReads ==
  ASSUME ReadsInv, TypeOK', UNCHANGED <<sent, pendingReads>>,
         \A r \in Readers : reader'[r] = "blocked" <=> reader[r] = "blocked"
  PROVE  ReadsInv'
<1>1. \A i \in DOMAIN pendingReads : pendingReads[i].reader \in Readers
  BY PendingReadsShape DEF ReadsInv
<1>2. LiveIsBlocked' /\ LiveIsListedOnce'
  BY <1>1 DEF ReadsInv, LiveIsBlocked, LiveIsListedOnce
<1>3. BlockedIsLive'
  BY DEF ReadsInv, BlockedIsLive, Listed
<1> QED
  BY <1>2, <1>3 DEF ReadsInv

LEMMA StepReadsInv == ReadsInv /\ [Next]_vars => ReadsInv'
<1> SUFFICES ASSUME ReadsInv, [Next]_vars PROVE ReadsInv'
  OBVIOUS
<1>1. TypeOK /\ TypeOK'
  BY StepTypeOK DEF ReadsInv
<1>2. /\ pendingReads \in Seq([reader : Readers, live : BOOLEAN])
      /\ Len(pendingReads) \in Nat
      /\ DOMAIN pendingReads = 1..Len(pendingReads)
      /\ \A i \in 1..Len(pendingReads) :
           pendingReads[i].reader \in Readers /\ pendingReads[i].live \in BOOLEAN
  BY <1>1, PendingReadsShape
<1>3. ASSUME NEW m \in Messages, SendMessage(m) PROVE ReadsInv'
  <2>1. CASE pendingReads = <<>>
    <3>1. pendingReads' = pendingReads /\ reader' = reader /\ sent' = sent + 1
      BY <1>3, <2>1 DEF SendMessage, ShiftPendingReads
    <3>2. LiveIsBlocked' /\ LiveIsListedOnce'
      BY <3>1 DEF ReadsInv, LiveIsBlocked, LiveIsListedOnce
    <3>3. MaxPendingReads - Len(pendingReads) <= sent => MaxPendingReads - Len(pendingReads) <= sent + 1
      BY <1>1, <1>2, MemoryQueueAssumption DEF TypeOK
    <3>4. BlockedIsLive'
      BY <3>1, <3>3 DEF ReadsInv, BlockedIsLive, Listed
    <3> QED
      BY <1>1, <3>1, <3>2, <3>4 DEF ReadsInv
  <2>2. CASE pendingReads # <<>>
    <3>1. /\ pendingReads' = Tail(pendingReads)
          /\ sent' = sent + 1
          /\ reader' = IF pendingReads[1].live
                       THEN [reader EXCEPT ![pendingReads[1].reader] = "woken"]
                       ELSE reader
      <4>1. Head(pendingReads) = pendingReads[1]
        OBVIOUS
      <4> QED
        BY <1>3, <2>2, <4>1 DEF SendMessage, ShiftPendingReads
    <3>2. /\ Len(pendingReads) \in Nat \ {0}
          /\ Len(pendingReads') = Len(pendingReads) - 1
          /\ DOMAIN pendingReads' = 1..Len(pendingReads) - 1
          /\ \A i \in 1..Len(pendingReads) - 1 : pendingReads'[i] = pendingReads[i + 1]
      BY <1>2, <2>2, <3>1, HeadTailProperties, EmptySeq, LenProperties
    <3>3. LiveIsListedOnce'
      <4> SUFFICES ASSUME NEW i \in 1..Len(pendingReads) - 1, NEW j \in 1..Len(pendingReads) - 1,
                          pendingReads[i + 1].live, pendingReads[j + 1].live,
                          pendingReads[i + 1].reader = pendingReads[j + 1].reader
                   PROVE  i = j
        BY <3>2 DEF LiveIsListedOnce
      <4>1. i + 1 \in DOMAIN pendingReads /\ j + 1 \in DOMAIN pendingReads
        BY <1>2, <3>2
      <4>2. i + 1 = j + 1
        BY <4>1 DEF ReadsInv, LiveIsListedOnce
      <4> QED
        BY <1>2, <3>2, <4>2
    <3>4. LiveIsBlocked'
      <4> SUFFICES ASSUME NEW i \in 1..Len(pendingReads) - 1, pendingReads[i + 1].live
                   PROVE  reader'[pendingReads[i + 1].reader] = "blocked"
        BY <3>2 DEF LiveIsBlocked
      <4>1. i + 1 \in DOMAIN pendingReads /\ 1 \in DOMAIN pendingReads /\ i + 1 # 1
        BY <1>2, <3>2
      <4>2. reader[pendingReads[i + 1].reader] = "blocked"
        BY <4>1 DEF ReadsInv, LiveIsBlocked
      <4>3. pendingReads[1].live => pendingReads[1].reader # pendingReads[i + 1].reader
        BY <4>1 DEF ReadsInv, LiveIsListedOnce
      <4> QED
        BY <1>1, <1>2, <3>1, <4>1, <4>2, <4>3 DEF TypeOK
    <3>5. BlockedIsLive'
      <4> SUFFICES ASSUME NEW r \in Readers, reader'[r] = "blocked"
                   PROVE  Listed(r)' \/ (MaxPendingReads - Len(pendingReads) <= sent)'
        BY DEF BlockedIsLive
      <4>1. reader[r] = "blocked" /\ pendingReads[1] # PendingRead(r, TRUE)
        BY <1>1, <1>2, <3>1, <3>2 DEF TypeOK, PendingRead
      <4>2. CASE Listed(r)
        <5>1. PICK i \in DOMAIN pendingReads : pendingReads[i] = PendingRead(r, TRUE)
          BY <4>2 DEF Listed
        <5>2. i # 1
          BY <4>1, <5>1
        <5>3. i \in 1..Len(pendingReads)
          BY <1>2, <5>1
        <5>4. i - 1 \in 1..Len(pendingReads) - 1 /\ (i - 1) + 1 = i
          BY <1>2, <5>2, <5>3
        <5>5. i - 1 \in DOMAIN pendingReads' /\ pendingReads'[i - 1] = pendingReads[i]
          BY <3>2, <5>4
        <5> QED
          BY <5>1, <5>5 DEF Listed
      <4>3. CASE MaxPendingReads - Len(pendingReads) <= sent
        BY <1>1, <1>2, <3>1, <3>2, <4>3, MemoryQueueAssumption DEF TypeOK
      <4> QED
        BY <4>1, <4>2, <4>3 DEF ReadsInv, BlockedIsLive
    <3> QED
      BY <1>1, <1>2, <3>2, <3>3, <3>4, <3>5, MemoryQueueAssumption DEF ReadsInv
  <2> QED
    BY <2>1, <2>2
<1>4. ASSUME NEW r \in Readers, ReceiveBlocks(r) PROVE ReadsInv'
  <2>1. /\ reader[r] = "idle"
        /\ reader'[r] = "blocked"
        /\ \A s \in Readers \ {r} : reader'[s] = reader[s]
        /\ sent' = sent
    BY <1>1, <1>4 DEF ReceiveBlocks, Ready, TypeOK
  <2>2. CASE Len(pendingReads) < MaxPendingReads
    <3>1. pendingReads' = Append(pendingReads, PendingRead(r, TRUE))
      BY <1>4, <2>2 DEF ReceiveBlocks
    <3>2. PendingRead(r, TRUE) \in [reader : Readers, live : BOOLEAN]
      BY DEF PendingRead
    <3>3. /\ Len(pendingReads') = Len(pendingReads) + 1
          /\ DOMAIN pendingReads' = 1..Len(pendingReads) + 1
          /\ \A i \in 1..Len(pendingReads) : pendingReads'[i] = pendingReads[i]
          /\ pendingReads'[Len(pendingReads) + 1] = PendingRead(r, TRUE)
      BY <1>1, <3>1, AppendedEntry
    <3>4. \A i \in 1..Len(pendingReads) : pendingReads[i].live => pendingReads[i].reader # r
      BY <1>2, <2>1 DEF ReadsInv, LiveIsBlocked
    <3>5. LiveIsListedOnce'
      BY <1>2, <3>3, <3>4 DEF ReadsInv, LiveIsListedOnce, PendingRead
    <3>6. LiveIsBlocked'
      BY <1>2, <2>1, <3>3, <3>4 DEF ReadsInv, LiveIsBlocked, PendingRead
    <3>7. BlockedIsLive'
      <4> SUFFICES ASSUME NEW s \in Readers, reader'[s] = "blocked"
                   PROVE  Listed(s)' \/ (MaxPendingReads - Len(pendingReads) <= sent)'
        BY DEF BlockedIsLive
      <4>1. CASE s = r
        <5>1. Len(pendingReads) + 1 \in DOMAIN pendingReads'
          BY <1>2, <3>3
        <5> QED
          BY <3>3, <4>1, <5>1 DEF Listed
      <4>2. CASE s # r /\ Listed(s)
        <5>1. PICK i \in DOMAIN pendingReads : pendingReads[i] = PendingRead(s, TRUE)
          BY <4>2 DEF Listed
        <5>2. i \in 1..Len(pendingReads) /\ i \in 1..Len(pendingReads) + 1
          BY <1>2
        <5>3. i \in DOMAIN pendingReads' /\ pendingReads'[i] = pendingReads[i]
          BY <3>3, <5>2
        <5> QED
          BY <5>1, <5>3 DEF Listed
      <4>3. CASE MaxPendingReads - Len(pendingReads) <= sent
        BY <1>1, <1>2, <2>1, <3>3, <4>3, MemoryQueueAssumption DEF TypeOK
      <4> QED
        BY <2>1, <4>1, <4>2, <4>3 DEF ReadsInv, BlockedIsLive
    <3> QED
      BY <1>1, <1>2, <2>2, <3>3, <3>5, <3>6, <3>7, MemoryQueueAssumption DEF ReadsInv
  <2>3. CASE ~(Len(pendingReads) < MaxPendingReads)
    <3>1. pendingReads' = pendingReads
      BY <1>4, <2>3 DEF ReceiveBlocks
    <3>2. MaxPendingReads - Len(pendingReads) <= sent
      BY <1>1, <1>2, <2>3, MemoryQueueAssumption DEF ReadsInv, TypeOK
    <3> QED
      BY <1>1, <1>2, <2>1, <3>1, <3>2
      DEF ReadsInv, LiveIsBlocked, LiveIsListedOnce, BlockedIsLive
  <2> QED
    BY <2>2, <2>3
<1>5. ASSUME NEW r \in Readers, ReadTimesOut(r) PROVE ReadsInv'
  <2>1. /\ reader' = [reader EXCEPT ![r] = "woken"]
        /\ sent' = sent
        /\ DOMAIN pendingReads' = DOMAIN pendingReads
        /\ \A i \in DOMAIN pendingReads :
             pendingReads'[i] = IF pendingReads[i].reader = r
                                THEN PendingRead(r, FALSE) ELSE pendingReads[i]
    BY <1>5 DEF ReadTimesOut
  <2>2. Len(pendingReads') = Len(pendingReads)
    BY <1>1, <1>2, <2>1, LenProperties DEF TypeOK
  <2>3. LiveIsListedOnce'
    BY <2>1 DEF ReadsInv, LiveIsListedOnce, PendingRead
  <2>4. LiveIsBlocked'
    BY <1>1, <1>2, <2>1 DEF ReadsInv, LiveIsBlocked, PendingRead, TypeOK
  <2>5. BlockedIsLive'
    <3> SUFFICES ASSUME NEW s \in Readers, reader'[s] = "blocked"
                 PROVE  Listed(s)' \/ (MaxPendingReads - Len(pendingReads) <= sent)'
      BY DEF BlockedIsLive
    <3>1. reader[s] = "blocked" /\ s # r
      BY <1>1, <2>1 DEF TypeOK
    <3>2. CASE Listed(s)
      <4>1. PICK i \in DOMAIN pendingReads : pendingReads[i] = PendingRead(s, TRUE)
        BY <3>2 DEF Listed
      <4>2. pendingReads'[i] = pendingReads[i]
        BY <2>1, <3>1, <4>1 DEF PendingRead
      <4> QED
        BY <2>1, <4>1, <4>2 DEF Listed
    <3>3. CASE MaxPendingReads - Len(pendingReads) <= sent
      BY <2>1, <2>2, <3>3
    <3> QED
      BY <3>1, <3>2, <3>3 DEF ReadsInv, BlockedIsLive
  <2> QED
    BY <1>1, <2>2, <2>3, <2>4, <2>5 DEF ReadsInv
<1>6. ASSUME NEW r \in Readers, Return(r) PROVE ReadsInv'
  <2>1. /\ reader[r] = "woken"
        /\ reader' = [reader EXCEPT ![r] = "idle"]
        /\ UNCHANGED <<sent, pendingReads>>
    BY <1>6 DEF Return, ReturnItem, ReturnEmpty, ReturnThrows
  <2> QED
    BY <1>1, <2>1, QuietKeepsReads DEF TypeOK
<1>7. ASSUME UNCHANGED <<sent, pendingReads, reader>> PROVE ReadsInv'
  BY <1>1, <1>7, QuietKeepsReads
<1> QED
  BY <1>3, <1>4, <1>5, <1>6, <1>7
  DEF Next, Receive, ReceiveAtOnce, ReceiveThrows, ClaimExpires, DeleteMessage, Abandon, vars

LEMMA ReadsCorrect == Spec => []ReadsInv
  BY InitReadsInv, StepReadsInv, PTL DEF Spec

\* receiveMessage never leaves a caller waiting that no entry of pendingReads can
\* wake, whatever the order of the timeouts and of the sends.
THEOREM BlockedReadersAreListed == Spec => []BlockedIsListed
  BY ReadsCorrect, ReadsInvSuffices, PTL

----------------------------------------------------------------------------
(* Claims.  ExclusiveClaim alone is not inductive: a message nobody claims  *)
(* must have no current receipt, and a receipt cannot come from the future. *)

\* A message that was not sent yet is nowhere
FreshIsNowhere ==
  \A m \in Messages : Fresh(m) =>
    /\ m \notin queue
    /\ lapses[m] = 0
    /\ \A r \in Readers : item[r].message # m

WaitingIsEmptyHanded ==
  \A r \in Readers : reader[r] # "idle" => item[r] = Nothing

ReceiptsArePast ==
  \A r \in Readers : item[r] # Nothing => item[r].lapse <= lapses[item[r].message]

\* Whoever still works on a message nobody claims holds a receipt of before
UnclaimedIsFree ==
  \A m \in queue \ claimed : \A r \in Readers : item[r] # Receipt(m, lapses[m])

ClaimInv ==
  /\ TypeOK
  /\ FreshIsNowhere
  /\ WaitingIsEmptyHanded
  /\ ReceiptsArePast
  /\ UnclaimedIsFree
  /\ ExclusiveClaim

LEMMA InitClaimInv == Init => ClaimInv
<1> SUFFICES ASSUME Init PROVE ClaimInv
  OBVIOUS
<1>1. TypeOK
  BY InitTypeOK
<1> QED
  BY <1>1, MemoryQueueAssumption
  DEF Init, ClaimInv, FreshIsNowhere, WaitingIsEmptyHanded, ReceiptsArePast,
      UnclaimedIsFree, ExclusiveClaim, Nothing, Fresh

LEMMA TakeKeepsClaims ==
  ASSUME ClaimInv, NEW r \in Readers, GetItem(r), item[r] = Nothing,
         UNCHANGED <<queue, sent, arrival, lapses>>, TypeOK',
         \A s \in Readers : reader'[s] # "idle" => reader[s] # "idle" /\ s # r
  PROVE  ClaimInv'
<1> USE DEF ClaimInv
<1>1. PICK m \in Messages :
        /\ IsFirst(m)
        /\ claimed' = claimed \union {m}
        /\ item' = [item EXCEPT ![r] = Receipt(m, lapses[m])]
  BY DEF GetItem
<1>2. m \in queue \ claimed
  BY <1>1 DEF IsFirst, Claimable
<1>3. /\ item'[r] = Receipt(m, lapses[m])
      /\ \A s \in Readers \ {r} : item'[s] = item[s]
  BY <1>1 DEF TypeOK
<1>4. FreshIsNowhere'
  BY <1>1, <1>2, <1>3, ReceiptFields DEF FreshIsNowhere, Fresh
<1>5. WaitingIsEmptyHanded'
  BY <1>3 DEF WaitingIsEmptyHanded, Nothing
<1>6. ReceiptsArePast'
  BY <1>2, <1>3, ReceiptFields DEF ReceiptsArePast, TypeOK, Nothing
<1>7. UnclaimedIsFree'
  BY <1>1, <1>2, <1>3, ReceiptFields DEF UnclaimedIsFree
<1>8. ExclusiveClaim'
  BY <1>2, <1>3 DEF ExclusiveClaim, UnclaimedIsFree
<1> QED
  BY <1>4, <1>5, <1>6, <1>7, <1>8

\* A step that hands out nothing, puts nothing back and sends nothing
LEMMA QuietKeepsClaims ==
  ASSUME ClaimInv, UNCHANGED <<queue, sent, arrival, lapses, item>>, TypeOK',
         claimed \subseteq claimed',
         \A s \in Readers : reader'[s] # "idle" => reader[s] # "idle" \/ item[s] = Nothing
  PROVE  ClaimInv'
  BY DEF ClaimInv, FreshIsNowhere, WaitingIsEmptyHanded, ReceiptsArePast,
         UnclaimedIsFree, ExclusiveClaim, Fresh

LEMMA StepClaimInv == ReadsInv /\ ClaimInv /\ [Next]_vars => ClaimInv'
<1> SUFFICES ASSUME ReadsInv, ClaimInv, [Next]_vars PROVE ClaimInv'
  OBVIOUS
<1>1. TypeOK /\ TypeOK'
  BY StepTypeOK DEF ClaimInv
<1>2. ASSUME NEW m \in Messages, SendMessage(m) PROVE ClaimInv'
  <2>1. /\ arrival'[m] # 0
        /\ \A n \in Messages \ {m} : arrival'[n] = arrival[n]
    BY <1>1, <1>2 DEF SendMessage, TypeOK
  <2>2. FreshIsNowhere'
    <3>1. ASSUME NEW n \in Messages, Fresh(n)' PROVE Fresh(n) /\ n # m
      BY <2>1, <3>1 DEF Fresh
    <3> QED
      BY <1>2, <3>1 DEF SendMessage, ClaimInv, FreshIsNowhere
  <2>3. WaitingIsEmptyHanded'
    <3>1. \A r \in Readers : reader'[r] # "idle" => reader[r] # "idle"
      <4>1. CASE pendingReads # <<>> /\ Head(pendingReads).live
        <5>1. /\ 1 \in DOMAIN pendingReads
              /\ Head(pendingReads) = pendingReads[1]
          BY <1>1, <4>1, PendingReadsShape
        <5>2. reader[pendingReads[1].reader] = "blocked"
          BY <4>1, <5>1 DEF ReadsInv, LiveIsBlocked
        <5> QED
          BY <1>1, <1>2, <4>1, <5>1, <5>2 DEF SendMessage, ShiftPendingReads, TypeOK
      <4>2. CASE ~(pendingReads # <<>> /\ Head(pendingReads).live)
        BY <1>2, <4>2 DEF SendMessage, ShiftPendingReads
      <4> QED
        BY <4>1, <4>2
    <3> QED
      BY <1>2, <3>1 DEF SendMessage, ClaimInv, WaitingIsEmptyHanded
  <2>4. UnclaimedIsFree'
    BY <1>2, ReceiptFields DEF SendMessage, ClaimInv, FreshIsNowhere, UnclaimedIsFree
  <2>5. ReceiptsArePast' /\ ExclusiveClaim'
    BY <1>2 DEF SendMessage, ClaimInv, ReceiptsArePast, ExclusiveClaim
  <2> QED
    BY <1>1, <2>2, <2>3, <2>4, <2>5 DEF ClaimInv
<1>3. ASSUME NEW m \in Messages, ClaimExpires(m) PROVE ClaimInv'
  <2>1. /\ lapses'[m] = lapses[m] + 1
        /\ \A n \in Messages \ {m} : lapses'[n] = lapses[n]
    BY <1>1, <1>3 DEF ClaimExpires, TypeOK
  <2>2. FreshIsNowhere'
    BY <1>1, <1>3, <2>1 DEF ClaimExpires, ClaimInv, FreshIsNowhere, Fresh, TypeOK
  <2>3. ReceiptsArePast'
    BY <1>1, <1>3, <2>1 DEF ClaimExpires, ClaimInv, ReceiptsArePast, TypeOK, Receipts
  <2>4. UnclaimedIsFree'
    BY <1>1, <1>3, <2>1, ReceiptFields
    DEF ClaimExpires, ClaimInv, ReceiptsArePast, UnclaimedIsFree, TypeOK, Nothing, Receipts
  <2>5. WaitingIsEmptyHanded' /\ ExclusiveClaim'
    BY <1>3 DEF ClaimExpires, ClaimInv, WaitingIsEmptyHanded, ExclusiveClaim
  <2> QED
    BY <1>1, <2>2, <2>3, <2>4, <2>5 DEF ClaimInv
<1>4. ASSUME NEW r \in Readers, Receive(r) PROVE ClaimInv'
  <2>1. CASE ReceiveAtOnce(r)
    BY <1>1, <2>1, TakeKeepsClaims DEF ReceiveAtOnce, Ready
  <2>2. CASE ReceiveBlocks(r)
    BY <1>1, <2>2, QuietKeepsClaims DEF ReceiveBlocks, Ready, TypeOK
  <2>3. CASE ReceiveThrows(r)
    BY <1>1, <2>3, QuietKeepsClaims DEF ReceiveThrows, GetItemThrows
  <2> QED
    BY <1>4, <2>1, <2>2, <2>3 DEF Receive
<1>5. ASSUME NEW r \in Readers, ReadTimesOut(r) PROVE ClaimInv'
  BY <1>1, <1>5, QuietKeepsClaims DEF ReadTimesOut, TypeOK
<1>6. ASSUME NEW r \in Readers, Return(r) PROVE ClaimInv'
  <2>1. CASE ReturnItem(r)
    BY <1>1, <2>1, TakeKeepsClaims DEF ReturnItem, ClaimInv, WaitingIsEmptyHanded, TypeOK
  <2>2. CASE ReturnEmpty(r)
    BY <1>1, <2>2, QuietKeepsClaims DEF ReturnEmpty, TypeOK
  <2>3. CASE ReturnThrows(r)
    BY <1>1, <2>3, QuietKeepsClaims DEF ReturnThrows, GetItemThrows, TypeOK
  <2> QED
    BY <1>6, <2>1, <2>2, <2>3 DEF Return
<1>7. ASSUME NEW r \in Readers, DeleteMessage(r) \/ Abandon(r) PROVE ClaimInv'
  <2>1. /\ item'[r] = Nothing
        /\ \A s \in Readers \ {r} : item'[s] = item[s]
        /\ queue' \subseteq queue
        /\ queue' \ claimed' \subseteq queue \ claimed
        /\ UNCHANGED <<sent, arrival, lapses, reader>>
    BY <1>1, <1>7 DEF DeleteMessage, Abandon, TypeOK
  <2>2. FreshIsNowhere'
    BY <2>1, MemoryQueueAssumption DEF ClaimInv, FreshIsNowhere, Fresh, Nothing
  <2>3. UnclaimedIsFree'
    <3>1. \A m \in Messages : Nothing # Receipt(m, lapses[m])
      BY MemoryQueueAssumption DEF Nothing, Receipt
    <3> QED
      BY <1>1, <2>1, <3>1 DEF ClaimInv, UnclaimedIsFree, TypeOK
  <2>4. WaitingIsEmptyHanded' /\ ReceiptsArePast' /\ ExclusiveClaim'
    BY <2>1 DEF ClaimInv, WaitingIsEmptyHanded, ReceiptsArePast, ExclusiveClaim
  <2> QED
    BY <1>1, <2>2, <2>3, <2>4 DEF ClaimInv
<1>8. CASE UNCHANGED vars
  BY <1>1, <1>8, QuietKeepsClaims DEF vars
<1> QED
  BY <1>2, <1>3, <1>4, <1>5, <1>6, <1>7, <1>8 DEF Next

LEMMA ClaimsCorrect == Spec => []ClaimInv
  BY InitClaimInv, StepClaimInv, ReadsCorrect, PTL DEF Spec

\* getItem stamps Claimed before any await: two callers never hold the same
\* receipt, however many callers and messages there are.
THEOREM ExclusiveClaims == Spec => []ExclusiveClaim
  BY ClaimsCorrect, PTL DEF ClaimInv

----------------------------------------------------------------------------
(* Order.  The ranks of the messages sent are distinct, and none is ahead   *)
(* of the counter.                                                          *)

RanksAreDistinct ==
  /\ \A m \in Messages : arrival[m] <= sent
  /\ \A m, n \in Messages : ~Fresh(m) /\ arrival[m] = arrival[n] => m = n

OrderInv == RanksAreDistinct /\ FirstDeliveryInOrder

\* A step that sends nothing, and hands out a message only when it is the first
LEMMA InOrderStep ==
  ASSUME ClaimInv, OrderInv, UNCHANGED <<sent, arrival>>,
         \A m \in Messages : Delivered(m) => Delivered(m)',
         \A n \in Messages : Delivered(n)' => Delivered(n) \/ IsFirst(n)
  PROVE  OrderInv'
<1>1. RanksAreDistinct'
  BY DEF OrderInv, RanksAreDistinct, Fresh
<1>2. FirstDeliveryInOrder'
  <2> SUFFICES ASSUME NEW m \in Messages, NEW n \in Messages,
                      ~Fresh(m), arrival[m] < arrival[n], Delivered(n)'
               PROVE  Delivered(m)'
    BY DEF FirstDeliveryInOrder, Fresh
  <2>1. CASE Delivered(n)
    BY <2>1 DEF OrderInv, FirstDeliveryInOrder
  <2>2. CASE IsFirst(n)
    <3>1. m \notin Claimable
      BY <2>2 DEF IsFirst, ClaimInv, TypeOK
    <3> QED
      BY <3>1 DEF Claimable, Delivered
  <2> QED
    BY <2>1, <2>2
<1> QED
  BY <1>1, <1>2 DEF OrderInv

LEMMA InitOrderInv == Init => OrderInv
  BY DEF Init, OrderInv, RanksAreDistinct, FirstDeliveryInOrder, Fresh

LEMMA StepOrderInv == ClaimInv /\ OrderInv /\ [Next]_vars => OrderInv'
<1> SUFFICES ASSUME ClaimInv, OrderInv, [Next]_vars PROVE OrderInv'
  OBVIOUS
<1>1. TypeOK
  BY DEF ClaimInv
<1>2. ASSUME NEW m \in Messages, SendMessage(m) PROVE OrderInv'
  <2>1. /\ Fresh(m)
        /\ sent' = sent + 1
        /\ arrival'[m] = sent + 1
        /\ \A n \in Messages \ {m} : arrival'[n] = arrival[n]
        /\ arrival[m] = 0
    BY <1>1, <1>2 DEF SendMessage, TypeOK, Fresh
  <2>2. RanksAreDistinct'
    <3>1. sent \in Nat /\ \A n \in Messages : arrival[n] \in Nat /\ arrival[n] <= sent
      BY <1>1 DEF OrderInv, RanksAreDistinct, TypeOK
    <3>2. \A n \in Messages : arrival'[n] <= sent'
      BY <2>1, <3>1
    <3>3. \A n, o \in Messages : ~Fresh(n)' /\ arrival'[n] = arrival'[o] => n = o
      BY <2>1, <3>1 DEF OrderInv, RanksAreDistinct, Fresh
    <3> QED
      BY <3>2, <3>3 DEF RanksAreDistinct
  <2>3. ~Delivered(m)'
    BY <1>1, <1>2 DEF SendMessage, Delivered, ClaimInv, FreshIsNowhere, TypeOK
  <2>4. \A n \in Messages \ {m} : Delivered(n)' <=> Delivered(n)
    BY <1>2, <2>1 DEF SendMessage, Delivered, Fresh
  <2>5. FirstDeliveryInOrder'
    <3> SUFFICES ASSUME NEW n \in Messages, NEW o \in Messages,
                        ~Fresh(n)', arrival'[n] < arrival'[o], Delivered(o)'
                 PROVE  Delivered(n)'
      BY DEF FirstDeliveryInOrder
    <3>1. o # m
      BY <2>3
    <3>2. n # m
      BY <1>1, <2>1, <3>1 DEF OrderInv, RanksAreDistinct, TypeOK
    <3> QED
      BY <2>1, <2>4, <3>1, <3>2 DEF OrderInv, FirstDeliveryInOrder, Fresh
  <2> QED
    BY <2>2, <2>5 DEF OrderInv
<1>3. ASSUME NEW m \in Messages, ClaimExpires(m) PROVE OrderInv'
  <2>1. /\ m \in claimed
        /\ lapses'[m] > 0
        /\ \A n \in Messages \ {m} : lapses'[n] = lapses[n]
    BY <1>1, <1>3 DEF ClaimExpires, TypeOK
  <2>2. \A n \in Messages : Delivered(n)' <=> Delivered(n)
    BY <1>3, <2>1 DEF ClaimExpires, Delivered, Fresh
  <2> QED
    BY <1>3, <2>2, InOrderStep DEF ClaimExpires
<1>4. ASSUME NEW r \in Readers, GetItem(r) \/ GetItemThrows,
             UNCHANGED <<queue, sent, arrival, lapses>>
      PROVE  OrderInv'
  BY <1>4, InOrderStep DEF GetItem, GetItemThrows, Delivered, Fresh
<1>5. ASSUME NEW r \in Readers, DeleteMessage(r) PROVE OrderInv'
  <2>1. item[r].message \in Messages /\ ~Fresh(item[r].message)
    BY <1>1, <1>5 DEF DeleteMessage, ClaimInv, FreshIsNowhere, TypeOK, Receipts
  <2>2. \A n \in Messages : Delivered(n) => Delivered(n)'
    BY <1>5 DEF DeleteMessage, Delivered, Fresh
  <2>3. Delivered(item[r].message)
    <3> SUFFICES ASSUME item[r].message \in queue \ claimed, lapses[item[r].message] = 0
                 PROVE  FALSE
      BY <1>1, <2>1 DEF Delivered, TypeOK
    <3>1. item[r] \in Receipts /\ item[r].lapse <= 0
      BY <1>1, <1>5 DEF DeleteMessage, ClaimInv, ReceiptsArePast, TypeOK
    <3>2. item[r] = Receipt(item[r].message, 0)
      BY <3>1 DEF Receipts, Receipt
    <3> QED
      BY <3>2 DEF ClaimInv, UnclaimedIsFree
  <2>4. \A n \in Messages : Delivered(n)' => Delivered(n)
    BY <1>5, <2>3 DEF DeleteMessage, Delivered, Fresh
  <2> QED
    BY <1>5, <2>2, <2>4, InOrderStep DEF DeleteMessage
<1>6. ASSUME UNCHANGED <<queue, sent, arrival, claimed, lapses>> PROVE OrderInv'
  BY <1>6, InOrderStep DEF Delivered, Fresh
<1> QED
  BY <1>2, <1>3, <1>4, <1>5, <1>6
  DEF Next, Receive, ReceiveAtOnce, ReceiveBlocks, ReceiveThrows, ReadTimesOut,
      Return, ReturnItem, ReturnEmpty, ReturnThrows, Abandon, vars

LEMMA OrderCorrect == Spec => []OrderInv
  BY InitOrderInv, StepOrderInv, ClaimsCorrect, PTL DEF Spec

\* for..in over _queue hands messages out for the first time in the order in
\* which sendMessage inserted them, whatever claims expire meanwhile.
THEOREM FirstDeliveriesInOrder == Spec => []FirstDeliveryInOrder
  BY OrderCorrect, PTL DEF OrderInv

----------------------------------------------------------------------------
(* Refinement: every step is a step of AtLeastOnceQueue, or a stutter.      *)

stageBar == [m \in Messages |-> Stage(m)]
handBar == [r \in Readers |-> item[r].message]

LEMMA InitRefines == Init => AtLeastOnce!Init
  BY DEF Init, AtLeastOnce!Init, Stage, Fresh, Nothing

LEMMA TakeRefines ==
  ASSUME ClaimInv, NEW r \in Readers, GetItem(r), item[r] = Nothing,
         UNCHANGED <<queue, sent, arrival, lapses>>
  PROVE  \E m \in Messages : AtLeastOnce!Lease(r, m)
<1>1. PICK m \in Messages :
        /\ m \in queue \ claimed
        /\ claimed' = claimed \union {m}
        /\ item' = [item EXCEPT ![r] = Receipt(m, lapses[m])]
  BY DEF GetItem, IsFirst, Claimable
<1>2. ~Fresh(m) /\ UNCHANGED queue /\ UNCHANGED arrival
  BY <1>1 DEF ClaimInv, FreshIsNowhere
<1>3. handBar[r] = NoMessage /\ stageBar[m] = "available"
  BY <1>1, <1>2 DEF handBar, stageBar, Stage, Nothing
<1>4. stageBar' = [stageBar EXCEPT ![m] = "leased"]
  BY <1>1, <1>2 DEF stageBar, Stage, Fresh
<1>5. handBar' = [handBar EXCEPT ![r] = m]
  BY <1>1, ReceiptFields DEF handBar, ClaimInv, TypeOK
<1> QED
  BY <1>3, <1>4, <1>5 DEF AtLeastOnce!Lease, stageBar, handBar

LEMMA ThrowRefines ==
  ASSUME ClaimInv, GetItemThrows, UNCHANGED <<queue, sent, arrival, lapses>>
  PROVE  \E m \in Messages : AtLeastOnce!LeaseLost(m)
<1>1. PICK m \in Messages :
        m \in queue \ claimed /\ claimed' = claimed \union {m} /\ item' = item
  BY DEF GetItemThrows, IsFirst, Claimable
<1>2. ~Fresh(m) /\ UNCHANGED queue /\ UNCHANGED arrival
  BY <1>1 DEF ClaimInv, FreshIsNowhere
<1>3. stageBar[m] = "available"
  BY <1>1, <1>2 DEF stageBar, Stage
<1>4. stageBar' = [stageBar EXCEPT ![m] = "leased"]
  BY <1>1, <1>2 DEF stageBar, Stage, Fresh
<1>5. handBar' = handBar
  BY <1>1 DEF handBar
<1> QED
  BY <1>3, <1>4, <1>5 DEF AtLeastOnce!LeaseLost, stageBar, handBar

LEMMA StepRefines == ClaimInv /\ [Next]_vars => [AtLeastOnce!Next]_(AtLeastOnce!vars)
<1> SUFFICES ASSUME ClaimInv, [Next]_vars
             PROVE  AtLeastOnce!Next \/ UNCHANGED <<stageBar, handBar>>
  BY DEF AtLeastOnce!vars, stageBar, handBar
<1>1. TypeOK
  BY DEF ClaimInv
<1>2. ASSUME NEW m \in Messages, SendMessage(m) PROVE AtLeastOnce!Send(m)
  <2>1. /\ Fresh(m)
        /\ m \notin claimed
        /\ queue' = queue \union {m}
        /\ arrival'[m] # 0
        /\ \A n \in Messages \ {m} : arrival'[n] = arrival[n]
        /\ UNCHANGED <<claimed, item>>
    BY <1>1, <1>2 DEF SendMessage, ClaimInv, FreshIsNowhere, TypeOK
  <2>2. stageBar[m] = "unsent"
    BY <2>1 DEF stageBar, Stage
  <2>3. stageBar' = [stageBar EXCEPT ![m] = "available"]
    BY <2>1 DEF stageBar, Stage, Fresh
  <2>4. handBar' = handBar
    BY <2>1 DEF handBar
  <2> QED
    BY <2>2, <2>3, <2>4 DEF AtLeastOnce!Send, stageBar, handBar
<1>3. ASSUME NEW m \in Messages, ClaimExpires(m) PROVE AtLeastOnce!Lapse(m)
  <2>1. /\ m \in queue
        /\ m \in claimed
        /\ claimed' = claimed \ {m}
        /\ UNCHANGED <<queue, arrival, item>>
        /\ ~Fresh(m)
    BY <1>1, <1>3 DEF ClaimExpires, ClaimInv, FreshIsNowhere, TypeOK
  <2>2. stageBar[m] = "leased"
    BY <2>1 DEF stageBar, Stage
  <2>3. stageBar' = [stageBar EXCEPT ![m] = "available"]
    BY <2>1 DEF stageBar, Stage, Fresh
  <2>4. handBar' = handBar
    BY <2>1 DEF handBar
  <2> QED
    BY <2>2, <2>3, <2>4 DEF AtLeastOnce!Lapse, stageBar, handBar
<1>4. ASSUME NEW r \in Readers, DeleteMessage(r) PROVE AtLeastOnce!Delete(r)
  <2>1. /\ item[r].message \in Messages
        /\ item[r].message # NoMessage
        /\ ~Fresh(item[r].message)
    BY <1>1, <1>4, MemoryQueueAssumption DEF DeleteMessage, ClaimInv, FreshIsNowhere, TypeOK, Receipts
  <2>2. /\ queue' = queue \ {item[r].message}
        /\ claimed' = claimed \ {item[r].message}
        /\ item' = [item EXCEPT ![r] = Nothing]
        /\ UNCHANGED arrival
    BY <1>4 DEF DeleteMessage
  <2>3. handBar[r] = item[r].message
    BY DEF handBar
  <2>4. stageBar' = [stageBar EXCEPT ![item[r].message] = "deleted"]
    BY <2>1, <2>2 DEF stageBar, Stage, Fresh
  <2>5. handBar' = [handBar EXCEPT ![r] = NoMessage]
    BY <1>1, <2>2 DEF handBar, Nothing, TypeOK
  <2> QED
    BY <2>1, <2>3, <2>4, <2>5 DEF AtLeastOnce!Delete, stageBar, handBar
<1>5. ASSUME NEW r \in Readers, Abandon(r) PROVE AtLeastOnce!Abandon(r)
  <2>1. handBar[r] # NoMessage
    BY <1>1, <1>5, MemoryQueueAssumption DEF Abandon, handBar, TypeOK, Receipts
  <2>2. handBar' = [handBar EXCEPT ![r] = NoMessage]
    BY <1>1, <1>5 DEF Abandon, handBar, Nothing, TypeOK
  <2>3. stageBar' = stageBar
    BY <1>5 DEF Abandon, stageBar, Stage, Fresh
  <2> QED
    BY <2>1, <2>2, <2>3 DEF AtLeastOnce!Abandon, stageBar, handBar
<1>6. ASSUME NEW r \in Readers, Receive(r) \/ Return(r)
      PROVE  AtLeastOnce!Next \/ UNCHANGED <<stageBar, handBar>>
  <2>1. CASE ReceiveAtOnce(r) \/ ReturnItem(r)
    BY <2>1, TakeRefines
    DEF ReceiveAtOnce, ReturnItem, Ready, ClaimInv, WaitingIsEmptyHanded, AtLeastOnce!Next
  <2>2. CASE ReceiveThrows(r) \/ ReturnThrows(r)
    BY <2>2, ThrowRefines DEF ReceiveThrows, ReturnThrows, AtLeastOnce!Next
  <2>3. CASE ReceiveBlocks(r) \/ ReturnEmpty(r)
    BY <2>3 DEF ReceiveBlocks, ReturnEmpty, stageBar, handBar, Stage, Fresh
  <2> QED
    BY <1>6, <2>1, <2>2, <2>3 DEF Receive, Return
<1>7. ASSUME UNCHANGED <<queue, arrival, claimed, item>> PROVE UNCHANGED <<stageBar, handBar>>
  BY <1>7 DEF stageBar, handBar, Stage, Fresh
<1> QED
  BY <1>2, <1>3, <1>4, <1>5, <1>6, <1>7 DEF Next, ReadTimesOut, vars, AtLeastOnce!Next

\* MemoryQueue keeps the promise of an at-least-once queue: no step loses a
\* message or takes it from a caller, and deleteMessage with a receipt that was
\* handed out is the only way out of _queue.
THEOREM MemoryQueueIsAtLeastOnce == Spec => IsAtLeastOnce
  BY InitRefines, StepRefines, ClaimsCorrect, PTL DEF Spec, IsAtLeastOnce, AtLeastOnce!Spec

----------------------------------------------------------------------------
(* A send interrupts a read *)

SentMessages == {m \in Messages : ~Fresh(m)}

\* Without a read timeout no entry is dead; and fewer messages were sent than the
\* list may hold, so that no reader was left out of an empty list.
WakeInv ==
  /\ ReadsInv
  /\ sent = Cardinality(SentMessages)
  /\ ~ReadTimeout => \A i \in DOMAIN pendingReads : pendingReads[i].live

LEMMA SendIsCounted ==
  ASSUME TypeOK, sent = Cardinality(SentMessages), NEW m \in Messages, SendMessage(m)
  PROVE  /\ sent' = Cardinality(SentMessages')
         /\ sent < MaxPendingReads
<1>1. IsFiniteSet(SentMessages) /\ Cardinality(SentMessages) \in Nat /\ m \notin SentMessages
  BY MemoryQueueAssumption, FS_Subset, FS_CardinalityType
  DEF MemoryQueueAssumption, SentMessages, SendMessage
<1>2. SentMessages' = SentMessages \union {m}
  BY DEF SentMessages, SendMessage, Fresh, TypeOK
<1>3. Cardinality(SentMessages \union {m}) = Cardinality(SentMessages) + 1
  BY <1>1, FS_AddElement
<1>4. sent' = sent + 1
  BY DEF SendMessage
<1>5. Cardinality(SentMessages \union {m}) <= Cardinality(Messages)
      /\ Cardinality(Messages) \in Nat
  <2>1. SentMessages \union {m} \subseteq Messages
    BY DEF SentMessages
  <2>. QED BY <2>1, MemoryQueueAssumption, FS_Subset, FS_CardinalityType DEF MemoryQueueAssumption
<1>. QED BY <1>1, <1>2, <1>3, <1>4, <1>5, MemoryQueueAssumption DEF MemoryQueueAssumption

LEMMA InitWakeInv == Init => WakeInv
<1>. SUFFICES ASSUME Init PROVE WakeInv
  OBVIOUS
<1>1. SentMessages = {}
  BY DEF Init, SentMessages, Fresh
<1>. QED BY <1>1, InitReadsInv, FS_EmptySet DEF Init, WakeInv

LEMMA StepWakeInv == WakeInv /\ [Next]_vars => WakeInv'
<1>. SUFFICES ASSUME WakeInv, [Next]_vars PROVE WakeInv'
  OBVIOUS
<1>1. ReadsInv' /\ TypeOK /\ TypeOK'
  BY StepReadsInv DEF WakeInv, ReadsInv
<1>2. /\ Len(pendingReads) \in Nat
      /\ DOMAIN pendingReads = 1..Len(pendingReads)
      /\ pendingReads \in Seq([reader : Readers, live : BOOLEAN])
  BY <1>1, PendingReadsShape
<1>3. ASSUME NEW m \in Messages, SendMessage(m) PROVE WakeInv'
  <2>1. sent' = Cardinality(SentMessages')
    BY <1>1, <1>3, SendIsCounted DEF WakeInv
  <2>2. ASSUME ~ReadTimeout, NEW i \in DOMAIN pendingReads' PROVE pendingReads'[i].live
    <3>1. CASE pendingReads = <<>>
      BY <1>3, <2>2, <3>1 DEF SendMessage, ShiftPendingReads, WakeInv
    <3>2. CASE pendingReads # <<>>
      <4>1. pendingReads' = Tail(pendingReads)
        BY <1>3, <3>2 DEF SendMessage, ShiftPendingReads
      <4>2. /\ DOMAIN pendingReads' = 1..Len(pendingReads) - 1
            /\ \A j \in 1..Len(pendingReads) - 1 : pendingReads'[j] = pendingReads[j + 1]
        BY <1>2, <3>2, <4>1, HeadTailProperties, EmptySeq, LenProperties
      <4>3. pendingReads'[i] = pendingReads[i + 1] /\ i + 1 \in 1..Len(pendingReads)
        BY <1>2, <2>2, <4>2
      <4>. QED BY <1>2, <2>2, <4>3 DEF WakeInv
    <3>. QED BY <3>1, <3>2
  <2>. QED BY <1>1, <2>1, <2>2 DEF WakeInv
<1>4. ASSUME UNCHANGED <<sent, arrival>>,
             ~ReadTimeout => \A i \in DOMAIN pendingReads' : pendingReads'[i].live
      PROVE  WakeInv'
  <2>1. SentMessages' = SentMessages
    BY <1>4 DEF SentMessages, Fresh
  <2>. QED BY <1>1, <1>4, <2>1 DEF WakeInv
<1>5. ASSUME NEW r \in Readers, ReceiveBlocks(r) PROVE WakeInv'
  <2>1. CASE pendingReads' = pendingReads
    BY <1>4, <1>5, <2>1 DEF ReceiveBlocks, WakeInv
  <2>2. CASE pendingReads' = Append(pendingReads, PendingRead(r, TRUE))
    <3>1. PendingRead(r, TRUE) \in [reader : Readers, live : BOOLEAN] /\ PendingRead(r, TRUE).live
      BY DEF PendingRead
    <3>2. /\ DOMAIN pendingReads' = 1..Len(pendingReads) + 1
          /\ \A i \in 1..Len(pendingReads) : pendingReads'[i] = pendingReads[i]
          /\ pendingReads'[Len(pendingReads) + 1] = PendingRead(r, TRUE)
      BY <1>1, <2>2, AppendedEntry
    <3>3. \A i \in DOMAIN pendingReads' :
            i \in DOMAIN pendingReads \/ i = Len(pendingReads) + 1
      BY <1>2, <3>2
    <3>. QED BY <1>2, <1>4, <1>5, <3>1, <3>2, <3>3 DEF ReceiveBlocks, WakeInv
  <2>. QED BY <1>5, <2>1, <2>2 DEF ReceiveBlocks
<1>6. ASSUME NEW r \in Readers, ReadTimesOut(r) PROVE WakeInv'
  BY <1>4, <1>6 DEF ReadTimesOut
<1>7. ASSUME UNCHANGED <<sent, arrival, pendingReads>> PROVE WakeInv'
  BY <1>4, <1>7 DEF WakeInv
<1>. QED BY <1>3, <1>5, <1>6, <1>7
     DEF Next, ClaimExpires, Receive, ReceiveAtOnce, ReceiveThrows, Return, ReturnItem,
         ReturnEmpty, ReturnThrows, DeleteMessage, Abandon, vars

LEMMA SendWakes ==
  ASSUME ~ReadTimeout, WakeInv, NEW m \in Messages, SendMessage(m),
         NEW r \in Readers, reader[r] = "blocked"
  PROVE  \E s \in Readers : reader[s] = "blocked" /\ reader'[s] = "woken"
<1>1. TypeOK /\ Len(pendingReads) \in Nat /\ DOMAIN pendingReads = 1..Len(pendingReads)
      /\ \A i \in 1..Len(pendingReads) : pendingReads[i].reader \in Readers
  BY PendingReadsShape DEF WakeInv, ReadsInv
<1>2. pendingReads # <<>>
  <2>1. sent < MaxPendingReads /\ sent \in Nat /\ MaxPendingReads \in Nat
    BY <1>1, SendIsCounted, MemoryQueueAssumption DEF WakeInv, TypeOK, MemoryQueueAssumption
  <2>2. Listed(r) \/ MaxPendingReads - Len(pendingReads) <= sent
    BY DEF WakeInv, ReadsInv, BlockedIsLive
  <2>3. pendingReads = <<>> => ~Listed(r) /\ Len(pendingReads) = 0
    BY DEF Listed
  <2>. QED BY <2>1, <2>2, <2>3
<1>3. 1 \in DOMAIN pendingReads /\ Head(pendingReads) = pendingReads[1]
  BY <1>1, <1>2, PendingReadsShape, EmptySeq
<1>4. pendingReads[1].live /\ pendingReads[1].reader \in Readers
  BY <1>1, <1>3 DEF WakeInv
<1>5. reader[pendingReads[1].reader] = "blocked"
  BY <1>3, <1>4 DEF WakeInv, ReadsInv, LiveIsBlocked
<1>6. reader' = [reader EXCEPT ![pendingReads[1].reader] = "woken"]
  BY <1>2, <1>3, <1>4 DEF SendMessage, ShiftPendingReads
<1>7. reader'[pendingReads[1].reader] = "woken"
  BY <1>1, <1>4, <1>6 DEF TypeOK
<1>. QED BY <1>4, <1>5, <1>7

\* Only sendMessage gives a message its rank.
LEMMA OnlySendMakesOld ==
  ASSUME TypeOK, [Next]_vars, NEW m \in Messages, Fresh(m), ~Fresh(m)'
  PROVE  SendMessage(m)
<1>1. ASSUME NEW n \in Messages, SendMessage(n) PROVE n = m
  BY <1>1 DEF SendMessage, Fresh, TypeOK
<1>2. arrival' # arrival
  BY DEF Fresh
<1>. QED BY <1>1, <1>2
     DEF Next, ClaimExpires, Receive, ReceiveAtOnce, ReceiveBlocks, ReceiveThrows, Return,
         ReturnItem, ReturnEmpty, ReturnThrows, ReadTimesOut, DeleteMessage, Abandon, vars

\* As long as no read has a timeout, sendMessage() never leaves every waiting caller
\* of receiveMessage() asleep, whatever the number of callers and of messages.  (With
\* timeouts the entry it shifts may be one that a timed out read left behind.)
THEOREM SendsWakeReaders ==
  ASSUME ~ReadTimeout
  PROVE  Spec => SendWakesReader
<1>1. WakeInv /\ [Next]_vars
      => [\A m \in Messages :
            /\ Fresh(m) /\ ~Fresh(m)'
            /\ \E r \in Readers : reader[r] = "blocked"
            => \E r \in Readers : reader[r] = "blocked" /\ reader'[r] = "woken"]_vars
  <2>. SUFFICES ASSUME WakeInv, [Next]_vars, NEW m \in Messages, Fresh(m), ~Fresh(m)',
                       NEW r \in Readers, reader[r] = "blocked"
                PROVE  \E s \in Readers : reader[s] = "blocked" /\ reader'[s] = "woken"
    OBVIOUS
  <2>1. SendMessage(m)
    BY OnlySendMakesOld DEF WakeInv, ReadsInv
  <2>. QED BY <2>1, SendWakes
<1>. QED BY <1>1, InitWakeInv, StepWakeInv, PTL DEF Spec, SendWakesReader

----------------------------------------------------------------------------
(* Nothing is lost *)

\* What a message that was sent may meet in one step: it stays, or it goes because a
\* caller that was handed it deletes it; and it never comes back.
KeptUntilDeleted(m) ==
  /\ ~Fresh(m)'
  /\ m \notin queue => m \notin queue'
  /\ m \in queue /\ m \notin queue' =>
       \E r \in Readers : item[r].message = m /\ item'[r] = Nothing

LEMMA StepKeepsMessages ==
  ASSUME TypeOK, [Next]_vars, NEW m \in Messages, ~Fresh(m)
  PROVE  KeptUntilDeleted(m)
<1>1. CASE UNCHANGED <<queue, arrival>>
  BY <1>1 DEF KeptUntilDeleted, Fresh
<1>2. ASSUME NEW n \in Messages, SendMessage(n) PROVE KeptUntilDeleted(m)
  BY <1>2 DEF SendMessage, KeptUntilDeleted, Fresh, TypeOK
<1>3. ASSUME NEW r \in Readers, DeleteMessage(r) PROVE KeptUntilDeleted(m)
  <2>1. /\ item'[r] = Nothing /\ arrival' = arrival
        /\ queue' = queue \ {item[r].message}
    BY <1>3 DEF DeleteMessage, TypeOK
  <2>. QED BY <2>1 DEF KeptUntilDeleted, Fresh
<1>. QED
  BY <1>1, <1>2, <1>3
     DEF Next, vars, ClaimExpires, Receive, ReceiveAtOnce, ReceiveBlocks, ReceiveThrows, Return,
         ReturnItem, ReturnEmpty, ReturnThrows, ReadTimesOut, Abandon

\* No message is lost: once sent it is in _queue until a caller of receiveMessage that
\* was handed it calls deleteMessage, whatever timeouts, errors and expired claims
\* there are in between, and a deleted one is never delivered again.
THEOREM NothingIsLost == Spec => [][\A m \in Messages : ~Fresh(m) => KeptUntilDeleted(m)]_vars
<1>1. TypeOK /\ [Next]_vars => [\A m \in Messages : ~Fresh(m) => KeptUntilDeleted(m)]_vars
  BY StepKeepsMessages
<1>. QED BY <1>1, TypeCorrect, PTL DEF Spec
=============================================================================
