--------------------------- MODULE StorageProofs ---------------------------
(***************************************************************************)
(* What holds of the MemoryRepository, of FileQueue and of FileBinary for  *)
(* every set of keys and callers, of messages and of requests.             *)
(*                                                                         *)
(* Repository.  RepositoryInv says that the order of the keys has each key *)
(* of the Map once, that a copy no other caller has outdated is still what *)
(* the Map holds, and how far each iteration has got: while nothing is     *)
(* deleted, the page it reads begins that order and what it has yielded    *)
(* begins the page.                                                        *)
(*                                                                         *)
(* FileQueue.  FileQueueInv ties the files of the folder to the history of *)
(* each message; with it, each step is a step of AtLeastOnceQueue or       *)
(* changes nothing there.                                                  *)
(*                                                                         *)
(* FileBinary.  BinaryInv says of each content that none of the exceptions *)
(* has met what its folder holds while requests are under way: a marker    *)
(* for each object that uses it and for each request about to link or to   *)
(* clean it, and at most one request that still writes it.                 *)
(***************************************************************************)
EXTENDS Repository, FileQueue, FileBinary, SequenceTheorems, FiniteSetTheorems, TLAPS

----------------------------------------------------------------------------
(* Repository: the sequence operators of the model *)

LEMMA RemoveAtProperties ==
  ASSUME NEW S, NEW s \in Seq(S), NEW i \in 1..Len(s)
  PROVE  /\ RemoveAt(s, i) \in Seq(S)
         /\ Len(RemoveAt(s, i)) = Len(s) - 1
         /\ \A j \in 1..(Len(s) - 1) : RemoveAt(s, i)[j] = IF j < i THEN s[j] ELSE s[j + 1]
<1> DEFINE a == SubSeq(s, 1, i - 1)
           b == SubSeq(s, i + 1, Len(s))
<1>1. Len(s) \in Nat /\ \A j \in 1..Len(s) : s[j] \in S
  BY LenProperties
<1>2. /\ a \in Seq(S) /\ Len(a) = i - 1
      /\ \A j \in 1..(i - 1) : a[j] = s[j]
  BY <1>1, SubSeqProperties
<1>3. /\ b \in Seq(S) /\ Len(b) = Len(s) - i
      /\ \A j \in 1..(Len(s) - i) : b[j] = s[i + j]
  BY <1>1, SubSeqProperties
<1> HIDE DEF a, b
<1>4. /\ a \o b \in Seq(S) /\ Len(a \o b) = Len(s) - 1
      /\ \A j \in 1..(Len(s) - 1) : (a \o b)[j] = IF j <= Len(a) THEN a[j] ELSE b[j - Len(a)]
  <2>1. /\ a \o b \in Seq(S) /\ Len(a \o b) = Len(a) + Len(b)
        /\ \A j \in 1..(Len(a) + Len(b)) :
             (a \o b)[j] = IF j <= Len(a) THEN a[j] ELSE b[j - Len(a)]
    BY <1>2, <1>3, ConcatProperties
  <2>2. Len(a) + Len(b) = Len(s) - 1
    BY <1>1, <1>2, <1>3
  <2> QED
    BY <2>1, <2>2
<1>5. RemoveAt(s, i) = a \o b
  BY DEF RemoveAt, a, b
<1> QED
  BY <1>1, <1>2, <1>3, <1>4, <1>5

\* Appending a new element keeps a sequence without repetition.
LEMMA AppendInjection ==
  ASSUME NEW S, NEW s \in Seq(S), IsInjective(s), NEW e \in S, e \notin ToSet(s)
  PROVE  /\ Append(s, e) \in Seq(S) /\ IsInjective(Append(s, e))
         /\ ToSet(Append(s, e)) = ToSet(s) \union {e}
<1>1. /\ Append(s, e) \in Seq(S) /\ Len(s) \in Nat
      /\ DOMAIN s = 1..Len(s) /\ DOMAIN Append(s, e) = 1..(Len(s) + 1)
      /\ \A i \in 1..Len(s) : Append(s, e)[i] = s[i]
      /\ Append(s, e)[Len(s) + 1] = e
  BY AppendProperties, LenProperties
<1>2. IsInjective(Append(s, e))
  BY <1>1 DEF IsInjective, ToSet
<1>3. ToSet(Append(s, e)) = ToSet(s) \union {e}
  BY <1>1 DEF ToSet
<1> QED
  BY <1>1, <1>2, <1>3

\* Removing an element leaves the others, in their order.
LEMMA RemoveInjection ==
  ASSUME NEW S, NEW s \in Seq(S), IsInjective(s), NEW i \in DOMAIN s
  PROVE  /\ RemoveAt(s, i) \in Seq(S) /\ IsInjective(RemoveAt(s, i))
         /\ ToSet(RemoveAt(s, i)) = ToSet(s) \ {s[i]}
<1> DEFINE t == RemoveAt(s, i)
<1>1. /\ Len(s) \in Nat /\ DOMAIN s = 1..Len(s) /\ i \in 1..Len(s)
      /\ t \in Seq(S) /\ DOMAIN t = 1..(Len(s) - 1)
      /\ \A j \in 1..(Len(s) - 1) : t[j] = IF j < i THEN s[j] ELSE s[j + 1]
  BY RemoveAtProperties, LenProperties
<1> HIDE DEF t
<1>2. IsInjective(t)
  <2> SUFFICES ASSUME NEW j \in DOMAIN t, NEW k \in DOMAIN t, t[j] = t[k] PROVE j = k
    BY DEF IsInjective
  <2> DEFINE from(n) == IF n < i THEN n ELSE n + 1
  <2>1. from(j) \in DOMAIN s /\ from(k) \in DOMAIN s
    BY <1>1
  <2>2. t[j] = s[from(j)] /\ t[k] = s[from(k)]
    BY <1>1
  <2>3. from(j) = from(k)
    BY <2>1, <2>2 DEF IsInjective
  <2> QED
    BY <1>1, <2>3
<1>3. ToSet(t) = ToSet(s) \ {s[i]}
  <2>1. ASSUME NEW j \in DOMAIN t PROVE t[j] \in ToSet(s) \ {s[i]}
    BY <1>1 DEF IsInjective, ToSet
  <2>2. ASSUME NEW j \in DOMAIN s, s[j] # s[i] PROVE s[j] \in ToSet(t)
    <3>1. CASE j < i
      BY <1>1, <3>1 DEF ToSet
    <3>2. CASE j > i
      <4>1. j - 1 \in DOMAIN t /\ t[j - 1] = s[j]
        BY <1>1, <3>2
      <4> QED
        BY <4>1 DEF ToSet
    <3> QED
      BY <1>1, <2>2, <3>1, <3>2
  <2> QED
    BY <2>1, <2>2 DEF ToSet
<1> QED
  BY <1>1, <1>2, <1>3 DEF t

----------------------------------------------------------------------------
(* The inductive invariant *)

Activity == {NoCall, IgnoredCondition} \union Writing \union Upserting \union Iterating

\* What another caller has not outdated is still in the Map, and what will be
\* written back is an item.
CopiesAreCurrent ==
  \A c \in Callers : call[c].at = "writing" =>
    /\ Store!Result(call[c].op, call[c].copy) \in Store!Item
    /\ ~call[c].stale => storage[call[c].key] = call[c].copy

\* While nothing is deleted the page being read begins the order of the Map, and
\* the keys yielded begin that page.
FollowsOrder(i) ==
  /\ Len(i.page) <= Len(order) /\ \A n \in 1..Len(i.page) : i.page[n] = order[n]
  /\ Len(i.yielded) = i.offset /\ i.offset <= Len(i.page)
  /\ \A n \in 1..i.offset : i.yielded[n] = i.page[n]
  /\ i.kept \subseteq ToSet(i.page)

IterationsFollowOrder ==
  \A c \in Callers : call[c].at = "iterating" /\ ~call[c].deleted => FollowsOrder(call[c])

RepositoryInv ==
  RepositoryTypeOK /\ CopiesAreCurrent /\ IterationsFollowOrder /\ IterationIsComplete

LEMMA RepositoryInitInv == RepositoryInit => RepositoryInv
<1> SUFFICES ASSUME RepositoryInit PROVE RepositoryInv
  OBVIOUS
<1>1. RepositoryTypeOK
  <2>1. <<>> \in Seq(Keys) /\ IsInjective(<<>>) /\ ToSet(<<>>) = {}
    BY DEF IsInjective, ToSet
  <2> QED
    BY <2>1, RepositoryAssumption DEF RepositoryInit, RepositoryTypeOK
<1>2. CopiesAreCurrent /\ IterationsFollowOrder /\ IterationIsComplete
  BY DEF RepositoryInit, CopiesAreCurrent, IterationsFollowOrder, IterationIsComplete, NoCall
<1> QED
  BY <1>1, <1>2 DEF RepositoryInv

\* The shapes of a call, told by where it is.
LEMMA CallShapes ==
  ASSUME NEW a \in Activity
  PROVE  /\ a.at = "idle" => a = NoCall
         /\ a.at = "writing" => a \in Writing
         /\ a.at = "upserting" => a \in Upserting
         /\ a.at \in {"iterating", "iterated"} => a \in Iterating
         /\ a.at \in {"idle", "ignored", "writing", "upserting", "iterating", "iterated"}
  BY DEF Activity, NoCall, IgnoredCondition, Writing, Upserting, Iterating

LEMMA ItemsArePresent == Absent \notin Store!Item /\ Store!NewItem \in Store!Item
<1>1. Store!Item \subseteq [rev : Nat, count : Nat, list : Seq(Nat)]
  <2>1. Store!Numbers \subseteq Nat
    BY RepositoryAssumption DEF Store!Numbers
  <2>2. ASSUME NEW s \in Seq(Store!Numbers) PROVE s \in Seq(Nat)
    <3>1. Len(s) \in Nat /\ s \in [1..Len(s) -> Nat]
      BY <2>1, LenProperties
    <3> QED
      BY <3>1, SeqDef
  <2>. QED BY <2>1, <2>2 DEF Store!Item, Store!Collections
<1>2. Store!NewItem \in Store!Item
  BY RepositoryAssumption DEF Store!Item, Store!Collections, Store!Numbers, Store!NewItem
<1> QED
  BY <1>1, <1>2, RepositoryAssumption

\* A step of c that leaves the Map and the other callers alone.
LEMMA CallKeepsInv ==
  ASSUME RepositoryInv, NEW c \in Callers, NEW a \in Activity,
         call' = [call EXCEPT ![c] = a], UNCHANGED <<storage, order>>, calls' \in 0..MaxCalls,
         a.at = "writing" => Store!Result(a.op, a.copy) \in Store!Item /\ storage[a.key] = a.copy,
         a.at = "iterating" /\ ~a.deleted => FollowsOrder(a),
         a.at = "iterated" /\ ~a.deleted => a.kept \subseteq ToSet(a.yielded) /\ IsInjective(a.yielded)
  PROVE  RepositoryInv'
<1>1. /\ RepositoryTypeOK /\ CopiesAreCurrent /\ IterationsFollowOrder /\ IterationIsComplete
      /\ DOMAIN call = Callers /\ \A d \in Callers : call[d] \in Activity
  BY DEF RepositoryInv, RepositoryTypeOK, Activity
<1>2. /\ DOMAIN call' = Callers /\ call'[c] = a
      /\ \A d \in Callers \ {c} : call'[d] = call[d]
  BY <1>1
<1>3. RepositoryTypeOK'
  BY <1>1, <1>2 DEF RepositoryTypeOK, Activity
<1>4. CopiesAreCurrent'
  BY <1>1, <1>2 DEF CopiesAreCurrent
<1>5. IterationsFollowOrder'
  BY <1>1, <1>2 DEF IterationsFollowOrder, FollowsOrder
<1>6. IterationIsComplete'
  BY <1>1, <1>2 DEF IterationIsComplete
<1> QED
  BY <1>3, <1>4, <1>5, <1>6 DEF RepositoryInv

LEMMA NoticedShape ==
  ASSUME NEW a \in Activity, NEW k \in Keys, NEW gone \in BOOLEAN
  PROVE  /\ Noticed(a, k, gone) \in Activity
         /\ Noticed(a, k, gone).at = a.at
         /\ a.at = "writing" =>
              /\ Noticed(a, k, gone).key = a.key
              /\ Noticed(a, k, gone).op = a.op
              /\ Noticed(a, k, gone).copy = a.copy
              /\ ~Noticed(a, k, gone).stale => ~a.stale /\ a.key # k
         /\ a.at = "iterating" => (IF gone THEN Noticed(a, k, gone).deleted
                                   ELSE Noticed(a, k, gone) = a)
         /\ a.at \notin {"writing", "iterating"} => Noticed(a, k, gone) = a
<1>1. CASE a.at = "writing"
  <2>1. a \in Writing
    BY <1>1, CallShapes
  <2>2. CASE a.key = k
    <3>1. Noticed(a, k, gone) = [a EXCEPT !.stale = TRUE]
      BY <1>1, <2>2 DEF Noticed
    <3> QED
      BY <1>1, <2>1, <3>1 DEF Activity, Writing
  <2>3. CASE a.key # k
    <3>1. Noticed(a, k, gone) = a
      BY <1>1, <2>3 DEF Noticed
    <3> QED
      BY <1>1, <2>1, <2>3, <3>1 DEF Activity
  <2> QED
    BY <2>2, <2>3
<1>2. CASE a.at = "iterating"
  <2>1. a \in Iterating
    BY <1>2, CallShapes
  <2>2. CASE gone
    <3>1. Noticed(a, k, gone) = [a EXCEPT !.kept = @ \ {k}, !.deleted = TRUE]
      BY <1>2, <2>2 DEF Noticed
    <3> QED
      BY <1>2, <2>1, <2>2, <3>1 DEF Activity, Iterating
  <2>3. CASE ~gone
    <3>1. Noticed(a, k, gone) = a
      BY <1>2, <2>3 DEF Noticed
    <3> QED
      BY <1>2, <2>1, <2>3, <3>1 DEF Activity
  <2> QED
    BY <2>2, <2>3
<1>3. CASE a.at \notin {"writing", "iterating"}
  BY <1>3 DEF Noticed
<1> QED
  BY <1>1, <1>2, <1>3

\* What a change of key k by c does to the calls.
CallsNotice(c, k, gone) ==
  \A d \in Callers :
    /\ call'[d] \in Activity
    /\ call'[d].at \notin {"writing", "iterating"} /\ d # c => call'[d] = call[d]
    /\ call'[d].at = "writing" =>
         /\ call[d].at = "writing" /\ call'[d].key = call[d].key
         /\ call'[d].op = call[d].op /\ call'[d].copy = call[d].copy
         /\ ~call'[d].stale => ~call[d].stale /\ call[d].key # k
    /\ call'[d].at = "iterating" => IF gone THEN call'[d].deleted ELSE call'[d] = call[d]

LEMMA CallsAfterNotice ==
  ASSUME \A d \in Callers : call[d] \in Activity, NEW c \in Callers, NEW k \in Keys,
         NEW gone \in BOOLEAN, NEW holds, call' = CallsAfter(c, Succeeds(holds), k, gone)
  PROVE  /\ CallsNotice(c, k, gone) /\ DOMAIN call' = Callers
         /\ call'[c] = Succeeds(holds) /\ call'[c].at \in {"idle", "ignored"}
<1>1. /\ DOMAIN call' = Callers /\ call'[c] = Succeeds(holds)
      /\ \A d \in Callers \ {c} : call'[d] = Noticed(call[d], k, gone)
  BY DEF CallsAfter
<1>2. Succeeds(holds) \in Activity /\ Succeeds(holds).at \in {"idle", "ignored"}
  BY DEF Succeeds, Activity, NoCall, IgnoredCondition
<1> SUFFICES ASSUME NEW d \in Callers
             PROVE  /\ call'[d] \in Activity
                    /\ call'[d].at \notin {"writing", "iterating"} /\ d # c => call'[d] = call[d]
                    /\ call'[d].at = "writing" =>
                         /\ call[d].at = "writing" /\ call'[d].key = call[d].key
                         /\ call'[d].op = call[d].op /\ call'[d].copy = call[d].copy
                         /\ ~call'[d].stale => ~call[d].stale /\ call[d].key # k
                    /\ call'[d].at = "iterating" =>
                         IF gone THEN call'[d].deleted ELSE call'[d] = call[d]
  BY <1>1, <1>2 DEF CallsNotice
<1>3. CASE d = c
  BY <1>1, <1>2, <1>3
<1>4. CASE d # c
  <2>1. call[d] \in Activity /\ call'[d] = Noticed(call[d], k, gone)
    BY <1>1, <1>4
  <2> QED
    BY <2>1, NoticedShape
<1> QED
  BY <1>3, <1>4

\* An item is set by c, whose call is over.
LEMMA SetsKeepsInv ==
  ASSUME RepositoryInv, NEW c \in Callers, NEW k \in Keys, NEW item \in Store!Item, NEW holds,
         Sets(c, k, item, holds), calls' \in 0..MaxCalls
  PROVE  RepositoryInv'
<1>1. /\ RepositoryTypeOK /\ CopiesAreCurrent /\ IterationsFollowOrder /\ IterationIsComplete
      /\ DOMAIN call = Callers /\ \A d \in Callers : call[d] \in Activity
  BY DEF RepositoryInv, RepositoryTypeOK, Activity
<1>2. /\ storage' = [storage EXCEPT ![k] = item]
      /\ order' = IF storage[k] = Absent THEN Append(order, k) ELSE order
      /\ DOMAIN call' = Callers /\ call'[c].at \in {"idle", "ignored"}
      /\ CallsNotice(c, k, FALSE)
  BY <1>1, CallsAfterNotice DEF Sets
<1>3. /\ storage' \in [Keys -> Store!Item \union {Absent}]
      /\ order' \in Seq(Keys) /\ IsInjective(order')
      /\ ToSet(order') = {j \in Keys : storage'[j] # Absent}
      /\ Len(order) <= Len(order') /\ \A n \in 1..Len(order) : order'[n] = order[n]
  <2>1. /\ order \in Seq(Keys) /\ IsInjective(order) /\ Len(order) \in Nat
        /\ ToSet(order) = {j \in Keys : storage[j] # Absent}
        /\ storage \in [Keys -> Store!Item \union {Absent}]
    BY <1>1, LenProperties DEF RepositoryTypeOK
  <2>2. CASE storage[k] = Absent
    <3>1. /\ order' \in Seq(Keys) /\ IsInjective(order') /\ ToSet(order') = ToSet(order) \union {k}
          /\ Len(order') = Len(order) + 1 /\ \A n \in 1..Len(order) : order'[n] = order[n]
      BY <1>2, <2>1, <2>2, AppendInjection, AppendProperties
    <3> QED
      BY <1>2, <2>1, <3>1, ItemsArePresent
  <2>3. CASE storage[k] # Absent
    BY <1>2, <2>1, <2>3, ItemsArePresent
  <2> QED
    BY <2>2, <2>3
<1>4. \A d \in Callers : call'[d] \in Activity
  BY <1>2 DEF CallsNotice
<1>5. RepositoryTypeOK'
  BY <1>2, <1>3, <1>4 DEF RepositoryTypeOK, Activity
<1>6. CopiesAreCurrent'
  BY <1>1, <1>2, CallShapes DEF CopiesAreCurrent, CallsNotice, RepositoryTypeOK, Writing
<1>7. IterationsFollowOrder'
  <2> SUFFICES ASSUME NEW d \in Callers, call'[d].at = "iterating", ~call'[d].deleted
               PROVE  FollowsOrder(call[d])'
    BY DEF IterationsFollowOrder
  <2>1. call'[d] = call[d]
    BY <1>2 DEF CallsNotice
  <2>2. FollowsOrder(call[d]) /\ call[d].page \in Seq(Keys)
    BY <1>1, <2>1, CallShapes DEF IterationsFollowOrder, Iterating
  <2>3. Len(call[d].page) \in Nat /\ Len(order) \in Nat /\ Len(order') \in Nat
    BY <1>1, <1>3, <2>2, LenProperties DEF RepositoryTypeOK
  <2> QED
    BY <1>3, <2>1, <2>2, <2>3 DEF FollowsOrder
<1>8. IterationIsComplete'
  BY <1>1, <1>2 DEF IterationIsComplete, CallsNotice
<1> QED
  BY <1>5, <1>6, <1>7, <1>8 DEF RepositoryInv

LEMMA DeleteKeepsInv ==
  ASSUME RepositoryInv, NEW c \in Callers, NEW k \in Keys, NEW expects, Delete(c, k, expects)
  PROVE  RepositoryInv'
<1>1. /\ RepositoryTypeOK /\ CopiesAreCurrent /\ IterationsFollowOrder /\ IterationIsComplete
      /\ DOMAIN call = Callers /\ \A d \in Callers : call[d] \in Activity
  BY DEF RepositoryInv, RepositoryTypeOK, Activity
<1> DEFINE gone == storage[k] # Absent
<1>2. /\ storage' = [storage EXCEPT ![k] = Absent]
      /\ order' = Without(k)
      /\ DOMAIN call' = Callers /\ call'[c].at \in {"idle", "ignored"}
      /\ CallsNotice(c, k, gone)
      /\ calls' \in 0..MaxCalls
  <2>1. gone \in BOOLEAN
    OBVIOUS
  <2>2. /\ storage' = [storage EXCEPT ![k] = Absent]
        /\ order' = Without(k)
        /\ call' = CallsAfter(c, Succeeds(Store!Deletable(storage[k], expects)), k, gone)
    BY DEF Delete
  <2>3. calls' \in 0..MaxCalls
    BY <1>1, RepositoryAssumption DEF Delete, Calls, RepositoryTypeOK
  <2> QED
    BY <1>1, <2>1, <2>2, <2>3, CallsAfterNotice
<1>3. /\ storage' \in [Keys -> Store!Item \union {Absent}]
      /\ order' \in Seq(Keys) /\ IsInjective(order')
      /\ ToSet(order') = {j \in Keys : storage'[j] # Absent}
      /\ ~gone => order' = order
  <2>1. /\ order \in Seq(Keys) /\ IsInjective(order)
        /\ ToSet(order) = {j \in Keys : storage[j] # Absent}
        /\ storage \in [Keys -> Store!Item \union {Absent}]
    BY <1>1 DEF RepositoryTypeOK
  <2>2. CASE gone
    <3>1. \E i \in DOMAIN order : order[i] = k
      BY <2>1, <2>2 DEF ToSet
    <3>2. PICK i \in DOMAIN order : order[i] = k /\ Without(k) = RemoveAt(order, i)
      BY <2>2, <3>1 DEF Without
    <3>3. /\ order' \in Seq(Keys) /\ IsInjective(order') /\ ToSet(order') = ToSet(order) \ {k}
      BY <1>2, <2>1, <3>2, RemoveInjection
    <3> QED
      BY <1>2, <2>1, <2>2, <3>3
  <2>3. CASE ~gone
    BY <1>2, <2>1, <2>3 DEF Without
  <2> QED
    BY <2>2, <2>3
<1>4. \A d \in Callers : call'[d] \in Activity
  BY <1>2 DEF CallsNotice
<1>5. RepositoryTypeOK'
  BY <1>2, <1>3, <1>4 DEF RepositoryTypeOK, Activity
<1>6. CopiesAreCurrent'
  BY <1>1, <1>2, CallShapes DEF CopiesAreCurrent, CallsNotice, RepositoryTypeOK, Writing
<1>7. IterationsFollowOrder'
  <2> SUFFICES ASSUME NEW d \in Callers, call'[d].at = "iterating", ~call'[d].deleted
               PROVE  FollowsOrder(call[d])'
    BY DEF IterationsFollowOrder
  <2>1. call'[d] = call[d] /\ order' = order
    BY <1>2, <1>3 DEF CallsNotice
  <2> QED
    BY <1>1, <2>1 DEF IterationsFollowOrder, FollowsOrder
<1>8. IterationIsComplete'
  BY <1>1, <1>2 DEF IterationIsComplete, CallsNotice
<1> QED
  BY <1>5, <1>6, <1>7, <1>8 DEF RepositoryInv

----------------------------------------------------------------------------
(* Every action keeps the invariant *)

\* What the invariant says of one caller.
LEMMA InvParts ==
  ASSUME RepositoryInv
  PROVE  /\ DOMAIN call = Callers /\ \A c \in Callers : call[c] \in Activity
         /\ storage \in [Keys -> Store!Item \union {Absent}]
         /\ order \in Seq(Keys) /\ IsInjective(order)
         /\ calls \in 0..MaxCalls
         /\ CopiesAreCurrent /\ IterationsFollowOrder /\ IterationIsComplete
  BY DEF RepositoryInv, RepositoryTypeOK, Activity

LEMMA CallsCount == ASSUME RepositoryInv, NEW c \in Callers, Calls(c) PROVE calls' \in 0..MaxCalls
  BY InvParts, RepositoryAssumption DEF Calls

LEMMA FailsKeepsInv ==
  ASSUME RepositoryInv, NEW c \in Callers, Fails(c), calls' \in 0..MaxCalls PROVE RepositoryInv'
<1>1. NoCall \in Activity /\ NoCall.at = "idle"
  BY DEF Activity, NoCall
<1> QED
  BY <1>1, CallKeepsInv DEF Fails, Ends

LEMMA CreatesKeepsInv ==
  ASSUME RepositoryInv, NEW c \in Callers, NEW k \in Keys, Creates(c, k), calls' \in 0..MaxCalls
  PROVE  RepositoryInv'
  BY SetsKeepsInv, FailsKeepsInv, ItemsArePresent DEF Creates

LEMMA ReadsKeepsInv ==
  ASSUME RepositoryInv, NEW c \in Callers, NEW k \in Keys, NEW op \in Store!Operations,
         Reads(c, k, op), calls' \in 0..MaxCalls,
         storage[k] # Absent => Store!Result(op, storage[k]) \in Store!Item
  PROVE  RepositoryInv'
<1>1. CASE storage[k] = Absent
  BY <1>1, FailsKeepsInv DEF Reads
<1>2. CASE storage[k] # Absent
  <2> DEFINE a == [at |-> "writing", key |-> k, op |-> op, copy |-> storage[k], stale |-> FALSE]
  <2>1. a \in Activity
    BY <1>2, InvParts DEF Activity, Writing
  <2>2. /\ call' = [call EXCEPT ![c] = a] /\ UNCHANGED <<storage, order>>
        /\ a.at = "writing" /\ a.op = op /\ a.copy = storage[k] /\ a.key = k
    BY <1>2 DEF Reads
  <2> HIDE DEF a
  <2> QED
    BY <1>2, <2>1, <2>2, CallKeepsInv
<1> QED
  BY <1>1, <1>2

\* Within its bounds an operation makes an item of an item.
LEMMA ResultIsItem ==
  ASSUME NEW op \in Store!Operations, NEW item \in Store!Item, Within(op, item)
  PROVE  Store!Result(op, item) \in Store!Item
<1> USE RepositoryAssumption
<1>1. /\ op.kind \in {"update", "patch", "increment", "remove", "push", "replace", "splice"}
      /\ op.expects \in 0..(MaxNumber + 1)
      /\ op.kind \in {"replace", "splice"} => op.index \in 0..(MaxLength - 1)
  BY DEF Store!Operations, Store!Conditions, Store!Numbers, Store!NoCondition
<1>2. /\ item.rev \in Store!Numbers /\ item.count \in Store!Numbers
      /\ item.list \in Seq(Store!Numbers) /\ Len(item.list) \in Nat /\ Len(item.list) <= MaxLength
      /\ item = [rev |-> item.rev, count |-> item.count, list |-> item.list]
  BY LenProperties DEF Store!Item, Store!Collections
<1>3. Store!Numbers = 0..MaxNumber
  BY DEF Store!Numbers
<1>4. ASSUME NEW list \in Seq(Store!Numbers), Len(list) <= MaxLength
      PROVE  [item EXCEPT !.list = list] \in Store!Item
  BY <1>2, <1>4 DEF Store!Item, Store!Collections
<1>5. ASSUME op.kind \in {"update", "patch"}, NEW rev \in 0..MaxNumber
      PROVE  Store!MovedOn(op, rev) \in Store!Numbers
  BY <1>1, <1>3, <1>5 DEF Store!MovedOn, Store!NoCondition, Within
<1>10. CASE op.kind = "update"
  <2>1. Store!Result(op, item) = [rev |-> Store!MovedOn(op, 0), count |-> 0, list |-> <<>>]
    BY <1>10 DEF Store!Result, Store!OnElement
  <2>2. <<>> \in Store!Collections
    BY DEF Store!Collections
  <2>3. Store!MovedOn(op, 0) \in Store!Numbers /\ 0 \in Store!Numbers
    BY <1>3, <1>5, <1>10
  <2>. QED BY <2>1, <2>2, <2>3 DEF Store!Item
<1>11. CASE op.kind = "patch"
  <2>1. Store!Result(op, item) = [item EXCEPT !.rev = Store!MovedOn(op, item.rev)]
    BY <1>11 DEF Store!Result, Store!OnElement
  <2>2. Store!MovedOn(op, item.rev) \in Store!Numbers
    BY <1>2, <1>3, <1>5, <1>11
  <2>. QED BY <2>1, <2>2 DEF Store!Item
<1>6. CASE op.kind = "increment"
  <2>1. Store!Result(op, item) = [item EXCEPT !.count = item.count + 1]
    BY <1>6 DEF Store!Result, Store!OnElement
  <2>2. item.count + 1 \in Store!Numbers
    BY <1>2, <1>3, <1>6 DEF Within
  <2>. QED BY <2>1, <2>2 DEF Store!Item
<1>12. CASE op.kind = "remove"
  <2>1. Store!Result(op, item) = [item EXCEPT !.count = 0]
    BY <1>12 DEF Store!Result, Store!OnElement
  <2>. QED BY <1>3, <2>1 DEF Store!Item
<1>7. CASE op.kind = "push"
  <2>1. Store!Changed(op, item.list) = Append(item.list, 0)
    BY <1>7 DEF Store!Changed
  <2>2. /\ Append(item.list, 0) \in Seq(Store!Numbers)
        /\ Len(Append(item.list, 0)) = Len(item.list) + 1
    BY <1>2, <1>3, AppendProperties
  <2>3. Len(item.list) + 1 <= MaxLength
    BY <1>2, <1>7 DEF Within
  <2>. QED BY <1>4, <1>7, <2>1, <2>2, <2>3 DEF Store!Result, Store!OnElement
<1>8. CASE op.kind = "replace"
  <2>. PICK number \in Store!Numbers : number = Store!MovedOn(op, 0)
    BY <1>1, <1>3, <1>8 DEF Store!MovedOn, Store!NoCondition, Within
  <2>1. CASE Store!Finds(op, item.list)
    <3>1. Store!Changed(op, item.list) = [item.list EXCEPT ![op.index + 1] = number]
      BY <1>8, <2>1 DEF Store!Changed
    <3>2. op.index + 1 \in 1..Len(item.list)
      BY <1>1, <1>2, <1>8, <2>1 DEF Store!Finds
    <3>3. /\ [item.list EXCEPT ![op.index + 1] = number] \in Seq(Store!Numbers)
          /\ Len([item.list EXCEPT ![op.index + 1] = number]) = Len(item.list)
      BY <1>2, <3>2, ExceptSeq
    <3>. QED BY <1>2, <1>4, <1>8, <3>1, <3>3 DEF Store!Result, Store!OnElement
  <2>2. CASE ~Store!Finds(op, item.list)
    <3>1. Store!Changed(op, item.list) = Append(item.list, number)
      BY <1>8, <2>2 DEF Store!Changed
    <3>2. /\ Append(item.list, number) \in Seq(Store!Numbers)
          /\ Len(Append(item.list, number)) = Len(item.list) + 1
      BY <1>2, AppendProperties
    <3>3. Len(item.list) + 1 <= MaxLength
      BY <1>1, <1>2, <1>8, <2>2 DEF Within, Store!Finds
    <3>. QED BY <1>4, <1>8, <3>1, <3>2, <3>3 DEF Store!Result, Store!OnElement
  <2>. QED BY <2>1, <2>2
<1>9. CASE op.kind = "splice"
  <2>1. CASE Store!Finds(op, item.list)
    <3>1. Store!Changed(op, item.list) = RemoveAt(item.list, op.index + 1)
      BY <1>9, <2>1 DEF Store!Changed, Store!RemoveAt, RemoveAt
    <3>2. op.index + 1 \in 1..Len(item.list)
      BY <1>1, <1>2, <1>9, <2>1 DEF Store!Finds
    <3>3. /\ RemoveAt(item.list, op.index + 1) \in Seq(Store!Numbers)
          /\ Len(RemoveAt(item.list, op.index + 1)) = Len(item.list) - 1
      BY <1>2, <3>2, RemoveAtProperties
    <3>. QED BY <1>2, <1>4, <1>9, <3>1, <3>3 DEF Store!Result, Store!OnElement
  <2>2. CASE ~Store!Finds(op, item.list)
    BY <1>2, <1>4, <1>9, <2>2 DEF Store!Result, Store!OnElement, Store!Changed
  <2>. QED BY <2>1, <2>2
<1> QED
  BY <1>1, <1>6, <1>7, <1>8, <1>9, <1>10, <1>11, <1>12

LEMMA BeginKeepsInv ==
  ASSUME RepositoryInv, NEW c \in Callers, NEW k \in Keys, NEW op \in Store!Operations,
         Begin(c, k, op)
  PROVE  RepositoryInv'
<1>1. storage[k] # Absent => Store!Result(op, storage[k]) \in Store!Item
  BY InvParts, ResultIsItem DEF Begin
<1> QED
  BY <1>1, CallsCount, ReadsKeepsInv DEF Begin

LEMMA FinishKeepsInv ==
  ASSUME RepositoryInv, NEW c \in Callers, Finish(c) PROVE RepositoryInv'
<1>1. /\ call[c] \in Writing /\ calls' \in 0..MaxCalls
      /\ Store!Result(call[c].op, call[c].copy) \in Store!Item
  BY InvParts, CallShapes DEF Finish, CopiesAreCurrent
<1>2. call[c].key \in Keys
  BY <1>1 DEF Writing
<1> QED
  BY <1>1, <1>2, SetsKeepsInv, FailsKeepsInv DEF Finish

\* The patch of an upsert has no condition and changes none of the numbers.
LEMMA PatchIsItem ==
  ASSUME NEW item \in Store!Item
  PROVE  AnyPatch \in Store!Operations /\ Store!Result(AnyPatch, item) \in Store!Item
<1>1. /\ AnyPatch \in Store!Operations /\ AnyPatch.kind = "patch"
      /\ AnyPatch.expects = Store!NoCondition
  BY DEF AnyPatch, Store!Operations, Store!Conditions
<1>2. Store!Result(AnyPatch, item) = [item EXCEPT !.rev = item.rev]
  <2>1. Store!MovedOn(AnyPatch, item.rev) = item.rev
    BY <1>1 DEF Store!MovedOn
  <2>2. Store!Result(AnyPatch, item) = [item EXCEPT !.rev = Store!MovedOn(AnyPatch, item.rev)]
    BY <1>1 DEF Store!Result, Store!OnElement
  <2> QED
    BY <2>1, <2>2
<1> QED
  BY <1>1, <1>2 DEF Store!Item

LEMMA UpsertKeepsInv ==
  ASSUME RepositoryInv, NEW c \in Callers, NEW k \in Keys, Upsert(c, k) PROVE RepositoryInv'
<1> DEFINE a == [at |-> "upserting", key |-> k, found |-> storage[k] # Absent]
<1>1. a \in Activity /\ a.at = "upserting"
  BY DEF Activity, Upserting
<1>2. call' = [call EXCEPT ![c] = a] /\ UNCHANGED <<storage, order>>
  BY DEF Upsert
<1>3. calls' \in 0..MaxCalls
  BY CallsCount DEF Upsert
<1> HIDE DEF a
<1> QED
  BY <1>1, <1>2, <1>3, CallKeepsInv

LEMMA UpsertGoesOnKeepsInv ==
  ASSUME RepositoryInv, NEW c \in Callers, UpsertGoesOn(c) PROVE RepositoryInv'
<1>1. call[c].key \in Keys /\ calls' \in 0..MaxCalls
  BY InvParts, CallShapes DEF UpsertGoesOn, Upserting
<1>2. CASE call[c].found
  BY <1>1, <1>2, InvParts, PatchIsItem, ItemsArePresent, ReadsKeepsInv DEF UpsertGoesOn
<1>3. CASE ~call[c].found
  BY <1>1, <1>3, CreatesKeepsInv DEF UpsertGoesOn
<1> QED
  BY <1>2, <1>3

LEMMA IterateKeepsInv ==
  ASSUME RepositoryInv, NEW c \in Callers, Iterate(c) PROVE RepositoryInv'
<1> DEFINE a == [at |-> "iterating", page |-> order, offset |-> 0, room |-> PageSize,
                 yielded |-> <<>>, kept |-> ToSet(order), deleted |-> FALSE]
<1>1. order \in Seq(Keys) /\ Len(order) \in Nat /\ ToSet(order) \subseteq Keys
      /\ ToSet(order) = {order[n] : n \in 1..Len(order)}
  BY InvParts, LenProperties DEF ToSet
<1>2. <<>> \in Seq(Keys) /\ Len(<<>>) = 0 /\ PageSize \in 0..PageSize
  BY RepositoryAssumption
<1>3. a \in Activity /\ a.at = "iterating"
  BY <1>1, <1>2 DEF Activity, Iterating
<1>4. FollowsOrder(a)
  BY <1>1, <1>2 DEF FollowsOrder
<1>5. call' = [call EXCEPT ![c] = a] /\ UNCHANGED <<storage, order>>
  BY DEF Iterate
<1>6. calls' \in 0..MaxCalls
  BY CallsCount DEF Iterate
<1> HIDE DEF a
<1> QED
  BY <1>3, <1>4, <1>5, <1>6, CallKeepsInv

\* What the type says of an iteration that runs.
LEMMA IterationShape ==
  ASSUME RepositoryInv, NEW c \in Callers, call[c].at = "iterating"
  PROVE  /\ call[c] \in Iterating /\ calls \in 0..MaxCalls
         /\ call[c].page \in Seq(Keys) /\ Len(call[c].page) \in Nat
         /\ DOMAIN call[c].page = 1..Len(call[c].page)
         /\ call[c].yielded \in Seq(Keys) /\ Len(call[c].yielded) \in Nat
         /\ DOMAIN call[c].yielded = 1..Len(call[c].yielded)
         /\ call[c].offset \in Nat /\ call[c].room \in 0..PageSize
         /\ order \in Seq(Keys) /\ Len(order) \in Nat /\ DOMAIN order = 1..Len(order)
         /\ IsInjective(order)
         /\ ~call[c].deleted => FollowsOrder(call[c])
<1>1. call[c] \in Iterating
  BY InvParts, CallShapes
<1> QED
  BY <1>1, InvParts, LenProperties DEF Iterating, IterationsFollowOrder

LEMMA IterateReadsKeepsInv ==
  ASSUME RepositoryInv, NEW c \in Callers, IterateReads(c) PROVE RepositoryInv'
<1> DEFINE i == call[c]
           k == i.page[i.offset + 1]
<1>1. /\ i.at = "iterating" /\ i.room > 0 /\ i.offset < Len(i.page)
      /\ UNCHANGED <<storage, order, calls>>
  BY DEF IterateReads
<1>2. calls' \in 0..MaxCalls /\ k \in Keys /\ i.offset + 1 \in 1..Len(i.page)
  BY <1>1, IterationShape
<1>3. CASE storage[k] = Absent
  <2>1. Fails(c)
    BY <1>1, <1>3 DEF IterateReads, Fails
  <2> QED
    BY <1>2, <2>1, FailsKeepsInv
<1>4. CASE storage[k] # Absent
  <2> DEFINE a == [i EXCEPT !.yielded = Append(@, k), !.offset = @ + 1, !.room = @ - 1]
  <2>1. call' = [call EXCEPT ![c] = a]
    BY <1>4 DEF IterateReads
  <2>2. /\ Append(i.yielded, k) \in Seq(Keys) /\ Len(Append(i.yielded, k)) = Len(i.yielded) + 1
        /\ \A n \in 1..Len(i.yielded) : Append(i.yielded, k)[n] = i.yielded[n]
        /\ Append(i.yielded, k)[Len(i.yielded) + 1] = k
    BY <1>1, <1>2, IterationShape, AppendProperties
  <2>3. /\ a.at = "iterating" /\ a.page = i.page /\ a.offset = i.offset + 1
        /\ a.yielded = Append(i.yielded, k) /\ a.kept = i.kept /\ a.deleted = i.deleted
    BY <1>1, IterationShape DEF Iterating
  <2>5. a \in Activity
    <3>1. i.room - 1 \in 0..PageSize /\ i.offset + 1 \in Nat
      BY <1>1, IterationShape, RepositoryAssumption
    <3>2. i \in Iterating /\ Append(i.yielded, k) \in Seq(Keys)
      BY <1>1, <2>2, IterationShape
    <3>3. a = [i EXCEPT !.yielded = Append(i.yielded, k), !.offset = i.offset + 1,
                        !.room = i.room - 1]
      OBVIOUS
    <3> HIDE DEF a, k
    <3>4. a \in Iterating
      BY <3>1, <3>2, <3>3 DEF Iterating
    <3> QED
      BY <3>4 DEF Activity
  <2> HIDE DEF a
  <2>4. ASSUME ~a.deleted PROVE FollowsOrder(a)
    BY <1>1, <1>2, <2>2, <2>3, <2>4, IterationShape DEF FollowsOrder
  <2> QED
    BY <1>1, <1>2, <2>1, <2>3, <2>4, <2>5, CallKeepsInv
<1> QED
  BY <1>3, <1>4

LEMMA IteratePagesKeepsInv ==
  ASSUME RepositoryInv, NEW c \in Callers, IteratePages(c) PROVE RepositoryInv'
<1> DEFINE i == call[c]
           a == [i EXCEPT !.page = order, !.room = PageSize]
<1>1. /\ i.at = "iterating" /\ UNCHANGED <<storage, order, calls>>
      /\ call' = [call EXCEPT ![c] = a]
  BY InvParts DEF IteratePages
<1>2. /\ a.at = "iterating" /\ a.page = order /\ a.offset = i.offset
      /\ a.yielded = i.yielded /\ a.kept = i.kept /\ a.deleted = i.deleted
      /\ a \in Activity
  <2>1. i \in Iterating /\ order \in Seq(Keys) /\ PageSize \in 0..PageSize
    BY <1>1, IterationShape, RepositoryAssumption
  <2>2. a \in Iterating
    BY <2>1 DEF Iterating
  <2> QED
    BY <1>1, <2>1, <2>2 DEF Activity, Iterating
<1> HIDE DEF a
<1>3. ASSUME ~a.deleted PROVE FollowsOrder(a)
  <2>1. FollowsOrder(i)
    BY <1>1, <1>2, <1>3, IterationShape
  <2>2. ToSet(i.page) \subseteq ToSet(order)
    <3> SUFFICES ASSUME NEW n \in 1..Len(i.page) PROVE i.page[n] \in ToSet(order)
      BY <1>1, IterationShape DEF ToSet
    <3>1. i.page[n] = order[n] /\ n \in DOMAIN order
      BY <1>1, <2>1, IterationShape DEF FollowsOrder
    <3> QED
      BY <3>1 DEF ToSet
  <2> QED
    BY <1>1, <1>2, <2>1, <2>2, IterationShape DEF FollowsOrder
<1> QED
  BY <1>1, <1>2, <1>3, IterationShape, CallKeepsInv

LEMMA IterateEndsKeepsInv ==
  ASSUME RepositoryInv, NEW c \in Callers, IterateEnds(c) PROVE RepositoryInv'
<1> DEFINE i == call[c]
           a == [i EXCEPT !.at = "iterated"]
<1>1. /\ i.at = "iterating" /\ i.offset >= Len(i.page) /\ UNCHANGED <<storage, order, calls>>
      /\ call' = [call EXCEPT ![c] = a]
  BY InvParts DEF IterateEnds
<1>2. /\ a.at = "iterated" /\ a.page = i.page /\ a.offset = i.offset
      /\ a.yielded = i.yielded /\ a.kept = i.kept /\ a.deleted = i.deleted
      /\ a \in Activity
  BY <1>1, IterationShape DEF Activity, Iterating
<1> HIDE DEF a
<1>3. ASSUME ~a.deleted PROVE a.kept \subseteq ToSet(a.yielded) /\ IsInjective(a.yielded)
  <2>1. FollowsOrder(i) /\ i.offset = Len(i.page)
    BY <1>1, <1>2, <1>3, IterationShape DEF FollowsOrder
  <2>2. ToSet(i.page) \subseteq ToSet(i.yielded)
    BY ZenonT(40), <1>1, <2>1, IterationShape DEF FollowsOrder, ToSet
  <2>3. IsInjective(i.yielded)
    <3>1. ASSUME NEW n \in DOMAIN i.yielded
          PROVE  n \in DOMAIN order /\ i.yielded[n] = order[n]
      <4>1. /\ DOMAIN i.yielded = 1..Len(i.yielded) /\ Len(i.yielded) = i.offset
            /\ DOMAIN i.page = 1..Len(i.page) /\ DOMAIN order = 1..Len(order)
            /\ Len(i.page) \in Nat /\ Len(order) \in Nat
        BY <1>1, <2>1, IterationShape DEF FollowsOrder
      <4>2. n \in 1..i.offset /\ n \in 1..Len(i.page)
        BY <2>1, <4>1
      <4>3. i.yielded[n] = i.page[n] /\ i.page[n] = order[n] /\ Len(i.page) <= Len(order)
        BY <2>1, <4>2 DEF FollowsOrder
      <4> QED
        BY <4>1, <4>2, <4>3
    <3>2. IsInjective(order)
      BY <1>1, IterationShape
    <3> QED
      BY <3>1, <3>2 DEF IsInjective
  <2> QED
    BY <1>2, <2>1, <2>2, <2>3 DEF FollowsOrder
<1> QED
  BY <1>1, <1>2, <1>3, IterationShape, CallKeepsInv

LEMMA RepositoryStepInv == RepositoryInv /\ [RepositoryNext]_repositoryVars => RepositoryInv'
<1> SUFFICES ASSUME RepositoryInv, [RepositoryNext]_repositoryVars PROVE RepositoryInv'
  OBVIOUS
<1>1. ASSUME NEW c \in Callers, NEW k \in Keys, Create(c, k) PROVE RepositoryInv'
  BY <1>1, CallsCount, CreatesKeepsInv DEF Create
<1>2. ASSUME UNCHANGED repositoryVars PROVE RepositoryInv'
  BY <1>2 DEF repositoryVars, RepositoryInv, RepositoryTypeOK, CopiesAreCurrent,
              IterationsFollowOrder, FollowsOrder, IterationIsComplete
<1> QED
  BY <1>1, <1>2, DeleteKeepsInv, UpsertKeepsInv, BeginKeepsInv, FinishKeepsInv, UpsertGoesOnKeepsInv,
     IterateKeepsInv, IterateReadsKeepsInv, IteratePagesKeepsInv, IterateEndsKeepsInv
     DEF RepositoryNext

LEMMA RepositoryInvariance == RepositorySpec => []RepositoryInv
  BY RepositoryInitInv, RepositoryStepInv, PTL DEF RepositorySpec

\* The Map, the order of its keys and what every caller holds keep their types.
THEOREM RepositoryTypeCorrect == RepositorySpec => []RepositoryTypeOK
<1>1. RepositoryInv => RepositoryTypeOK
  BY DEF RepositoryInv
<1> QED
  BY <1>1, RepositoryInvariance, PTL

\* iterate() of MemoryRepository yields what was there all along, once, unless
\* an item was deleted meanwhile: for any keys, callers and page size.
THEOREM IterationsAreComplete == RepositorySpec => []IterationIsComplete
<1>1. RepositoryInv => IterationIsComplete
  BY DEF RepositoryInv
<1> QED
  BY <1>1, RepositoryInvariance, PTL

\* A call that ends has changed nothing but what its operation says.
LEMMA SetsIsStep ==
  ASSUME NEW c \in Callers, NEW k \in Keys, Creates(c, k)
  PROVE  Store!Next \/ UNCHANGED storage
  BY DEF Creates, Sets, Fails, Store!Next, Store!Create

LEMMA FinishIsStep ==
  ASSUME RepositoryInv, NEW c \in Callers, Finish(c)
  PROVE  Store!Next \/ StaleWrite \/ ConditionIgnored \/ UNCHANGED storage
<1> DEFINE w == call[c]
<1>1. /\ w \in Writing /\ w.key \in Keys /\ w.op \in Store!Operations /\ w.copy \in Store!Item
      /\ w.at = "writing"
      /\ ~w.stale => storage[w.key] = w.copy
  BY InvParts, CallShapes DEF Finish, CopiesAreCurrent, Writing
<1>2. CASE Satisfied(w.op, w.copy) /\ ~DeletesNothing(w.op, w.copy)
  <2>1. Sets(c, w.key, Store!Result(w.op, w.copy), Store!Holds(w.op, w.copy))
    BY <1>2 DEF Finish
  <2>2. /\ storage' = [storage EXCEPT ![w.key] = Store!Result(w.op, w.copy)]
        /\ call'[c] = Succeeds(Store!Holds(w.op, w.copy))
    BY <2>1 DEF Sets, CallsAfter
  <2>3. CASE w.stale
    BY <1>1, <2>2, <2>3 DEF StaleWrite, Succeeds, NoCall, IgnoredCondition
  <2>4. CASE ~Store!Holds(w.op, w.copy)
    BY <1>1, <2>2, <2>4 DEF ConditionIgnored, Succeeds, IgnoredCondition
  <2>5. CASE ~w.stale /\ Store!Holds(w.op, w.copy)
    <3>1. Store!Apply(w.key, w.op)
      BY <1>1, <2>2, <2>5, ItemsArePresent DEF Store!Apply
    <3> QED
      BY <1>1, <3>1 DEF Store!Next
  <2> QED
    BY <2>3, <2>4, <2>5
<1>3. CASE ~(Satisfied(w.op, w.copy) /\ ~DeletesNothing(w.op, w.copy))
  BY <1>3 DEF Finish, Fails
<1> QED
  BY <1>2, <1>3

LEMMA StepIsAtomic ==
  ASSUME RepositoryInv, [RepositoryNext]_repositoryVars
  PROVE  Store!Next \/ StaleWrite \/ ConditionIgnored \/ UNCHANGED storage
<1>1. ASSUME NEW c \in Callers, NEW k \in Keys, NEW expects, Delete(c, k, expects)
      PROVE  Store!Next
  <2>1. Store!NoCondition \in Store!Conditions
    BY DEF Store!Conditions
  <2>2. Store!Delete(k, Store!NoCondition)
    BY <1>1 DEF Delete, Store!Delete, Store!Deletable
  <2>. QED BY <2>1, <2>2 DEF Store!Next
<1>2. ASSUME NEW c \in Callers, NEW k \in Keys, Create(c, k)
      PROVE  Store!Next \/ UNCHANGED storage
  BY <1>2, SetsIsStep DEF Create
<1>3. ASSUME NEW c \in Callers, UpsertGoesOn(c)
      PROVE  Store!Next \/ UNCHANGED storage
  <2>1. call[c].key \in Keys
    BY <1>3, InvParts, CallShapes DEF UpsertGoesOn, Upserting
  <2> QED
    BY <1>3, <2>1, SetsIsStep DEF UpsertGoesOn, Reads, Fails
<1>4. ASSUME NEW c \in Callers,
             \/ \E k \in Keys : Upsert(c, k)
             \/ \E k \in Keys, op \in Store!Operations : Begin(c, k, op)
             \/ Iterate(c) \/ IterateReads(c) \/ IteratePages(c) \/ IterateEnds(c)
      PROVE  UNCHANGED storage
  BY <1>4 DEF Upsert, Begin, Reads, Fails, Iterate, IterateReads, IteratePages, IterateEnds
<1> QED
  BY <1>1, <1>2, <1>3, <1>4, FinishIsStep DEF RepositoryNext, repositoryVars

\* MemoryRepository implements the atomic store of its interface, but for the
\* writes of a copy that another caller has outdated and for the conditions that it
\* does not look at: nothing else loses an update or passes a condition.
THEOREM RepositoryIsAtomic == RepositorySpec => Store!Init /\ AtomicUnlessExcepted
<1>1. RepositoryInit => Store!Init
  BY DEF RepositoryInit, Store!Init
<1>2. RepositoryInv /\ [RepositoryNext]_repositoryVars
      => [Store!Next \/ StaleWrite \/ ConditionIgnored]_storage
  BY StepIsAtomic
<1> QED
  BY <1>1, <1>2, RepositoryInvariance, PTL DEF RepositorySpec, AtomicUnlessExcepted

\* A condition that holds for the copy fails to protect the item only by a stale
\* write.  Where none happens, as with one caller at a time on each key, optimistic
\* locking is what its documentation says; and where no condition is ignored either,
\* the repository is the atomic store.
THEOREM LockingFailsOnlyWhenStale ==
  /\ RepositorySpec /\ [][~StaleWrite]_repositoryVars => OptimisticLocking
  /\ RepositorySpec /\ [][~StaleWrite /\ ~ConditionIgnored]_repositoryVars => Store!Spec
<1>1. RepositoryInit => Store!Init
  BY DEF RepositoryInit, Store!Init
<1>2. RepositoryInv /\ [RepositoryNext]_repositoryVars
      /\ [~StaleWrite /\ ~ConditionIgnored]_repositoryVars
      => [Store!Next]_storage
  BY StepIsAtomic DEF repositoryVars
<1>3. RepositoryInv /\ [RepositoryNext]_repositoryVars /\ [~StaleWrite]_repositoryVars
      => [\A c \in Callers :
            /\ call[c].at = "writing" /\ call'[c].at = "idle"
            /\ call[c].op.expects # Store!NoCondition /\ Store!Holds(call[c].op, call[c].copy)
            => storage[call[c].key] # Absent
               /\ Store!Holds(call[c].op, storage[call[c].key])]_repositoryVars
  <2>. SUFFICES ASSUME RepositoryInv, ~StaleWrite, NEW c \in Callers,
                       call[c].at = "writing", call'[c].at = "idle",
                       Store!Holds(call[c].op, call[c].copy)
                PROVE  storage[call[c].key] # Absent /\ Store!Holds(call[c].op, storage[call[c].key])
    BY DEF repositoryVars
  <2>1. ~call[c].stale
    BY DEF StaleWrite
  <2>2. storage[call[c].key] = call[c].copy /\ call[c].copy \in Store!Item
    BY <2>1, InvParts, CallShapes DEF CopiesAreCurrent, Writing
  <2>. QED BY <2>2, ItemsArePresent
<1>4. RepositorySpec /\ [][~StaleWrite]_repositoryVars => OptimisticLocking
  BY <1>3, RepositoryInvariance, PTL DEF RepositorySpec, OptimisticLocking
<1>5. RepositorySpec /\ [][~StaleWrite /\ ~ConditionIgnored]_repositoryVars => Store!Spec
  BY <1>1, <1>2, RepositoryInvariance, PTL DEF RepositorySpec, Store!Spec
<1>. QED
  BY <1>4, <1>5

----------------------------------------------------------------------------
(* FileQueue *)

\* Only what was sent is in the folder, and is scanned, locked or handed out.
OnlySent ==
  /\ ever = Cardinality(everSent)
  /\ \A m \in Messages \ everSent : file[m] = 0 /\ lock[m] = "none"
  /\ \A r \in Readers :
       /\ reader[r].seen \union reader[r].stale \subseteq everSent
       /\ reader[r].message \in everSent \union {NoMessage}

\* A reader past its scan has a message, which is gone once it deletes it.
HandsAreFull ==
  \A r \in Readers :
    /\ reader[r].at \in {"locked", "holding", "deleting"} => reader[r].message # NoMessage
    /\ reader[r].at = "deleting" => ~Exists(reader[r].message)

\* What a scan has found is still there and free, or has been overtaken.
ScansHold ==
  \A r \in Readers : reader[r].at = "stated" =>
    \A m \in reader[r].seen \ reader[r].late :
      Exists(m) /\ (lock[m] = "none" \/ (lock[m] = "expired" /\ m \in reader[r].stale))

FileQueueInv == FileQueueTypeOK /\ OnlySent /\ HandsAreFull /\ ScansHold

Reader == [at : InCall \union {"idle", "sleeping", "holding"},
           message : Messages \union {NoMessage},
           seen : SUBSET Messages, stale : SUBSET Messages, late : SUBSET Messages]

LEMMA FileQueueInitInv == FileQueueInit => FileQueueInv
<1> SUFFICES ASSUME FileQueueInit PROVE FileQueueInv
  OBVIOUS
<1>1. Cardinality(Messages) \in Nat /\ Cardinality({}) = 0
  BY FileQueueAssumption, FS_CardinalityType, FS_EmptySet
<1>2. FileQueueTypeOK
  BY <1>1, FileQueueAssumption DEF FileQueueInit, FileQueueTypeOK, IdleReader
<1>3. OnlySent
  BY <1>1 DEF FileQueueInit, OnlySent, IdleReader
<1>4. HandsAreFull /\ ScansHold
  BY DEF FileQueueInit, HandsAreFull, ScansHold, IdleReader
<1> QED
  BY <1>2, <1>3, <1>4 DEF FileQueueInv

\* The rank of a new file is within the number of messages.
LEMMA RankOfSent ==
  ASSUME FileQueueInv, NEW m \in Messages, SendToFolder(m)
  PROVE  /\ ever + 1 \in 1..Cardinality(Messages)
         /\ ever' = Cardinality(everSent')
<1>1. IsFiniteSet(Messages) /\ everSent \subseteq Messages /\ everSent' \subseteq Messages
  BY FileQueueAssumption DEF FileQueueInv, FileQueueTypeOK, SendToFolder
<1>2. IsFiniteSet(everSent) /\ Cardinality(everSent) \in Nat /\ Cardinality(Messages) \in Nat
  BY <1>1, FS_Subset, FS_CardinalityType
<1>3. Cardinality(everSent') = Cardinality(everSent) + 1
  BY <1>2, FS_AddElement DEF SendToFolder
<1>4. Cardinality(everSent') <= Cardinality(Messages)
  BY <1>1, FS_Subset
<1>5. ever = Cardinality(everSent) /\ ever' = ever + 1
  BY DEF FileQueueInv, OnlySent, SendToFolder
<1> QED
  BY <1>2, <1>3, <1>4, <1>5

\* A step of one reader that changes neither files nor locks, and no other reader.
LEMMA ReaderKeepsInv ==
  ASSUME FileQueueInv, NEW r \in Readers, NEW state \in Reader, Becomes(r, state),
         UNCHANGED <<file, ever, everSent, lock, expiries, processCrashes>>,
         state.seen \union state.stale \subseteq everSent,
         state.message \in everSent \union {NoMessage},
         state.at \in {"locked", "holding", "deleting"} => state.message # NoMessage,
         state.at # "deleting",
         state.at = "stated" => \A m \in state.seen \ state.late :
           Exists(m) /\ (lock[m] = "none" \/ (lock[m] = "expired" /\ m \in state.stale))
  PROVE  FileQueueInv'
<1>1. FileQueueTypeOK /\ OnlySent /\ HandsAreFull /\ ScansHold
  BY DEF FileQueueInv
<1>2. reader' = [reader EXCEPT ![r] = state] /\ reader \in [Readers -> Reader]
  BY <1>1 DEF Becomes, FileQueueTypeOK, Reader
<1>3. FileQueueTypeOK'
  BY <1>1, <1>2 DEF FileQueueTypeOK, Reader
<1>4. OnlySent'
  BY <1>1, <1>2 DEF OnlySent
<1>5. HandsAreFull'
  BY <1>1, <1>2 DEF HandsAreFull, Exists
<1>6. ScansHold'
  BY <1>1, <1>2 DEF ScansHold, Exists
<1> QED
  BY <1>3, <1>4, <1>5, <1>6 DEF FileQueueInv

LEMMA FileQueueStepInv == FileQueueInv /\ [FileQueueNext]_fileVars => FileQueueInv'
<1> SUFFICES ASSUME FileQueueInv, [FileQueueNext]_fileVars PROVE FileQueueInv'
  OBVIOUS
<1>1. FileQueueTypeOK /\ OnlySent /\ HandsAreFull /\ ScansHold
  BY DEF FileQueueInv
<1>2. /\ reader \in [Readers -> Reader]
      /\ lock \in [Messages -> {"none", "fresh", "expired"}]
      /\ IdleReader \in Reader
  BY <1>1 DEF FileQueueTypeOK, Reader, IdleReader
<1>3. ASSUME NEW m \in Messages, SendToFolder(m) PROVE FileQueueInv'
  <2>1. ever + 1 \in 1..Cardinality(Messages) /\ ever' = Cardinality(everSent')
    BY <1>3, RankOfSent
  <2>2. /\ m \notin everSent
        /\ everSent' = everSent \union {m}
        /\ ever' = ever + 1
        /\ file' = [file EXCEPT ![m] = ever + 1]
        /\ UNCHANGED <<lock, reader, expiries, processCrashes>>
    BY <1>3 DEF SendToFolder
  <2>3. Cardinality(Messages) \in Nat
    BY FileQueueAssumption, FS_CardinalityType
  <2>4. FileQueueTypeOK'
    BY <1>1, <2>1, <2>2, <2>3 DEF FileQueueTypeOK
  <2>5. OnlySent'
    BY <1>1, <2>1, <2>2 DEF OnlySent, FileQueueTypeOK
  <2>6. HandsAreFull'
    <3>1. \A r \in Readers : reader[r].message # m
      BY <1>1, <2>2, FileQueueAssumption DEF OnlySent
    <3> QED
      BY <1>1, <2>2, <3>1 DEF HandsAreFull, Exists, FileQueueTypeOK
  <2>7. ScansHold'
    BY <1>1, <2>1, <2>2 DEF ScansHold, Exists, FileQueueTypeOK
  <2> QED
    BY <2>4, <2>5, <2>6, <2>7 DEF FileQueueInv
<1>4. ASSUME NEW m \in Messages, LockExpires(m) PROVE FileQueueInv'
  <2>1. /\ lock[m] = "fresh" /\ lock' = [lock EXCEPT ![m] = "expired"]
        /\ expiries' \in 0..MaxExpiries
        /\ UNCHANGED <<file, ever, everSent, reader, processCrashes>>
    BY <1>1, <1>4, FileQueueAssumption DEF LockExpires, FileQueueTypeOK
  <2> QED
    BY <1>1, <2>1 DEF FileQueueInv, FileQueueTypeOK, OnlySent, HandsAreFull, ScansHold, Exists
<1>5. ASSUME NEW r \in Readers,
             ListFiles(r) \/ StatFiles(r) \/ ReadFile(r) \/ Sleep(r) \/ Wake(r) \/ Abandon(r)
      PROVE  FileQueueInv'
  <2>1. UNCHANGED <<file, ever, everSent, lock, expiries, processCrashes>>
    BY <1>5 DEF ListFiles, StatFiles, ReadFile, Sleep, Wake, Abandon
  <2>2. reader[r] \in Reader /\ reader[r].seen \subseteq everSent
        /\ reader[r].message \in everSent \union {NoMessage}
    BY <1>1, <1>2 DEF OnlySent
  <2> USE DEF IdleReader
  <2>3. CASE Becomes(r, IdleReader)
    BY <1>2, <2>1, <2>3, ReaderKeepsInv
  <2>4. CASE ListFiles(r)
    <3> DEFINE state == [IdleReader EXCEPT !.at = "listed", !.seen = {m \in Messages : Exists(m)}]
    <3>1. {m \in Messages : Exists(m)} \subseteq everSent
      BY <1>1 DEF OnlySent, Exists
    <3>2. /\ state \in Reader /\ state.at = "listed" /\ state.message = NoMessage
          /\ state.seen \union state.stale \subseteq everSent
      BY <3>1 DEF Reader, InCall
    <3> QED
      BY <2>1, <2>4, <3>2, ReaderKeepsInv DEF ListFiles
  <2>5. CASE StatFiles(r) /\ \A m \in reader[r].seen : Exists(m)
    <3> DEFINE state == [IdleReader EXCEPT !.at = "stated",
                           !.seen = {m \in reader[r].seen : lock[m] # "fresh"},
                           !.stale = {m \in reader[r].seen : lock[m] = "expired"}]
    <3>1. state \in Reader /\ state.seen \subseteq everSent /\ state.stale \subseteq everSent
      BY <2>2 DEF Reader, InCall
    <3>2. Becomes(r, state)
      BY <2>5 DEF StatFiles
    <3>3. reader[r].seen \subseteq Messages
      BY <2>2 DEF Reader
    <3>4. \A m \in state.seen \ state.late :
            Exists(m) /\ (lock[m] = "none" \/ (lock[m] = "expired" /\ m \in state.stale))
      BY <1>2, <2>5, <3>3
    <3> QED
      BY <2>1, <3>1, <3>2, <3>4, ReaderKeepsInv
  <2>6. CASE ReadFile(r) /\ ~Becomes(r, IdleReader)
    <3> DEFINE state == [reader[r] EXCEPT !.at = "holding"]
    <3>1. /\ Becomes(r, state) /\ state \in Reader /\ state.message # NoMessage
          /\ state.seen \union state.stale \subseteq everSent
      BY <1>1, <2>2, <2>6 DEF ReadFile, ReaderAt, Reader, HandsAreFull, OnlySent
    <3> QED
      BY <2>1, <2>2, <3>1, ReaderKeepsInv DEF Reader
  <2>7. CASE Sleep(r)
    <3> DEFINE state == [IdleReader EXCEPT !.at = "sleeping"]
    <3>1. state \in Reader
      BY DEF Reader
    <3> QED
      BY <2>1, <2>7, <3>1, ReaderKeepsInv DEF Sleep
  <2> QED
    BY <1>5, <2>3, <2>4, <2>5, <2>6, <2>7 DEF StatFiles, Wake, Abandon
<1>6. ASSUME NEW r \in Readers, UnlinkExpired(r) PROVE FileQueueInv'
  <2>1. PICK m \in reader[r].stale :
          /\ reader' = [reader EXCEPT ![r] = IF lock[m] = "none" THEN IdleReader
                                             ELSE [reader[r] EXCEPT !.stale = @ \ {m}]]
          /\ lock' = [lock EXCEPT ![m] = "none"]
    BY <1>6 DEF UnlinkExpired, Becomes
  <2>2. UNCHANGED <<file, ever, everSent, expiries, processCrashes>> /\ reader[r].at = "stated"
    BY <1>6 DEF UnlinkExpired, ReaderAt
  <2>3. m \in Messages /\ m \in everSent
    BY <1>1, <1>2 DEF Reader, OnlySent
  <2>4. reader' \in [Readers -> Reader]
    BY <1>2, <2>1 DEF Reader
  <2>5. FileQueueTypeOK'
    BY <1>1, <2>1, <2>2, <2>4 DEF FileQueueTypeOK, Reader
  <2>6. OnlySent'
    BY <1>1, <1>2, <2>1, <2>2, <2>3 DEF OnlySent, Reader, IdleReader
  <2>7. HandsAreFull'
    BY <1>1, <1>2, <2>1, <2>2 DEF HandsAreFull, Reader, IdleReader, Exists
  <2>8. ScansHold'
    BY <1>1, <1>2, <2>1, <2>2 DEF ScansHold, Reader, IdleReader, Exists
  <2> QED
    BY <2>5, <2>6, <2>7, <2>8 DEF FileQueueInv
<1>7. ASSUME NEW r \in Readers, LockFirst(r) PROVE FileQueueInv'
  <2> DEFINE state(m) == [IdleReader EXCEPT !.at = "locked", !.message = m]
  <2>1. PICK m \in reader[r].seen :
          /\ Overtakes(r, state(m), m)
          /\ lock' = [lock EXCEPT ![m] = IF @ = "none" THEN "fresh" ELSE @]
    BY <1>7 DEF LockFirst
  <2>2. UNCHANGED <<file, ever, everSent, expiries, processCrashes>>
    BY <1>7 DEF LockFirst
  <2>3. m \in Messages /\ m \in everSent /\ m # NoMessage
    BY <1>1, <1>2, FileQueueAssumption DEF Reader, OnlySent
  <2>4. /\ state(m) \in Reader /\ state(m).message = m /\ state(m).at = "locked"
        /\ state(m).seen = {} /\ state(m).stale = {}
    BY <2>3 DEF Reader, IdleReader, InCall
  <2> HIDE DEF state
  <2>5. reader' = [q \in Readers |->
          IF q = r THEN state(m)
          ELSE IF reader[q].at = "stated" THEN [reader[q] EXCEPT !.late = @ \union {m}]
          ELSE reader[q]]
    BY <2>1 DEF Overtakes
  <2>6. reader' \in [Readers -> Reader]
    BY <1>2, <2>3, <2>4, <2>5 DEF Reader
  <2>7. FileQueueTypeOK'
    BY <1>1, <2>1, <2>2, <2>6 DEF FileQueueTypeOK, Reader
  <2>8. OnlySent'
    BY <1>1, <1>2, <2>1, <2>2, <2>3, <2>4, <2>5 DEF OnlySent, Reader
  <2>9. HandsAreFull'
    BY <1>1, <1>2, <2>2, <2>3, <2>4, <2>5 DEF HandsAreFull, Reader, Exists
  <2>10. ScansHold'
    BY <1>1, <1>2, <2>1, <2>2, <2>4, <2>5 DEF ScansHold, Reader, Exists
  <2> QED
    BY <2>7, <2>8, <2>9, <2>10 DEF FileQueueInv
<1>8. ASSUME NEW r \in Readers, UnlinkFile(r) PROVE FileQueueInv'
  <2> DEFINE m == reader[r].message
             state == [reader[r] EXCEPT !.at = "deleting"]
  <2>1. m \in Messages /\ m \in everSent /\ m # NoMessage
    BY <1>1, <1>2, <1>8 DEF UnlinkFile, ReaderAt, HandsAreFull, OnlySent, Reader
  <2>2. UNCHANGED <<ever, everSent, lock, expiries, processCrashes>> /\ reader[r].at = "holding"
    BY <1>8 DEF UnlinkFile, ReaderAt
  <2>3. CASE Exists(m)
    <3>1. /\ file' = [file EXCEPT ![m] = 0]
          /\ reader' = [q \in Readers |->
               IF q = r THEN state
               ELSE IF reader[q].at = "stated" THEN [reader[q] EXCEPT !.late = @ \union {m}]
               ELSE reader[q]]
      BY <1>8, <2>3 DEF UnlinkFile, Overtakes
    <3>2. reader' \in [Readers -> Reader]
      BY SMTT(30), <1>2, <2>1, <3>1 DEF Reader, InCall
    <3>3. /\ state.message = m /\ state.at = "deleting"
          /\ state.seen = reader[r].seen /\ state.stale = reader[r].stale
      BY <1>2 DEF Reader
    <3> HIDE DEF state
    <3>4. FileQueueTypeOK'
      <4>1. 0 \in 0..Cardinality(Messages)
        BY FileQueueAssumption, FS_CardinalityType
      <4> QED
        BY <1>1, <2>2, <3>1, <3>2, <4>1 DEF FileQueueTypeOK, Reader
    <3>5. OnlySent'
      BY <1>1, <1>2, <2>1, <2>2, <3>1, <3>3 DEF OnlySent, Reader, FileQueueTypeOK
    <3>6. HandsAreFull'
      BY <1>1, <1>2, <2>1, <2>2, <3>1, <3>3 DEF HandsAreFull, Reader, Exists, FileQueueTypeOK
    <3>7. ScansHold'
      BY <1>1, <1>2, <2>1, <2>2, <3>1, <3>3 DEF ScansHold, Reader, Exists, FileQueueTypeOK
    <3> QED
      BY <3>4, <3>5, <3>6, <3>7 DEF FileQueueInv
  <2>4. CASE ~Exists(m)
    BY <1>2, <1>8, <2>2, <2>4, ReaderKeepsInv DEF UnlinkFile, IdleReader
  <2> QED
    BY <2>3, <2>4
<1>9. ASSUME NEW r \in Readers, UnlinkLock(r) PROVE FileQueueInv'
  <2> DEFINE m == reader[r].message
  <2>1. m \in Messages /\ m \in everSent /\ ~Exists(m)
    BY <1>1, <1>2, <1>9 DEF UnlinkLock, ReaderAt, HandsAreFull, OnlySent, Reader
  <2>2. /\ lock' = [lock EXCEPT ![m] = "none"]
        /\ reader' = [reader EXCEPT ![r] = IdleReader]
        /\ UNCHANGED <<file, ever, everSent, expiries, processCrashes>>
    BY <1>9 DEF UnlinkLock, Becomes
  <2>3. FileQueueTypeOK'
    BY <1>1, <1>2, <2>1, <2>2 DEF FileQueueTypeOK, Reader
  <2>4. OnlySent' /\ HandsAreFull' /\ ScansHold'
    BY <1>1, <1>2, <2>1, <2>2 DEF OnlySent, HandsAreFull, ScansHold, IdleReader, Exists
  <2> QED
    BY <2>3, <2>4 DEF FileQueueInv
<1>10. ASSUME NEW p, ProcessCrash(p) PROVE FileQueueInv'
  <2>1. /\ reader' = [r \in Readers |-> IF Process[r] = p THEN IdleReader ELSE reader[r]]
        /\ processCrashes' \in 0..MaxProcessCrashes
        /\ UNCHANGED <<file, ever, everSent, lock, expiries>>
    BY <1>1, <1>10, FileQueueAssumption DEF ProcessCrash, FileQueueTypeOK
  <2>2. FileQueueTypeOK'
    BY <1>1, <1>2, <2>1 DEF FileQueueTypeOK, Reader
  <2>3. OnlySent' /\ HandsAreFull' /\ ScansHold'
    BY <1>1, <2>1 DEF OnlySent, HandsAreFull, ScansHold, IdleReader, Exists
  <2> QED
    BY <2>2, <2>3 DEF FileQueueInv
<1>11. CASE UNCHANGED fileVars
  BY <1>1, <1>11
  DEF FileQueueInv, FileQueueTypeOK, OnlySent, HandsAreFull, ScansHold, Exists, fileVars
<1> QED
  BY <1>3, <1>4, <1>5, <1>6, <1>7, <1>8, <1>9, <1>10, <1>11 DEF FileQueueNext

LEMMA FileQueueInvCorrect == FileQueueSpec => []FileQueueInv
  BY FileQueueInitInv, FileQueueStepInv, PTL DEF FileQueueSpec

----------------------------------------------------------------------------
(* Refinement *)

stageOf == [m \in Messages |-> Stage(m)]
handOf == [r \in Readers |-> Hand(r)]

LEMMA FolderInit == FileQueueInit => QueueContract!Init
  BY DEF FileQueueInit, QueueContract!Init, Stage, Hand, IdleReader

LEMMA StageMoves ==
  ASSUME NEW m \in Messages, NEW s, Stage(m)' = s,
         \A n \in Messages \ {m} : Stage(n)' = Stage(n)
  PROVE  stageOf' = [stageOf EXCEPT ![m] = s]
  BY DEF stageOf

\* What becomes of one file or one lock is nothing to the other messages.
LEMMA StageOfOthers ==
  ASSUME FileQueueInv, NEW m \in Messages, NEW f, NEW l,
         lock' = [lock EXCEPT ![m] = l], file' = [file EXCEPT ![m] = f],
         everSent' = everSent \/ everSent' = everSent \union {m}
  PROVE  \A n \in Messages \ {m} : Stage(n)' = Stage(n)
  BY DEF FileQueueInv, FileQueueTypeOK, Stage, Exists

LEMMA HandMoves ==
  ASSUME FileQueueInv, NEW r \in Readers, NEW state, reader' = [reader EXCEPT ![r] = state]
  PROVE  handOf' = [handOf EXCEPT ![r] = Hand(r)'] /\ reader'[r] = state
  BY DEF FileQueueInv, FileQueueTypeOK, handOf, Hand

\* LockFirst is a lease, unless another process has taken the message in between.
LEMMA LockRefines ==
  ASSUME FileQueueInv, NEW r \in Readers, LockFirst(r)
  PROVE  LocksTwice \/ \E m \in Messages : QueueContract!Lease(r, m)
<1> DEFINE state(m) == [IdleReader EXCEPT !.at = "locked", !.message = m]
<1>1. PICK m \in reader[r].seen :
        /\ Overtakes(r, state(m), m)
        /\ lock' = [lock EXCEPT ![m] = IF @ = "none" THEN "fresh" ELSE @]
        /\ reader[r].at = "stated" /\ reader[r].stale = {}
        /\ UNCHANGED <<file, everSent>>
  BY DEF LockFirst, Scanned, ReaderAt
<1>2. /\ FileQueueTypeOK /\ OnlySent /\ HandsAreFull /\ ScansHold
      /\ reader \in [Readers -> Reader]
  BY DEF FileQueueInv, FileQueueTypeOK, Reader
<1>3. m \in Messages /\ m \in everSent /\ state(m).message = m /\ state(m).at = "locked"
  BY <1>1, <1>2 DEF Reader, OnlySent, IdleReader
<1> HIDE DEF state
<1>4. reader'[r] = state(m)
      /\ \A q \in Readers \ {r} :
           reader'[q].at = reader[q].at /\ reader'[q].message = reader[q].message
  BY <1>1, <1>2 DEF Overtakes, Reader
<1>5. CASE m \in reader[r].late
  BY <1>1, <1>3, <1>4, <1>5 DEF LocksTwice
<1>6. CASE m \notin reader[r].late
  <2>1. Exists(m) /\ lock[m] = "none"
    BY <1>1, <1>2, <1>6 DEF ScansHold
  <2>2. lock' = [lock EXCEPT ![m] = "fresh"]
    BY <1>1, <2>1
  <2>3. stageOf[m] = "available" /\ Stage(m)' = "leased"
    BY <1>1, <1>2, <1>3, <2>1, <2>2 DEF stageOf, Stage, Exists, FileQueueTypeOK
  <2>5. file' = [file EXCEPT ![m] = file[m]]
    BY <1>1, <1>2 DEF FileQueueTypeOK
  <2>6. stageOf' = [stageOf EXCEPT ![m] = "leased"]
    <3>1. everSent' = everSent /\ m \in Messages
      BY <1>1, <1>3
    <3>2. \A n \in Messages \ {m} : Stage(n)' = Stage(n)
      BY <2>2, <2>5, <3>1, StageOfOthers
    <3> QED
      BY <2>3, <3>1, <3>2, StageMoves
  <2>4. handOf[r] = NoMessage /\ handOf' = [handOf EXCEPT ![r] = m]
    BY <1>1, <1>3, <1>4 DEF handOf, Hand
  <2> QED
    BY <1>3, <2>3, <2>4, <2>6 DEF QueueContract!Lease, stageOf, handOf
<1> QED
  BY <1>5, <1>6

LEMMA FolderStep ==
  FileQueueInv /\ [FileQueueNext]_fileVars
  => QueueContract!Next \/ LocksTwice \/ UNCHANGED <<stageOf, handOf>>
<1> SUFFICES ASSUME FileQueueInv, [FileQueueNext]_fileVars
             PROVE  QueueContract!Next \/ LocksTwice \/ UNCHANGED <<stageOf, handOf>>
  OBVIOUS
<1>1. /\ FileQueueTypeOK /\ OnlySent /\ HandsAreFull /\ ScansHold
      /\ reader \in [Readers -> Reader]
  BY DEF FileQueueInv, FileQueueTypeOK, Reader
<1>2. ASSUME NEW m \in Messages, SendToFolder(m) PROVE QueueContract!Send(m)
  <2>1. ever \in Nat
    BY <1>1, FileQueueAssumption, FS_CardinalityType DEF FileQueueTypeOK
  <2>2. stageOf[m] = "unsent" /\ Stage(m)' = "available"
    BY <1>1, <1>2, <2>1 DEF SendToFolder, stageOf, Stage, Exists, OnlySent, FileQueueTypeOK
  <2>4. lock' = [lock EXCEPT ![m] = lock[m]]
    BY <1>1, <1>2 DEF SendToFolder, FileQueueTypeOK
  <2>5. stageOf' = [stageOf EXCEPT ![m] = "available"]
    BY <1>2, <2>2, <2>4, StageOfOthers, StageMoves DEF SendToFolder
  <2>3. handOf' = handOf
    BY <1>2 DEF SendToFolder, handOf, Hand
  <2> QED
    BY <2>2, <2>3, <2>5 DEF QueueContract!Send, stageOf, handOf
\* A lock that goes or expires ends the lease of a message that is still there.
<1>3. ASSUME NEW m \in Messages, NEW state \in {"none", "expired"},
             lock' = [lock EXCEPT ![m] = state], UNCHANGED <<file, everSent>>, handOf' = handOf
      PROVE  QueueContract!Lapse(m) \/ UNCHANGED <<stageOf, handOf>>
  <2>1. CASE stageOf[m] = "leased"
    <3>1. Stage(m)' = "available"
      BY <1>1, <1>3, <2>1 DEF stageOf, Stage, Exists, FileQueueTypeOK
    <3>2. file' = [file EXCEPT ![m] = file[m]]
      BY <1>1, <1>3 DEF FileQueueTypeOK
    <3>3. stageOf' = [stageOf EXCEPT ![m] = "available"]
      BY <1>3, <3>1, <3>2, StageOfOthers, StageMoves
    <3> QED
      BY <1>3, <2>1, <3>3 DEF QueueContract!Lapse, stageOf, handOf
  <2>2. CASE stageOf[m] # "leased"
    BY <1>1, <1>3, <2>2 DEF stageOf, Stage, Exists, FileQueueTypeOK
  <2> QED
    BY <2>1, <2>2
<1>4. ASSUME NEW m \in Messages, LockExpires(m) PROVE QueueContract!Next \/ UNCHANGED <<stageOf, handOf>>
  <2>1. handOf' = handOf
    BY <1>4 DEF LockExpires, handOf, Hand
  <2> QED
    BY <1>3, <1>4, <2>1 DEF LockExpires, QueueContract!Next
<1>5. ASSUME NEW r \in Readers,
             ListFiles(r) \/ StatFiles(r) \/ ReadFile(r) \/ Sleep(r) \/ Wake(r) \/ Abandon(r)
      PROVE  QueueContract!Abandon(r) \/ UNCHANGED <<stageOf, handOf>>
  <2>1. stageOf' = stageOf
    BY <1>5
    DEF ListFiles, StatFiles, ReadFile, Sleep, Wake, Abandon, stageOf, Stage, Exists
  <2>2. PICK state : reader' = [reader EXCEPT ![r] = state]
    BY <1>5 DEF ListFiles, StatFiles, ReadFile, Sleep, Wake, Abandon, Becomes
  <2>3. handOf' = [handOf EXCEPT ![r] = Hand(r)'] /\ reader'[r] = state
    BY <2>2, HandMoves
  <2>4. CASE Hand(r)' = Hand(r)
    BY <2>1, <2>3, <2>4 DEF handOf
  <2>5. CASE reader[r].at \in {"locked", "holding"}
    <3>1. handOf[r] # NoMessage
      BY <1>1, <2>5 DEF HandsAreFull, handOf, Hand
    <3>2. Hand(r)' \in {NoMessage, Hand(r)}
      BY <1>1, <1>5, <2>5
      DEF ListFiles, StatFiles, ReadFile, Sleep, Wake, Abandon, Becomes, ReaderAt, Hand, IdleReader, Reader
    <3> QED
      BY <2>1, <2>3, <2>4, <3>1, <3>2 DEF QueueContract!Abandon, handOf, stageOf
  <2>6. CASE reader[r].at \notin {"locked", "holding"}
    <3>1. ListFiles(r) \/ StatFiles(r) \/ Sleep(r) \/ Wake(r)
      BY <1>5, <2>6 DEF ReadFile, Abandon, ReaderAt
    <3>2. reader[r] \in Reader /\ IdleReader.at = "idle" /\ reader'[r] = state
      BY <1>1, <2>3 DEF IdleReader
    <3>4. ASSUME NEW s, Becomes(r, s) PROVE state = s
      BY <1>1, <3>2, <3>4 DEF Becomes
    <3>5. state.at \in {"idle", "listed", "stated", "sleeping"}
      <4>1. CASE ListFiles(r)
        BY <3>4, <4>1 DEF ListFiles, IdleReader
      <4>2. CASE StatFiles(r)
        <5> DEFINE s == [IdleReader EXCEPT !.at = "stated",
                           !.seen = {m \in reader[r].seen : lock[m] # "fresh"},
                           !.stale = {m \in reader[r].seen : lock[m] = "expired"}]
        <5>1. s.at = "stated"
          BY DEF IdleReader
        <5>2. Becomes(r, IdleReader) \/ Becomes(r, s)
          BY <4>2 DEF StatFiles
        <5> HIDE DEF s
        <5> QED
          BY <3>2, <3>4, <5>1, <5>2
      <4>3. CASE Sleep(r) \/ Wake(r)
        BY <3>4, <4>3 DEF Sleep, Wake, IdleReader
      <4> QED
        BY <3>1, <4>1, <4>2, <4>3
    <3>3. Hand(r)' = NoMessage /\ Hand(r) = NoMessage
      BY <2>3, <2>6, <3>5 DEF Hand
    <3> QED
      BY <2>4, <3>3
  <2> QED
    BY <2>5, <2>6
<1>6. ASSUME NEW r \in Readers, UnlinkExpired(r)
      PROVE  QueueContract!Next \/ UNCHANGED <<stageOf, handOf>>
  <2>1. PICK m \in reader[r].stale : lock' = [lock EXCEPT ![m] = "none"]
    BY <1>6 DEF UnlinkExpired
  <2>2. m \in Messages
    BY <1>1 DEF Reader
  <2>3. handOf' = handOf
    BY <1>1, <1>6 DEF UnlinkExpired, Becomes, ReaderAt, IdleReader, handOf, Hand, Reader
  <2>4. UNCHANGED <<file, everSent>>
    BY <1>6 DEF UnlinkExpired
  <2> QED
    BY <1>3, <2>1, <2>2, <2>3, <2>4 DEF QueueContract!Next
<1>7. ASSUME NEW r \in Readers, LockFirst(r) PROVE QueueContract!Next \/ LocksTwice
  BY <1>7, LockRefines DEF QueueContract!Next
<1>8. ASSUME NEW r \in Readers, UnlinkFile(r) PROVE QueueContract!Delete(r) \/ QueueContract!Abandon(r)
  <2>1. PICK m \in Messages :
          m = reader[r].message /\ m \in everSent /\ m # NoMessage /\ handOf[r] = m
    BY <1>1, <1>8 DEF UnlinkFile, ReaderAt, HandsAreFull, OnlySent, Reader, handOf, Hand
  <2>2. UNCHANGED <<everSent, lock>>
    BY <1>8 DEF UnlinkFile
  <2>3. CASE Exists(m)
    <3>1. /\ file' = [file EXCEPT ![m] = 0]
          /\ reader' = [q \in Readers |->
               IF q = r THEN [reader[r] EXCEPT !.at = "deleting"]
               ELSE IF reader[q].at = "stated" THEN [reader[q] EXCEPT !.late = @ \union {m}]
               ELSE reader[q]]
      BY <1>8, <2>1, <2>3 DEF UnlinkFile, Overtakes
    <3>2. Stage(m)' = "deleted" /\ lock' = [lock EXCEPT ![m] = lock[m]]
      BY <1>1, <2>1, <2>2, <3>1 DEF Stage, Exists, FileQueueTypeOK
    <3>4. stageOf' = [stageOf EXCEPT ![m] = "deleted"]
      <4>1. file' = [file EXCEPT ![m] = 0] /\ everSent' = everSent
        BY <2>2, <3>1
      <4>2. \A n \in Messages \ {m} : Stage(n)' = Stage(n)
        BY <3>2, <4>1, StageOfOthers
      <4> QED
        BY <3>2, <4>1, <4>2, StageMoves
    <3>3. handOf' = [handOf EXCEPT ![r] = NoMessage]
      BY <1>1, <3>1 DEF handOf, Hand, Reader
    <3> QED
      BY <2>1, <3>3, <3>4 DEF QueueContract!Delete, stageOf, handOf
  <2>4. CASE ~Exists(m)
    <3>1. handOf' = [handOf EXCEPT ![r] = NoMessage]
      BY <1>8, <2>1, <2>4, HandMoves DEF UnlinkFile, Becomes, IdleReader, Hand
    <3>2. stageOf' = stageOf
      BY <1>8, <2>1, <2>4 DEF UnlinkFile, stageOf, Stage, Exists
    <3> QED
      BY <2>1, <3>1, <3>2 DEF QueueContract!Abandon, stageOf, handOf
  <2> QED
    BY <2>3, <2>4
<1>9. ASSUME NEW r \in Readers, UnlinkLock(r) PROVE UNCHANGED <<stageOf, handOf>>
  <2>1. PICK m \in Messages : m = reader[r].message /\ ~Exists(m)
    BY <1>1, <1>9 DEF UnlinkLock, ReaderAt, HandsAreFull, Reader
  <2>2. /\ lock' = [lock EXCEPT ![m] = "none"]
        /\ reader' = [reader EXCEPT ![r] = IdleReader]
        /\ UNCHANGED <<file, everSent>>
        /\ reader[r].at = "deleting"
    BY <1>9, <2>1 DEF UnlinkLock, Becomes, ReaderAt
  <2>3. stageOf' = stageOf
    BY <1>1, <2>1, <2>2 DEF stageOf, Stage, Exists, FileQueueTypeOK
  <2>4. handOf' = handOf
    BY <1>1, <2>2 DEF handOf, Hand, IdleReader
  <2> QED
    BY <2>3, <2>4
<1>10. ASSUME NEW p, ProcessCrash(p) PROVE \E rs \in SUBSET Readers : QueueContract!AbandonAll(rs)
  <2> DEFINE rs == {r \in Readers : Process[r] = p}
  <2>1. handOf' = [r \in Readers |-> IF r \in rs THEN NoMessage ELSE handOf[r]]
    BY <1>10 DEF ProcessCrash, handOf, Hand, IdleReader
  <2>2. stageOf' = stageOf
    BY <1>10 DEF ProcessCrash, stageOf, Stage, Exists
  <2> QED
    BY <2>1, <2>2 DEF QueueContract!AbandonAll, stageOf, handOf
<1>11. CASE UNCHANGED fileVars
  BY <1>11 DEF fileVars, stageOf, handOf, Stage, Hand, Exists
<1>12. \A r \in Readers : QueueContract!Delete(r) \/ QueueContract!Abandon(r) => QueueContract!Next
  BY DEF QueueContract!Next
<1> QED
  BY <1>2, <1>4, <1>5, <1>6, <1>7, <1>8, <1>9, <1>10, <1>11, <1>12
  DEF FileQueueNext, QueueContract!Next

\* The folder keeps its types.
THEOREM FileQueueTypeCorrect == FileQueueSpec => []FileQueueTypeOK
  BY FileQueueInvCorrect, PTL DEF FileQueueInv

\* For any processes, readers, crashes and expired locks, the folder is an
\* at-least-once queue, except that processes may lock a message twice.
THEOREM FileQueueIsAtLeastOnce == FileQueueSpec => QueueContract!Init /\ FolderIsAtLeastOnce
<1>1. FileQueueInv /\ [FileQueueNext]_fileVars =>
        [QueueContract!Next \/ LocksTwice]_<<[m \in Messages |-> Stage(m)], [r \in Readers |-> Hand(r)]>>
  BY FolderStep DEF stageOf, handOf
<1> QED
  BY <1>1, FolderInit, FileQueueInvCorrect, PTL DEF FileQueueSpec, FolderIsAtLeastOnce

\* In a process of its own a scan is never overtaken: what lies between listing the
\* folder and creating the lock is synchronous.
NothingIsLate == \A r \in Readers : reader[r].late = {}

LEMMA AloneIsNeverLate ==
  ASSUME \A q, r \in Readers : Process[q] = Process[r],
         FileQueueTypeOK, NothingIsLate, [FileQueueNext]_fileVars
  PROVE  NothingIsLate' /\ ~LocksTwice
<1>1. ~LocksTwice
  <2>1. ASSUME NEW r \in Readers, reader[r].at = "stated", reader'[r].at = "locked"
        PROVE  reader'[r].message \notin reader[r].late
    BY DEF NothingIsLate
  <2>. QED BY <2>1 DEF LocksTwice
<1>2. DOMAIN reader = Readers
  BY DEF FileQueueTypeOK
<1>3. ASSUME NEW r \in Readers, NEW state, NEW m, Runs(r), Overtakes(r, state, m), state.late = {}
      PROVE  NothingIsLate'
  <2>1. \A q \in Readers : reader[q].at = "stated" => q = r
    BY <1>3 DEF Runs, InCall
  <2>. QED BY <1>3, <2>1 DEF Overtakes, NothingIsLate
<1>4. IdleReader.late = {}
  BY DEF IdleReader
<1>5. ASSUME NEW r \in Readers, NEW state, Becomes(r, state), state.late = {} PROVE NothingIsLate'
  BY <1>2, <1>5 DEF Becomes, NothingIsLate
<1>6. ASSUME NEW r \in Readers, LockFirst(r) PROVE NothingIsLate'
  <2>1. PICK m : Overtakes(r, [IdleReader EXCEPT !.at = "locked", !.message = m], m)
    BY <1>6 DEF LockFirst
  <2>2. [IdleReader EXCEPT !.at = "locked", !.message = m].late = {}
    BY DEF IdleReader
  <2>. QED BY <1>3, <1>6, <2>1, <2>2 DEF LockFirst, Scanned, ReaderAt
<1>7. ASSUME NEW r \in Readers, UnlinkFile(r) PROVE NothingIsLate'
  <2>1. [reader[r] EXCEPT !.at = "deleting"].late = {}
    BY DEF NothingIsLate, FileQueueTypeOK
  <2>. QED BY <1>3, <1>4, <1>5, <1>7, <2>1 DEF UnlinkFile, ReaderAt
<1>8. ASSUME NEW r \in Readers, UnlinkExpired(r) PROVE NothingIsLate'
  <2>1. PICK m : Becomes(r, IF lock[m] = "none" THEN IdleReader
                            ELSE [reader[r] EXCEPT !.stale = @ \ {m}])
    BY <1>8 DEF UnlinkExpired
  <2>2. [reader[r] EXCEPT !.stale = @ \ {m}].late = {}
    BY DEF NothingIsLate, FileQueueTypeOK
  <2>. QED BY <1>4, <1>5, <2>1, <2>2
<1>9. ASSUME NEW r \in Readers, StatFiles(r) \/ ListFiles(r) PROVE NothingIsLate'
  <2>1. PICK seen, stale : \/ Becomes(r, IdleReader)
                           \/ Becomes(r, [IdleReader EXCEPT !.at = "stated", !.seen = seen, !.stale = stale])
                           \/ Becomes(r, [IdleReader EXCEPT !.at = "listed", !.seen = seen])
    BY <1>9 DEF StatFiles, ListFiles
  <2>2. /\ [IdleReader EXCEPT !.at = "stated", !.seen = seen, !.stale = stale].late = {}
        /\ [IdleReader EXCEPT !.at = "listed", !.seen = seen].late = {}
    BY DEF IdleReader
  <2>. QED BY <1>4, <1>5, <2>1, <2>2
<1>10. ASSUME NEW r \in Readers, ReadFile(r) PROVE NothingIsLate'
  <2>1. Becomes(r, [reader[r] EXCEPT !.at = "holding"]) \/ Becomes(r, IdleReader)
    BY <1>10 DEF ReadFile
  <2>2. [reader[r] EXCEPT !.at = "holding"].late = {}
    BY DEF NothingIsLate, FileQueueTypeOK
  <2>. QED BY <1>4, <1>5, <2>1, <2>2
<1>11. ASSUME NEW r \in Readers, Sleep(r) PROVE NothingIsLate'
  <2>1. [IdleReader EXCEPT !.at = "sleeping"].late = {}
    BY DEF IdleReader
  <2>. QED BY <1>5, <1>11, <2>1 DEF Sleep
<1>12. ASSUME NEW r \in Readers, Wake(r) \/ UnlinkLock(r) \/ Abandon(r) PROVE NothingIsLate'
  BY <1>4, <1>5, <1>12 DEF Wake, UnlinkLock, Abandon
<1>13. ASSUME NEW p, ProcessCrash(p) PROVE NothingIsLate'
  BY <1>4, <1>13 DEF ProcessCrash, NothingIsLate
<1>14. CASE UNCHANGED reader
  BY <1>1, <1>14 DEF NothingIsLate
<1>. QED
  BY <1>1, <1>6, <1>7, <1>8, <1>9, <1>10, <1>11, <1>12, <1>13, <1>14
     DEF FileQueueNext, fileVars, SendToFolder, LockExpires

\* A folder that one process uses, with any number of readers, crashes and expired
\* locks, is an at-least-once queue without exception.
THEOREM FolderOfOneProcess ==
  ASSUME \A q, r \in Readers : Process[q] = Process[r]
  PROVE  FileQueueSpec => QueueContract!Spec
<1>1. FileQueueInit => NothingIsLate
  BY DEF FileQueueInit, NothingIsLate, IdleReader
<1>2. FileQueueInv /\ NothingIsLate /\ [FileQueueNext]_fileVars
      => NothingIsLate' /\ [QueueContract!Next]_(QueueContract!vars)
  <2>1. FileQueueInv /\ NothingIsLate /\ [FileQueueNext]_fileVars
        => QueueContract!Next \/ UNCHANGED <<stageOf, handOf>>
    BY AloneIsNeverLate, FolderStep DEF FileQueueInv
  <2>. QED BY <2>1, AloneIsNeverLate DEF FileQueueInv, QueueContract!vars, stageOf, handOf
<1>. QED
  BY <1>1, <1>2, FolderInit, FileQueueInvCorrect, PTL DEF FileQueueSpec, QueueContract!Spec

----------------------------------------------------------------------------
(* FileBinary *)

BinaryRequest == {NoRequest} \union [at : Stages, object : Objects, hash : Hashes]

BinaryShape ==
  /\ folder \in [Hashes -> Folder]
  /\ \A h \in Hashes : folder[h].exists \/ folder[h] = Missing
  /\ linked \in [Objects -> Hashes \union {NoHash}]
  /\ request \in [Requests -> BinaryRequest]
  /\ received \in 0..MaxRequests
  /\ serverCrashes \in 0..MaxServerCrashes
  /\ disturbed \subseteq Hashes

LEMMA MissingIsAFolder == Missing \in Folder
BY DEF Missing, Folder

LEMMA FolderUpdate ==
  ASSUME BinaryShape, NEW h \in Hashes, NEW f \in Folder, f.exists \/ f = Missing,
         folder' = [folder EXCEPT ![h] = f]
  PROVE  /\ folder' \in [Hashes -> Folder]
         /\ \A g \in Hashes : folder'[g].exists \/ folder'[g] = Missing
BY DEF BinaryShape

LEMMA FolderRecords ==
  ASSUME NEW f \in Folder, NEW os \in SUBSET Objects, NEW d \in {"none", "partial", "full"}
  PROVE  /\ [f EXCEPT !.markers = os] \in Folder
         /\ [f EXCEPT !.data = d] \in Folder
         /\ [f EXCEPT !.data = d, !.challenge = TRUE] \in Folder
         /\ [f EXCEPT !.data = d, !.challenge = TRUE, !.markers = os] \in Folder
         /\ [f EXCEPT !.exists = TRUE, !.redirects = os] \in Folder
         /\ f.markers \in SUBSET Objects /\ f.redirects \in SUBSET Objects
         /\ f.data \in {"none", "partial", "full"}
         /\ f.exists \in BOOLEAN
         /\ f.challenge \in BOOLEAN
BY DEF Folder

LEMMA ActiveRequest ==
  ASSUME BinaryShape, NEW r \in Requests, request[r].at # "idle"
  PROVE  /\ request[r] \in [at : Stages, object : Objects, hash : Hashes]
         /\ request[r].object \in Objects
         /\ request[r].hash \in Hashes
         /\ request[r].at \in Stages
BY DEF BinaryShape, BinaryRequest, NoRequest

LEMMA BinaryShapeStep ==
  ASSUME BinaryShape, BinaryNext
  PROVE  BinaryShape'
<1> USE FileBinaryAssumption
<1>1. ASSUME NEW r \in Requests, NEW o \in Objects, NEW h \in Hashes, StoreKnown(r, o, h)
      PROVE  BinaryShape'
  <2>. DEFINE f == [folder[h] EXCEPT !.markers = @ \union {o}]
  <2>1. folder[h] \in Folder /\ folder[h].exists
    BY <1>1 DEF StoreKnown, BinaryShape
  <2>2. folder[h].markers \in SUBSET Objects
    BY <2>1, FolderRecords
  <2>3. f \in Folder /\ f.exists
    BY <2>1, <2>2 DEF Folder
  <2>4. folder' = [folder EXCEPT ![h] = f]
    BY <1>1 DEF StoreKnown
  <2>5. /\ folder' \in [Hashes -> Folder]
        /\ \A g \in Hashes : folder'[g].exists \/ folder'[g] = Missing
    BY <2>3, <2>4, FolderUpdate
  <2>. QED BY <1>1, <2>5 DEF StoreKnown, BinaryShape, Receives, Begins, BinaryRequest, Stages
<1>2. ASSUME NEW r \in Requests, NEW o \in Objects, NEW h \in Hashes, StoreNew(r, o, h)
      PROVE  BinaryShape'
  <2>. DEFINE f == [Missing EXCEPT !.exists = TRUE]
  <2>1. f \in Folder /\ f.exists
    BY DEF Folder, Missing
  <2>2. folder' = [folder EXCEPT ![h] = f]
    BY <1>2 DEF StoreNew
  <2>3. /\ folder' \in [Hashes -> Folder]
        /\ \A g \in Hashes : folder'[g].exists \/ folder'[g] = Missing
    BY <2>1, <2>2, FolderUpdate
  <2>. QED BY <1>2, <2>3 DEF StoreNew, BinaryShape, Receives, Begins, BinaryRequest, Stages
<1>3. ASSUME NEW r \in Requests, NEW o \in Objects, NEW h \in Hashes, PutRedirectUrl(r, o, h)
      PROVE  BinaryShape'
  BY <1>3 DEF PutRedirectUrl, BinaryShape, Receives, Begins, BinaryRequest, Stages
<1>4. ASSUME NEW r \in Requests, NEW o \in Objects, Load(r, o)
      PROVE  BinaryShape'
  BY <1>4 DEF Load, BinaryShape, Receives, Begins, BinaryRequest, Stages
<1>5. ASSUME NEW r \in Requests, OpenData(r)  PROVE BinaryShape'
  <2>1. request[r] \in [at : Stages, object : Objects, hash : Hashes]
    BY <1>5, ActiveRequest DEF OpenData, RequestAt
  <2>. DEFINE h == request[r].hash
              f == [folder[h] EXCEPT !.data = "partial"]
  <2>2. CASE folder[h].exists
    <3>1. folder[h] \in Folder
      BY <2>1 DEF BinaryShape
    <3>2. f \in Folder /\ f.exists
      BY <2>2, <3>1 DEF Folder
    <3>3. folder' = [folder EXCEPT ![h] = f]
      BY <1>5, <2>2 DEF OpenData
    <3>4. /\ folder' \in [Hashes -> Folder]
          /\ \A g \in Hashes : folder'[g].exists \/ folder'[g] = Missing
      BY <2>1, <3>2, <3>3, FolderUpdate
    <3>. QED BY <1>5, <2>1, <2>2, <3>4 DEF OpenData, BinaryShape, RequestGoes, BinaryRequest, Stages
  <2>3. CASE ~folder[h].exists
    BY <1>5, <2>1, <2>3 DEF OpenData, BinaryShape, Done, BinaryRequest
  <2>. QED BY <2>2, <2>3
<1>6. ASSUME NEW r \in Requests, FinishData(r)  PROVE BinaryShape'
  <2>1. request[r] \in [at : Stages, object : Objects, hash : Hashes]
    BY <1>6, ActiveRequest DEF FinishData, RequestAt
  <2>2. request' \in [Requests -> BinaryRequest]
    BY <1>6, <2>1 DEF FinishData, BinaryShape, RequestGoes, BinaryRequest, Stages
  <2>3. CASE folder[request[r].hash].exists
    <3>. DEFINE h == request[r].hash
                d == IF RequestAt(r, "writing") THEN "full" ELSE folder[h].data
                f == [folder[h] EXCEPT !.data = d, !.challenge = TRUE,
                                       !.markers = @ \union {request[r].object}]
    <3>1. folder[h] \in Folder
      BY <2>1 DEF BinaryShape
    <3>2. f \in Folder /\ f.exists
      BY <2>1, <2>3, <3>1 DEF Folder
    <3>3. folder' = [folder EXCEPT ![h] = f]
      BY <1>6, <2>3 DEF FinishData
    <3>4. /\ folder' \in [Hashes -> Folder]
          /\ \A g \in Hashes : folder'[g].exists \/ folder'[g] = Missing
      BY <2>1, <3>2, <3>3, FolderUpdate
    <3>. QED BY <1>6, <2>2, <3>4 DEF FinishData, BinaryShape
  <2>4. CASE ~folder[request[r].hash].exists
    BY <1>6, <2>1, <2>2, <2>4 DEF FinishData, BinaryShape
  <2>. QED BY <2>3, <2>4
<1>7. ASSUME NEW r \in Requests, WriteFails(r)  PROVE BinaryShape'
  <2>1. request[r] \in [at : Stages, object : Objects, hash : Hashes]
    BY <1>7, ActiveRequest DEF WriteFails, RequestAt
  <2>. QED BY <1>7, <2>1 DEF WriteFails, BinaryShape, Done, BinaryRequest
<1>8. ASSUME NEW r \in Requests, Link(r)  PROVE BinaryShape'
  <2>1. request[r] \in [at : Stages, object : Objects, hash : Hashes]
    BY <1>8, ActiveRequest DEF Link, RequestAt
  <2>. QED BY <1>8, <2>1 DEF Link, BinaryShape, Done, BinaryRequest
<1>9. ASSUME NEW r \in Requests, RedirectMarks(r)  PROVE BinaryShape'
  <2>1. request[r] \in [at : Stages, object : Objects, hash : Hashes]
    BY <1>9, ActiveRequest DEF RedirectMarks, RequestAt
  <2>. DEFINE h == request[r].hash
              f == [folder[h] EXCEPT !.exists = TRUE,
                                     !.redirects = @ \union {request[r].object}]
  <2>2. folder[h] \in Folder
    BY <2>1 DEF BinaryShape
  <2>3. f \in Folder /\ f.exists
    BY <2>1, <2>2 DEF Folder
  <2>4. folder' = [folder EXCEPT ![h] = f]
    BY <1>9 DEF RedirectMarks
  <2>5. /\ folder' \in [Hashes -> Folder]
        /\ \A g \in Hashes : folder'[g].exists \/ folder'[g] = Missing
    BY <2>1, <2>3, <2>4, FolderUpdate
  <2>. QED BY <1>9, <2>1, <2>5 DEF RedirectMarks, BinaryShape, Done, BinaryRequest
<1>10. ASSUME NEW r \in Requests, DeleteBinary(r)  PROVE BinaryShape'
  <2>1. request[r] \in [at : Stages, object : Objects, hash : Hashes]
    BY <1>10, ActiveRequest DEF DeleteBinary, RequestAt
  <2>. QED BY <1>10, <2>1 DEF DeleteBinary, BinaryShape, RequestGoes, BinaryRequest, Stages
<1>11. ASSUME NEW r \in Requests, Unlink(r)  PROVE BinaryShape'
  <2>1. request[r] \in [at : Stages, object : Objects, hash : Hashes]
    BY <1>11, ActiveRequest DEF Unlink, RequestAt
  <2>. QED BY <1>11, <2>1 DEF Unlink, BinaryShape, RequestGoes, BinaryRequest, Stages
<1>12. ASSUME NEW r \in Requests, Clean(r)  PROVE BinaryShape'
  <2>1. request[r] \in [at : Stages, object : Objects, hash : Hashes]
    BY <1>12, ActiveRequest DEF Clean, RequestAt
  <2>. DEFINE h == request[r].hash
              o == request[r].object
              last == folder[h].exists /\ IsLast(folder[h], o)
              f == IF last THEN Missing ELSE [folder[h] EXCEPT !.markers = @ \ {o}]
  <2>2. folder[h] \in Folder /\ (folder[h].exists \/ folder[h] = Missing)
    BY <2>1 DEF BinaryShape
  <2>3. f \in Folder /\ (f.exists \/ f = Missing)
    <3>1. CASE last
      BY <3>1, MissingIsAFolder
    <3>2. CASE ~last /\ folder[h].exists
      BY <2>2, <3>2 DEF Folder
    <3>3. CASE ~last /\ folder[h] = Missing
      <4>1. Missing.markers \ {o} = {}
        BY DEF Missing
      <4>2. f = [Missing EXCEPT !.markers = {}]
        BY <3>3, <4>1
      <4>. QED BY <4>2 DEF Folder, Missing
    <3>. QED BY <2>2, <3>1, <3>2, <3>3
  <2>4. folder' = [folder EXCEPT ![h] = f]
    BY <1>12 DEF Clean
  <2>5. /\ folder' \in [Hashes -> Folder]
        /\ \A g \in Hashes : folder'[g].exists \/ folder'[g] = Missing
    BY <2>1, <2>3, <2>4, FolderUpdate
  <2>6. request' \in [Requests -> BinaryRequest]
    BY <1>12, ActiveRequest DEF Clean, BinaryShape, Busy, RequestAt, BinaryRequest, Stages
  <2>. QED BY <1>12, <2>1, <2>5, <2>6 DEF Clean, BinaryShape
<1>13. ASSUME NEW h \in Hashes, Upload(h)  PROVE BinaryShape'
  <2>. DEFINE d == IF folder[h].data = "none" THEN "full" ELSE folder[h].data
              f == [folder[h] EXCEPT !.data = d, !.challenge = TRUE]
  <2>1. folder[h] \in Folder /\ folder[h].exists
    BY <1>13 DEF Upload, BinaryShape
  <2>2. f \in Folder /\ f.exists
    BY <2>1 DEF Folder
  <2>3. folder' = [folder EXCEPT ![h] = f]
    BY <1>13 DEF Upload
  <2>4. /\ folder' \in [Hashes -> Folder]
        /\ \A g \in Hashes : folder'[g].exists \/ folder'[g] = Missing
    BY <2>2, <2>3, FolderUpdate
  <2>. QED BY <1>13, <2>4 DEF Upload, BinaryShape
<1>14. CASE ServerCrash
  BY <1>14 DEF ServerCrash, BinaryShape, BinaryRequest
<1>15. ASSUME NEW r \in Requests, LinkRejects(r) \/ UnlinkRejects(r) \/ DeleteEventRejects(r)
       PROVE  BinaryShape'
  <2>1. request[r] \in [at : Stages, object : Objects, hash : Hashes]
    BY <1>15, ActiveRequest DEF LinkRejects, UnlinkRejects, DeleteEventRejects, RequestAt
  <2>. QED BY <1>15, <2>1 DEF LinkRejects, UnlinkRejects, DeleteEventRejects, BinaryShape, Done,
                              BinaryRequest
<1>16. ASSUME NEW r \in Requests, RedirectRejects(r)  PROVE BinaryShape'
  <2>1. request[r] \in [at : Stages, object : Objects, hash : Hashes]
    BY <1>16, ActiveRequest DEF RedirectRejects, RequestAt
  <2>. QED BY <1>16, <2>1 DEF RedirectRejects, BinaryShape, Done, BinaryRequest
<1>. QED BY <1>1, <1>2, <1>3, <1>4, <1>5, <1>6, <1>7, <1>8, <1>9, <1>10, <1>11, <1>12, <1>13, <1>14,
            <1>15, <1>16 DEF BinaryNext

----------------------------------------------------------------------------
\* A request that still writes the content
Storing(r, h) == request[r].at \in {"opening", "writing"} /\ request[r].hash = h

\* A request for whose object there is a marker that no link stands for
Marking(r, h) == request[r].at \in {"linking", "cleaning"} /\ request[r].hash = h

Touching(r, h) ==
  request[r].at \in {"opening", "writing", "orphaned", "linking", "cleaning"} /\ request[r].hash = h

\* What the folder of an undisturbed content holds while requests are under way
MarkersFit(h) ==
  \A o \in Objects :
    o \in folder[h].markers
    <=> linked[o] = h \/ \E r \in Requests : Marking(r, h) /\ request[r].object = o

ExistsForSomebody(h) ==
  folder[h].exists
  <=> (\E o \in Objects : linked[o] = h) \/ \E r \in Requests : Storing(r, h) \/ Marking(r, h)

ContentIsWritten(h) ==
  folder[h].exists
  => (folder[h].data = "full" /\ folder[h].challenge) \/ \E r \in Requests : Storing(r, h)

OneWriter(h) == \A q, r \in Requests : Storing(q, h) /\ Storing(r, h) => q = r

CleanedIsUnlinked(h) ==
  \A r \in Requests : request[r].at = "cleaning" /\ request[r].hash = h
                      => linked[request[r].object] # h

HashInv(h) ==
  /\ MarkersFit(h)
  /\ folder[h].redirects = {}
  /\ ExistsForSomebody(h)
  /\ ContentIsWritten(h)
  /\ OneWriter(h)
  /\ \A r \in Requests : request[r].at = "orphaned" => request[r].hash # h
  /\ CleanedIsUnlinked(h)

BinaryInv == \A h \in Hashes \ disturbed : HashInv(h)

LEMMA HashFrame ==
  ASSUME NEW h, HashInv(h),
         folder'[h] = folder[h],
         \A o \in Objects : linked'[o] = h <=> linked[o] = h,
         \A q \in Requests : \/ request'[q] = request[q]
                             \/ ~Touching(q, h) /\ ~Touching(q, h)',
         \A q \in Requests : Touching(q, h) => request[q].object \in Objects
  PROVE  HashInv(h)'
<1>1. \A q \in Requests : /\ Storing(q, h)' <=> Storing(q, h)
                          /\ Marking(q, h)' <=> Marking(q, h)
                          /\ Touching(q, h)' <=> Touching(q, h)
                          /\ Touching(q, h) => request'[q] = request[q]
                          /\ Marking(q, h) => request'[q] = request[q]
                          /\ Storing(q, h) => request'[q] = request[q]
  BY DEF Storing, Marking, Touching
<1>2. MarkersFit(h)'
  BY <1>1 DEF HashInv, MarkersFit
<1>3. ExistsForSomebody(h)'
  BY <1>1 DEF HashInv, ExistsForSomebody
<1>4. ContentIsWritten(h)'
  BY <1>1 DEF HashInv, ContentIsWritten
<1>5. OneWriter(h)'
  BY <1>1 DEF HashInv, OneWriter
<1>6. \A r \in Requests : request'[r].at = "orphaned" => request'[r].hash # h
  BY <1>1 DEF HashInv, Touching
<1>7. CleanedIsUnlinked(h)'
  BY <1>1 DEF HashInv, CleanedIsUnlinked, Touching
<1>. QED BY <1>2, <1>3, <1>4, <1>5, <1>6, <1>7 DEF HashInv

LEMMA OnlyOneRequestMoves ==
  ASSUME BinaryShape, NEW r \in Requests, NEW h \in Hashes, HashInv(h),
         folder'[h] = folder[h],
         \A o \in Objects : linked'[o] = h <=> linked[o] = h,
         \A q \in Requests \ {r} : request'[q] = request[q],
         ~Touching(r, h), ~Touching(r, h)'
  PROVE  HashInv(h)'
<1>1. \A q \in Requests : Touching(q, h) => request[q].object \in Objects
  BY ActiveRequest DEF Touching
<1>2. \A q \in Requests : \/ request'[q] = request[q]
                          \/ ~Touching(q, h) /\ ~Touching(q, h)'
  OBVIOUS
<1>. QED BY <1>1, <1>2, HashFrame

LEMMA OnlyOneHashMoves ==
  ASSUME BinaryShape, NEW r \in Requests, NEW h \in Hashes, HashInv(h),
         request[r].at = "idle" \/ request[r].hash # h,
         request'[r].at = "idle" \/ request'[r].hash # h,
         folder'[h] = folder[h],
         \A o \in Objects : linked'[o] = h <=> linked[o] = h,
         \A q \in Requests \ {r} : request'[q] = request[q]
  PROVE  HashInv(h)'
<1>1. ~Touching(r, h) /\ ~Touching(r, h)'
  BY DEF Touching
<1>. QED BY <1>1, OnlyOneRequestMoves

LEMMA RequestStarts ==
  ASSUME BinaryShape, NEW r \in Requests, NEW o, NEW h, NEW s, Receives(r), Begins(r, s, o, h)
  PROVE  /\ request[r].at = "idle"
         /\ request'[r] = [at |-> s, object |-> o, hash |-> h]
         /\ \A q \in Requests \ {r} : request'[q] = request[q]
BY DEF BinaryShape, Receives, Begins, NoRequest

LEMMA StoreKnownKeeps ==
  ASSUME BinaryShape, NEW r \in Requests, NEW o \in Objects, NEW h \in Hashes,
         StoreKnown(r, o, h), NEW g \in Hashes, HashInv(g)
  PROVE  HashInv(g)'
<1>1. /\ request[r].at = "idle"
      /\ request'[r] = [at |-> "linking", object |-> o, hash |-> h]
      /\ \A q \in Requests \ {r} : request'[q] = request[q]
  BY RequestStarts DEF StoreKnown
<1>2. linked' = linked
  BY DEF StoreKnown
<1>3. CASE g # h
  <2>1. folder'[g] = folder[g]
    BY <1>3 DEF StoreKnown, BinaryShape
  <2>. QED BY <1>1, <1>2, <1>3, <2>1, OnlyOneHashMoves
<1>4. CASE g = h
  <2>1. folder[h] \in Folder /\ folder[h].exists
    BY DEF StoreKnown, BinaryShape
  <2>2. folder'[h] = [folder[h] EXCEPT !.markers = folder[h].markers \union {o}]
    BY DEF StoreKnown, BinaryShape
  <2>3. /\ folder'[h].markers = folder[h].markers \union {o}
        /\ folder'[h].exists = folder[h].exists
        /\ folder'[h].data = folder[h].data
        /\ folder'[h].challenge = folder[h].challenge
        /\ folder'[h].redirects = folder[h].redirects
    BY <2>1, <2>2 DEF Folder
  <2>4. \A q \in Requests \ {r} : /\ Storing(q, h)' <=> Storing(q, h)
                                  /\ Marking(q, h)' <=> Marking(q, h)
    BY <1>1 DEF Storing, Marking
  <2>5. /\ ~Storing(r, h)' /\ Marking(r, h)'
        /\ ~Storing(r, h) /\ ~Marking(r, h)
    BY <1>1 DEF Storing, Marking
  <2>6. MarkersFit(h)'
    <3>. SUFFICES ASSUME NEW x \in Objects
                  PROVE  x \in folder'[h].markers
                         <=> linked'[x] = h \/ \E q \in Requests : Marking(q, h)' /\ request'[q].object = x
      BY DEF MarkersFit
    <3>1. x \in folder[h].markers
          <=> linked[x] = h \/ \E q \in Requests : Marking(q, h) /\ request[q].object = x
      BY <1>4 DEF HashInv, MarkersFit
    <3>2. CASE x = o
      BY <1>1, <2>3, <2>5, <3>2
    <3>3. CASE x # o
      BY <1>1, <1>2, <2>3, <2>4, <2>5, <3>1, <3>3
    <3>. QED BY <3>2, <3>3
  <2>7. ExistsForSomebody(h)'
    BY <2>1, <2>3, <2>5 DEF ExistsForSomebody
  <2>8. ContentIsWritten(h)'
    BY <1>4, <2>3, <2>4, <2>5 DEF HashInv, ContentIsWritten
  <2>9. OneWriter(h)'
    BY <1>4, <2>4, <2>5 DEF HashInv, OneWriter
  <2>10. \A q \in Requests : request'[q].at = "orphaned" => request'[q].hash # h
    BY <1>1, <1>4 DEF HashInv
  <2>11. CleanedIsUnlinked(h)'
    BY <1>1, <1>2, <1>4 DEF HashInv, CleanedIsUnlinked
  <2>12. folder'[h].redirects = {}
    BY <1>4, <2>3 DEF HashInv
  <2>. QED BY <1>4, <2>6, <2>7, <2>8, <2>9, <2>10, <2>11, <2>12 DEF HashInv
<1>. QED BY <1>3, <1>4

LEMMA StoreNewKeeps ==
  ASSUME BinaryShape, NEW r \in Requests, NEW o \in Objects, NEW h \in Hashes,
         StoreNew(r, o, h), NEW g \in Hashes, HashInv(g)
  PROVE  HashInv(g)'
<1>1. /\ request[r].at = "idle"
      /\ request'[r] = [at |-> "opening", object |-> o, hash |-> h]
      /\ \A q \in Requests \ {r} : request'[q] = request[q]
  BY RequestStarts DEF StoreNew
<1>2. linked' = linked
  BY DEF StoreNew
<1>3. CASE g # h
  <2>1. folder'[g] = folder[g]
    BY <1>3 DEF StoreNew, BinaryShape
  <2>. QED BY <1>1, <1>2, <1>3, <2>1, OnlyOneHashMoves
<1>4. CASE g = h
  <2>1. ~folder[h].exists
    BY DEF StoreNew
  <2>2. folder'[h] = [Missing EXCEPT !.exists = TRUE]
    BY DEF StoreNew, BinaryShape
  <2>3. folder'[h].markers = {} /\ folder'[h].exists /\ folder'[h].redirects = {}
    BY <2>2 DEF Missing
  <2>4. \A q \in Requests \ {r} : /\ Storing(q, h)' <=> Storing(q, h)
                                  /\ Marking(q, h)' <=> Marking(q, h)
    BY <1>1 DEF Storing, Marking
  <2>5. Storing(r, h)' /\ ~Marking(r, h)'
    BY <1>1 DEF Storing, Marking
  <2>6. /\ \A x \in Objects : linked[x] # h
        /\ \A q \in Requests : ~Storing(q, h) /\ ~Marking(q, h)
    BY <1>4, <2>1 DEF HashInv, ExistsForSomebody
  <2>7. MarkersFit(h)'
    BY <1>2, <2>3, <2>4, <2>5, <2>6 DEF MarkersFit
  <2>8. ExistsForSomebody(h)' /\ ContentIsWritten(h)'
    BY <2>3, <2>5 DEF ExistsForSomebody, ContentIsWritten
  <2>9. OneWriter(h)'
    BY <2>4, <2>5, <2>6 DEF OneWriter
  <2>10. \A q \in Requests : request'[q].at = "orphaned" => request'[q].hash # h
    BY <1>1, <1>4 DEF HashInv
  <2>11. CleanedIsUnlinked(h)'
    BY <1>1, <1>2, <1>4 DEF HashInv, CleanedIsUnlinked
  <2>. QED BY <1>4, <2>3, <2>7, <2>8, <2>9, <2>10, <2>11 DEF HashInv
<1>. QED BY <1>3, <1>4

LEMMA RequestMoves ==
  ASSUME BinaryShape, NEW r \in Requests, request[r].at # "idle",
         \/ \E s : RequestGoes(r, s)
         \/ Done(r)
  PROVE  /\ request[r].hash \in Hashes
         /\ request[r].object \in Objects
         /\ \A s : RequestGoes(r, s) => request'[r] = [request[r] EXCEPT !.at = s]
         /\ \A s : RequestGoes(r, s) => request'[r].at = s
         /\ \A s : RequestGoes(r, s) => request'[r].hash = request[r].hash
         /\ \A s : RequestGoes(r, s) => request'[r].object = request[r].object
         /\ Done(r) => request'[r].at = "idle"
         /\ \A q \in Requests \ {r} : request'[q] = request[q]
<1>1. /\ request[r] \in [at : Stages, object : Objects, hash : Hashes]
      /\ request[r].object \in Objects
      /\ request[r].hash \in Hashes
  BY ActiveRequest
<1>2. ASSUME NEW s, RequestGoes(r, s)
      PROVE  /\ request'[r] = [request[r] EXCEPT !.at = s]
             /\ request'[r].at = s
             /\ request'[r].hash = request[r].hash
             /\ request'[r].object = request[r].object
             /\ \A q \in Requests \ {r} : request'[q] = request[q]
  BY <1>1, <1>2 DEF RequestGoes, BinaryShape
<1>3. ASSUME Done(r)
      PROVE  /\ request'[r].at = "idle"
             /\ \A q \in Requests \ {r} : request'[q] = request[q]
  BY <1>3 DEF Done, BinaryShape, NoRequest
<1>. QED BY <1>1, <1>2, <1>3

LEMMA OpenDataKeeps ==
  ASSUME BinaryShape, NEW r \in Requests, OpenData(r), NEW g \in Hashes, HashInv(g)
  PROVE  HashInv(g)'
<1>. PICK h \in Hashes : h = request[r].hash
  BY ActiveRequest DEF OpenData, RequestAt
<1>1. request[r].at = "opening" /\ linked' = linked
  BY DEF OpenData, RequestAt
<1>2. RequestGoes(r, "writing") \/ Done(r)
  BY DEF OpenData
<1>3. CASE g # h
  <2>1. folder'[g] = folder[g]
    BY <1>3 DEF OpenData, BinaryShape
  <2>2. request'[r].at = "idle" \/ request'[r].hash = h
    BY <1>1, <1>2, RequestMoves
  <2>3. \A q \in Requests \ {r} : request'[q] = request[q]
    BY <1>1, <1>2, RequestMoves
  <2>. QED BY <1>1, <1>3, <2>1, <2>2, <2>3, OnlyOneHashMoves
<1>4. CASE g = h
  <2>1. Storing(r, h) /\ folder[h].exists
    BY <1>1, <1>4 DEF Storing, HashInv, ExistsForSomebody
  <2>2. folder[h] \in Folder /\ folder'[h] = [folder[h] EXCEPT !.data = "partial"]
    BY <2>1 DEF OpenData, BinaryShape
  <2>3. /\ folder'[h].markers = folder[h].markers
        /\ folder'[h].exists = folder[h].exists
        /\ folder'[h].redirects = folder[h].redirects
    BY <2>2 DEF Folder
  <2>4. RequestGoes(r, "writing")
    BY <2>1 DEF OpenData
  <2>5. /\ request'[r].at = "writing" /\ request'[r].hash = h
        /\ request'[r].object = request[r].object
        /\ \A q \in Requests \ {r} : request'[q] = request[q]
    BY <1>1, <2>4, RequestMoves
  <2>6. \A q \in Requests : /\ Storing(q, h)' <=> Storing(q, h)
                            /\ Marking(q, h)' <=> Marking(q, h)
                            /\ request'[q].object = request[q].object
    BY <1>1, <2>5 DEF Storing, Marking
  <2>7. MarkersFit(h)'
    BY <1>1, <1>4, <2>3, <2>6 DEF HashInv, MarkersFit
  <2>8. ExistsForSomebody(h)'
    BY <1>1, <1>4, <2>3, <2>6 DEF HashInv, ExistsForSomebody
  <2>9. ContentIsWritten(h)'
    BY <2>1, <2>6 DEF ContentIsWritten
  <2>10. OneWriter(h)'
    BY <1>4, <2>6 DEF HashInv, OneWriter
  <2>11. \A q \in Requests : request'[q].at = "orphaned" => request'[q].hash # h
    BY <1>4, <2>5 DEF HashInv
  <2>12. CleanedIsUnlinked(h)'
    BY <1>1, <1>4, <2>5 DEF HashInv, CleanedIsUnlinked
  <2>13. folder'[h].redirects = {}
    BY <1>4, <2>3 DEF HashInv
  <2>. QED BY <1>4, <2>7, <2>8, <2>9, <2>10, <2>11, <2>12, <2>13 DEF HashInv
<1>. QED BY <1>3, <1>4

LEMMA FinishDataKeeps ==
  ASSUME BinaryShape, NEW r \in Requests, FinishData(r), NEW g \in Hashes, HashInv(g)
  PROVE  HashInv(g)'
<1>. PICK h \in Hashes : h = request[r].hash
  BY ActiveRequest DEF FinishData, RequestAt
<1>. PICK o \in Objects : o = request[r].object
  BY ActiveRequest DEF FinishData, RequestAt
<1>1. /\ request[r].at \in {"writing", "orphaned"}
      /\ linked' = linked
      /\ RequestGoes(r, "linking")
  BY DEF FinishData, RequestAt
<1>2. /\ request'[r].at = "linking" /\ request'[r].hash = h
      /\ request'[r].object = o
      /\ \A q \in Requests \ {r} : request'[q] = request[q]
  BY <1>1, RequestMoves
<1>3. CASE g # h
  <2>1. folder'[g] = folder[g]
    BY <1>3 DEF FinishData, BinaryShape
  <2>. QED BY <1>1, <1>2, <1>3, <2>1, OnlyOneHashMoves
<1>4. CASE g = h
  <2>1. request[r].at = "writing" /\ Storing(r, h) /\ ~Marking(r, h)
    BY <1>1, <1>4 DEF HashInv, Storing, Marking
  <2>2. folder[h].exists
    BY <1>4, <2>1 DEF HashInv, ExistsForSomebody
  <2>3. folder[h] \in Folder
    BY DEF BinaryShape
  <2>4. folder'[h] = [folder[h] EXCEPT !.data = "full", !.challenge = TRUE,
                                       !.markers = folder[h].markers \union {o}]
    BY <2>1, <2>2 DEF FinishData, BinaryShape, RequestAt
  <2>5. /\ folder'[h].markers = folder[h].markers \union {o}
        /\ folder'[h].exists = folder[h].exists
        /\ folder'[h].redirects = folder[h].redirects
        /\ folder'[h].data = "full" /\ folder'[h].challenge = TRUE
    BY <2>3, <2>4 DEF Folder
  <2>6. \A q \in Requests \ {r} : /\ Storing(q, h)' <=> Storing(q, h)
                                  /\ Marking(q, h)' <=> Marking(q, h)
    BY <1>2 DEF Storing, Marking
  <2>7. ~Storing(r, h)' /\ Marking(r, h)'
    BY <1>2 DEF Storing, Marking
  <2>8. MarkersFit(h)'
    <3>. SUFFICES ASSUME NEW x \in Objects
                  PROVE  x \in folder'[h].markers
                         <=> linked'[x] = h \/ \E q \in Requests : Marking(q, h)' /\ request'[q].object = x
      BY DEF MarkersFit
    <3>1. x \in folder[h].markers
          <=> linked[x] = h \/ \E q \in Requests : Marking(q, h) /\ request[q].object = x
      BY <1>4 DEF HashInv, MarkersFit
    <3>2. CASE x = o
      BY <1>2, <2>5, <2>7, <3>2
    <3>3. CASE x # o
      BY <1>1, <1>2, <2>1, <2>5, <2>6, <2>7, <3>1, <3>3
    <3>. QED BY <3>2, <3>3
  <2>9. ExistsForSomebody(h)' /\ ContentIsWritten(h)'
    BY <2>2, <2>5, <2>7 DEF ExistsForSomebody, ContentIsWritten
  <2>10. OneWriter(h)'
    BY <1>4, <2>6, <2>7 DEF HashInv, OneWriter
  <2>11. \A q \in Requests : request'[q].at = "orphaned" => request'[q].hash # h
    BY <1>2, <1>4 DEF HashInv
  <2>12. CleanedIsUnlinked(h)'
    BY <1>1, <1>2, <1>4 DEF HashInv, CleanedIsUnlinked
  <2>13. folder'[h].redirects = {}
    BY <1>4, <2>5 DEF HashInv
  <2>. QED BY <1>4, <2>8, <2>9, <2>10, <2>11, <2>12, <2>13 DEF HashInv
<1>. QED BY <1>3, <1>4

LEMMA WriteFailsKeeps ==
  ASSUME BinaryShape, NEW r \in Requests, WriteFails(r),
         NEW g \in Hashes \ disturbed', HashInv(g)
  PROVE  HashInv(g)'
<1>1. /\ request[r].at \in {"opening", "writing"} /\ Done(r)
      /\ folder' = folder /\ linked' = linked
      /\ g # request[r].hash
  BY DEF WriteFails, RequestAt
<1>2. /\ request'[r].at = "idle"
      /\ \A q \in Requests \ {r} : request'[q] = request[q]
  BY <1>1, RequestMoves
<1>. QED BY <1>1, <1>2, OnlyOneHashMoves

LEMMA LinkKeeps ==
  ASSUME BinaryShape, NEW r \in Requests, Link(r), NEW g \in Hashes \ disturbed', HashInv(g)
  PROVE  HashInv(g)'
<1>. USE FileBinaryAssumption
<1>. PICK h \in Hashes : h = request[r].hash
  BY ActiveRequest DEF Link, RequestAt
<1>. PICK o \in Objects : o = request[r].object
  BY ActiveRequest DEF Link, RequestAt
<1>1. /\ request[r].at = "linking" /\ Done(r)
      /\ folder' = folder
      /\ linked' = [linked EXCEPT ![o] = h]
      /\ disturbed' = disturbed \union ({linked[o]} \ {h, NoHash})
             \union {x \in {h} : \E d \in Busy(h) : RequestAt(d, "cleaning")}
  BY DEF Link, RequestAt
<1>2. /\ request'[r].at = "idle"
      /\ \A q \in Requests \ {r} : request'[q] = request[q]
  BY <1>1, RequestMoves
<1>3. CASE g # h
  <2>1. linked[o] # g
    BY <1>1, <1>3
  <2>2. \A x \in Objects : linked'[x] = g <=> linked[x] = g
    BY <1>1, <1>3, <2>1 DEF BinaryShape
  <2>. QED BY <1>1, <1>2, <1>3, <2>2, OnlyOneHashMoves
<1>4. CASE g = h
  <2>1. \A q \in Requests : ~(request[q].at = "cleaning" /\ request[q].hash = h)
    BY <1>1, <1>4 DEF Busy, RequestAt
  <2>2. \A x \in Objects : linked'[x] = h <=> linked[x] = h \/ x = o
    BY <1>1 DEF BinaryShape
  <2>3. \A q \in Requests : Storing(q, h)' <=> Storing(q, h)
    BY <1>1, <1>2 DEF Storing
  <2>4. \A q \in Requests \ {r} : Marking(q, h)' <=> Marking(q, h)
    BY <1>2 DEF Marking
  <2>5. Marking(r, h) /\ ~Marking(r, h)'
    BY <1>1, <1>2 DEF Marking
  <2>6. MarkersFit(h)'
    <3>. SUFFICES ASSUME NEW x \in Objects
                  PROVE  x \in folder'[h].markers
                         <=> linked'[x] = h \/ \E q \in Requests : Marking(q, h)' /\ request'[q].object = x
      BY DEF MarkersFit
    <3>1. x \in folder[h].markers
          <=> linked[x] = h \/ \E q \in Requests : Marking(q, h) /\ request[q].object = x
      BY <1>4 DEF HashInv, MarkersFit
    <3>2. CASE x = o
      BY <1>1, <2>2, <2>5, <3>1, <3>2
    <3>3. CASE x # o
      BY <1>1, <1>2, <2>2, <2>4, <2>5, <3>1, <3>3
    <3>. QED BY <3>2, <3>3
  <2>7. ExistsForSomebody(h)'
    <3>1. folder[h].exists
      BY <1>4, <2>5 DEF HashInv, ExistsForSomebody
    <3>. QED BY <1>1, <2>2, <3>1 DEF ExistsForSomebody
  <2>8. ContentIsWritten(h)'
    BY <1>1, <1>4, <2>3 DEF HashInv, ContentIsWritten
  <2>9. OneWriter(h)'
    BY <1>4, <2>3 DEF HashInv, OneWriter
  <2>10. \A q \in Requests : request'[q].at = "orphaned" => request'[q].hash # h
    BY <1>2, <1>4 DEF HashInv
  <2>11. CleanedIsUnlinked(h)'
    BY <1>2, <2>1 DEF CleanedIsUnlinked
  <2>12. folder'[h].redirects = {}
    BY <1>1, <1>4 DEF HashInv
  <2>. QED BY <1>4, <2>6, <2>7, <2>8, <2>9, <2>10, <2>11, <2>12 DEF HashInv
<1>. QED BY <1>3, <1>4

LEMMA RedirectionsKeep ==
  ASSUME BinaryShape, NEW r \in Requests, NEW g \in Hashes \ disturbed', HashInv(g)
  PROVE  /\ \A o \in Objects, h \in Hashes : PutRedirectUrl(r, o, h) => HashInv(g)'
         /\ \A o \in Objects : Load(r, o) => HashInv(g)'
         /\ DeleteBinary(r) => HashInv(g)'
         /\ RedirectMarks(r) => HashInv(g)'
<1>1. ASSUME NEW o \in Objects, NEW h \in Hashes, PutRedirectUrl(r, o, h)
      PROVE  HashInv(g)'
  <2>1. /\ request[r].at = "idle" /\ request'[r].at = "redirecting"
        /\ \A q \in Requests \ {r} : request'[q] = request[q]
        /\ folder' = folder /\ linked' = linked
    <3>1. /\ request[r].at = "idle" /\ request'[r] = [at |-> "redirecting", object |-> o, hash |-> h]
          /\ \A q \in Requests \ {r} : request'[q] = request[q]
      BY <1>1, RequestStarts DEF PutRedirectUrl
    <3>. QED BY <1>1, <3>1 DEF PutRedirectUrl
  <2>2. ~Touching(r, g) /\ ~Touching(r, g)'
    BY <2>1 DEF Touching
  <2>. QED BY <2>1, <2>2, OnlyOneRequestMoves
<1>2. ASSUME NEW o \in Objects, Load(r, o)
      PROVE  HashInv(g)'
  <2>1. /\ request[r].at = "idle" /\ request'[r].at = "loaded"
        /\ \A q \in Requests \ {r} : request'[q] = request[q]
        /\ folder' = folder /\ linked' = linked
    <3>1. /\ request[r].at = "idle" /\ request'[r] = [at |-> "loaded", object |-> o, hash |-> linked[o]]
          /\ \A q \in Requests \ {r} : request'[q] = request[q]
      BY <1>2, RequestStarts DEF Load
    <3>. QED BY <1>2, <3>1 DEF Load
  <2>2. ~Touching(r, g) /\ ~Touching(r, g)'
    BY <2>1 DEF Touching
  <2>. QED BY <2>1, <2>2, OnlyOneRequestMoves
<1>3. ASSUME DeleteBinary(r)
      PROVE  HashInv(g)'
  <2>1. /\ request[r].at = "loaded" /\ RequestGoes(r, "unlinking")
        /\ folder' = folder /\ linked' = linked
    BY <1>3 DEF DeleteBinary, RequestAt
  <2>2. /\ request'[r].at = "unlinking"
        /\ \A q \in Requests \ {r} : request'[q] = request[q]
    BY <2>1, RequestMoves
  <2>3. ~Touching(r, g) /\ ~Touching(r, g)'
    BY <2>1, <2>2 DEF Touching
  <2>. QED BY <2>1, <2>2, <2>3, OnlyOneRequestMoves
<1>4. ASSUME RedirectMarks(r)
      PROVE  HashInv(g)'
  <2>. PICK h \in Hashes : h = request[r].hash
    BY <1>4, ActiveRequest DEF RedirectMarks, RequestAt
  <2>. PICK o \in Objects : o = request[r].object
    BY <1>4, ActiveRequest DEF RedirectMarks, RequestAt
  <2>1. /\ request[r].at = "redirecting" /\ Done(r)
        /\ linked' = [linked EXCEPT ![o] = h]
        /\ disturbed' = disturbed \union ({h, linked[o]} \ {NoHash})
    BY <1>4 DEF RedirectMarks, RequestAt
  <2>2. g # h /\ g # linked[o]
    BY <2>1, FileBinaryAssumption
  <2>3. /\ request'[r].at = "idle"
        /\ \A q \in Requests \ {r} : request'[q] = request[q]
    BY <2>1, RequestMoves
  <2>4. folder'[g] = folder[g]
    BY <1>4, <2>2 DEF RedirectMarks, BinaryShape
  <2>5. \A x \in Objects : linked'[x] = g <=> linked[x] = g
    BY <2>1, <2>2 DEF BinaryShape
  <2>. QED BY <2>1, <2>2, <2>3, <2>4, <2>5, OnlyOneHashMoves
<1>. QED BY <1>1, <1>2, <1>3, <1>4

LEMMA UnlinkKeeps ==
  ASSUME BinaryShape, NEW r \in Requests, Unlink(r), NEW g \in Hashes \ disturbed', HashInv(g)
  PROVE  HashInv(g)'
<1>. USE FileBinaryAssumption
<1>. PICK h \in Hashes : h = request[r].hash
  BY ActiveRequest DEF Unlink, RequestAt
<1>. PICK o \in Objects : o = request[r].object
  BY ActiveRequest DEF Unlink, RequestAt
<1>1. /\ request[r].at = "unlinking" /\ RequestGoes(r, "cleaning")
      /\ folder' = folder
      /\ linked' = [linked EXCEPT ![o] = NoHash]
      /\ disturbed' = disturbed \union
             (IF linked[o] = h THEN {} ELSE {linked[o], h} \ {NoHash})
  BY DEF Unlink, RequestAt
<1>2. /\ request'[r].at = "cleaning" /\ request'[r].hash = h
      /\ request'[r].object = o
      /\ \A q \in Requests \ {r} : request'[q] = request[q]
  BY <1>1, RequestMoves
<1>3. CASE g # h
  <2>1. linked[o] # g
    BY <1>1, <1>3
  <2>2. \A x \in Objects : linked'[x] = g <=> linked[x] = g
    BY <1>1, <2>1 DEF BinaryShape
  <2>. QED BY <1>1, <1>2, <1>3, <2>2, OnlyOneHashMoves
<1>4. CASE g = h
  <2>1. linked[o] = h
    BY <1>1, <1>4
  <2>2. \A x \in Objects : linked'[x] = h <=> linked[x] = h /\ x # o
    BY <1>1 DEF BinaryShape
  <2>3. \A q \in Requests : Storing(q, h)' <=> Storing(q, h)
    BY <1>1, <1>2 DEF Storing
  <2>4. \A q \in Requests \ {r} : Marking(q, h)' <=> Marking(q, h)
    BY <1>2 DEF Marking
  <2>5. ~Marking(r, h) /\ Marking(r, h)'
    BY <1>1, <1>2 DEF Marking
  <2>6. MarkersFit(h)'
    <3>. SUFFICES ASSUME NEW x \in Objects
                  PROVE  x \in folder'[h].markers
                         <=> linked'[x] = h \/ \E q \in Requests : Marking(q, h)' /\ request'[q].object = x
      BY DEF MarkersFit
    <3>1. x \in folder[h].markers
          <=> linked[x] = h \/ \E q \in Requests : Marking(q, h) /\ request[q].object = x
      BY <1>4 DEF HashInv, MarkersFit
    <3>2. CASE x = o
      BY <1>1, <1>2, <2>1, <2>5, <3>1, <3>2
    <3>3. CASE x # o
      BY <1>1, <1>2, <2>2, <2>4, <2>5, <3>1, <3>3
    <3>. QED BY <3>2, <3>3
  <2>7. ExistsForSomebody(h)'
    <3>1. folder[h].exists
      BY <1>4, <2>1 DEF HashInv, ExistsForSomebody
    <3>. QED BY <1>1, <2>5, <3>1 DEF ExistsForSomebody
  <2>8. ContentIsWritten(h)'
    BY <1>1, <1>4, <2>3 DEF HashInv, ContentIsWritten
  <2>9. OneWriter(h)'
    BY <1>4, <2>3 DEF HashInv, OneWriter
  <2>10. \A q \in Requests : request'[q].at = "orphaned" => request'[q].hash # h
    BY <1>2, <1>4 DEF HashInv
  <2>11. CleanedIsUnlinked(h)'
    <3>. SUFFICES ASSUME NEW q \in Requests, request'[q].at = "cleaning", request'[q].hash = h
                  PROVE  linked'[request'[q].object] # h
      BY DEF CleanedIsUnlinked
    <3>1. CASE q = r
      BY <1>1, <1>2, <3>1 DEF BinaryShape
    <3>2. CASE q # r
      <4>1. request'[q] = request[q] /\ request[q].object \in Objects
        BY <1>2, <3>2, ActiveRequest
      <4>2. linked[request[q].object] # h
        BY <1>4, <4>1 DEF HashInv, CleanedIsUnlinked
      <4>. QED BY <2>2, <4>1, <4>2
    <3>. QED BY <3>1, <3>2
  <2>12. folder'[h].redirects = {}
    BY <1>1, <1>4 DEF HashInv
  <2>. QED BY <1>4, <2>6, <2>7, <2>8, <2>9, <2>10, <2>11, <2>12 DEF HashInv
<1>. QED BY <1>3, <1>4

LEMMA OneElement ==
  ASSUME NEW S, IsFiniteSet(S), NEW x \in S
  PROVE  Cardinality(S) = 1 <=> S = {x}
<1>1. Cardinality({x}) = 1
  BY FS_Singleton
<1>2. IsFiniteSet({x}) /\ {x} \subseteq S
  BY FS_Singleton
<1>3. Cardinality(S) = 1 => S = {x}
  BY <1>1, <1>2, FS_Subset
<1>. QED BY <1>1, <1>3

\* _cleanUsage counts the marker, the content and the challenge: the deletion
\* that is alone with its content finds it is the last use by that count.
LEMMA LastUseIsCounted ==
  ASSUME BinaryShape, NEW h \in Hashes, HashInv(h), NEW o \in folder[h].markers,
         folder[h].exists, \A q \in Requests : ~Storing(q, h)
  PROVE  IsLast(folder[h], o) <=> folder[h].markers = {o}
<1>1. folder[h].data = "full" /\ folder[h].challenge /\ folder[h].redirects = {}
  BY DEF HashInv, ContentIsWritten
<1>2. folder[h].markers \subseteq Objects
  BY DEF BinaryShape, Folder
<1>3. IsFiniteSet(folder[h].markers)
  BY <1>2, FS_Subset, FileBinaryAssumption
<1>4. Cardinality(folder[h].markers) \in Nat /\ Cardinality(folder[h].redirects) = 0
  BY <1>1, <1>3, FS_CardinalityType, FS_EmptySet
<1>5. Files(folder[h]) = Cardinality(folder[h].markers) + 2
  BY <1>1, <1>4 DEF Files
<1>6. IsLast(folder[h], o) <=> Cardinality(folder[h].markers) = 1
  BY <1>4, <1>5 DEF IsLast
<1>. QED BY <1>3, <1>6, OneElement

LEMMA CleanKeeps ==
  ASSUME BinaryShape, NEW r \in Requests, Clean(r), NEW g \in Hashes \ disturbed', HashInv(g)
  PROVE  HashInv(g)'
<1>. PICK h \in Hashes : h = request[r].hash
  BY ActiveRequest DEF Clean, RequestAt
<1>. PICK o \in Objects : o = request[r].object
  BY ActiveRequest DEF Clean, RequestAt
<1>. PICK last \in BOOLEAN : last = (folder[h].exists /\ IsLast(folder[h], o))
  OBVIOUS
<1>1. /\ request[r].at = "cleaning"
      /\ linked' = linked
      /\ folder' = [folder EXCEPT ![h] = IF last THEN Missing
                                         ELSE [folder[h] EXCEPT !.markers = @ \ {o}]]
      /\ request' = [q \in Requests |->
           IF q = r THEN NoRequest
           ELSE IF last /\ q \in Busy(h) /\ RequestAt(q, "writing")
           THEN [request[q] EXCEPT !.at = "orphaned"] ELSE request[q]]
      /\ disturbed' = IF Busy(h) = {r} THEN disturbed ELSE disturbed \union {h}
  BY DEF Clean, RequestAt
<1>2. request'[r].at = "idle"
  BY <1>1 DEF NoRequest
<1>3. CASE g # h
  <2>1. folder'[g] = folder[g]
    BY <1>1, <1>3 DEF BinaryShape
  <2>2. \A q \in Requests : Touching(q, g) => request[q].object \in Objects
    BY ActiveRequest DEF Touching
  <2>3. ASSUME NEW q \in Requests
        PROVE  \/ request'[q] = request[q]
               \/ ~Touching(q, g) /\ ~Touching(q, g)'
    <3>1. CASE q = r
      BY <1>1, <1>2, <1>3, <3>1 DEF Touching
    <3>2. CASE q # r /\ last /\ q \in Busy(h) /\ RequestAt(q, "writing")
      <4>1. request[q].hash = h /\ request[q].at # "idle"
        BY <3>2 DEF Busy
      <4>2. request[q] \in [at : Stages, object : Objects, hash : Hashes]
        BY <4>1, ActiveRequest
      <4>3. request'[q] = [request[q] EXCEPT !.at = "orphaned"]
        BY <1>1, <3>2
      <4>4. request'[q].hash = h
        BY <4>1, <4>2, <4>3
      <4>. QED BY <1>3, <4>1, <4>4 DEF Touching
    <3>3. CASE q # r /\ ~(last /\ q \in Busy(h) /\ RequestAt(q, "writing"))
      BY <1>1, <3>3
    <3>. QED BY <3>1, <3>2, <3>3
  <2>. QED BY <1>1, <2>1, <2>2, <2>3, HashFrame
<1>4. CASE g = h
  <2>1. Busy(h) = {r}
    BY <1>1, <1>4
  <2>2. \A q \in Requests \ {r} : request[q].at \in {"idle", "loaded"} \/ request[q].hash # h
    BY <2>1 DEF Busy
  <2>3. /\ \A q \in Requests : ~Storing(q, h)
        /\ \A q \in Requests \ {r} : ~Marking(q, h)
        /\ Marking(r, h)
    BY <1>1, <2>2 DEF Storing, Marking
  <2>4. \A q \in Requests \ {r} : request'[q] = request[q]
    BY <1>1, <2>1
  <2>5. \A q \in Requests : ~Storing(q, h)' /\ ~Marking(q, h)'
    BY <1>2, <2>3, <2>4 DEF Storing, Marking
  <2>6. folder[h] \in Folder /\ folder[h].exists
    BY <1>4, <2>3 DEF BinaryShape, HashInv, ExistsForSomebody
  <2>7. linked[o] # h
    BY <1>1, <1>4 DEF HashInv, CleanedIsUnlinked
  <2>8. \A x \in Objects : x \in folder[h].markers <=> linked[x] = h \/ x = o
    BY <1>4, <2>3 DEF HashInv, MarkersFit
  <2>9. last <=> folder[h].markers = {o}
    BY <1>4, <2>3, <2>6, <2>8, LastUseIsCounted
  <2>10. folder[h].markers \subseteq Objects
    BY <2>6 DEF Folder
  <2>11. last <=> \A x \in Objects : linked[x] # h
    BY <2>7, <2>8, <2>9, <2>10
  <2>12. folder'[h] = IF last THEN Missing ELSE [folder[h] EXCEPT !.markers = @ \ {o}]
    BY <1>1 DEF BinaryShape
  <2>13. /\ folder'[h].markers = IF last THEN {} ELSE folder[h].markers \ {o}
         /\ folder'[h].redirects = {}
         /\ folder'[h].exists <=> ~last
         /\ folder'[h].exists => folder'[h].data = "full" /\ folder'[h].challenge
    <3>1. folder[h].data = "full" /\ folder[h].challenge /\ folder[h].redirects = {}
      BY <1>4, <2>3, <2>6 DEF HashInv, ContentIsWritten
    <3>2. CASE last
      BY <2>12, <3>2 DEF Missing
    <3>3. CASE ~last
      BY <2>6, <2>12, <3>1, <3>3 DEF Folder
    <3>. QED BY <3>2, <3>3
  <2>14. MarkersFit(h)'
    BY <1>1, <2>5, <2>7, <2>8, <2>11, <2>13 DEF MarkersFit
  <2>15. ExistsForSomebody(h)'
    BY <1>1, <2>5, <2>11, <2>13 DEF ExistsForSomebody
  <2>16. ContentIsWritten(h)'
    BY <2>13 DEF ContentIsWritten
  <2>17. OneWriter(h)'
    BY <2>5 DEF OneWriter
  <2>18. \A q \in Requests : request'[q].at = "orphaned" => request'[q].hash # h
    BY <1>2, <1>4, <2>4 DEF HashInv
  <2>19. CleanedIsUnlinked(h)'
    BY <1>2, <2>2, <2>4 DEF CleanedIsUnlinked
  <2>. QED BY <1>4, <2>13, <2>14, <2>15, <2>16, <2>17, <2>18, <2>19 DEF HashInv
<1>. QED BY <1>3, <1>4

\* A rejected patch leaves no deletion behind, a rejected event disturbs its content.
LEMMA DeletionRejectsKeeps ==
  ASSUME BinaryShape, NEW r \in Requests, UnlinkRejects(r) \/ DeleteEventRejects(r),
         NEW g \in Hashes \ disturbed', HashInv(g)
  PROVE  HashInv(g)'
<1>1. /\ request[r].at \in {"unlinking", "cleaning"} /\ Done(r)
      /\ folder' = folder /\ linked' = linked
      /\ request[r].at = "cleaning" => g # request[r].hash
  BY DEF UnlinkRejects, DeleteEventRejects, RequestAt
<1>2. /\ request'[r].at = "idle"
      /\ \A q \in Requests \ {r} : request'[q] = request[q]
  BY <1>1, RequestMoves
<1>3. ~Touching(r, g) /\ ~Touching(r, g)'
  BY <1>1, <1>2 DEF Touching
<1>. QED BY <1>1, <1>2, <1>3, OnlyOneRequestMoves

\* Undisturbed, the object had that content before: its marker is not one too many.
LEMMA LinkRejectsKeeps ==
  ASSUME BinaryShape, NEW r \in Requests, LinkRejects(r), NEW g \in Hashes \ disturbed', HashInv(g)
  PROVE  HashInv(g)'
<1>. PICK h \in Hashes : h = request[r].hash
  BY ActiveRequest DEF LinkRejects, RequestAt
<1>. PICK o \in Objects : o = request[r].object
  BY ActiveRequest DEF LinkRejects, RequestAt
<1>1. /\ request[r].at = "linking" /\ Done(r)
      /\ folder' = folder /\ linked' = linked
      /\ disturbed' = disturbed \union ({h} \ {linked[o]})
  BY DEF LinkRejects, RequestAt
<1>2. /\ request'[r].at = "idle"
      /\ \A q \in Requests \ {r} : request'[q] = request[q]
  BY <1>1, RequestMoves
<1>3. CASE g # h
  BY <1>1, <1>2, <1>3, OnlyOneHashMoves
<1>4. CASE g = h
  <2>1. linked[o] = h
    BY <1>1, <1>4
  <2>2. \A q \in Requests : Storing(q, h)' <=> Storing(q, h)
    BY <1>1, <1>2 DEF Storing
  <2>3. \A q \in Requests \ {r} : Marking(q, h)' <=> Marking(q, h)
    BY <1>2 DEF Marking
  <2>4. ~Marking(r, h)'
    BY <1>2 DEF Marking
  <2>5. MarkersFit(h)'
    BY <1>1, <1>2, <1>4, <2>1, <2>3, <2>4 DEF HashInv, MarkersFit
  <2>6. ExistsForSomebody(h)'
    BY <1>1, <1>4, <2>1 DEF HashInv, ExistsForSomebody
  <2>7. ContentIsWritten(h)' /\ OneWriter(h)'
    BY <1>1, <1>4, <2>2 DEF HashInv, ContentIsWritten, OneWriter
  <2>8. \A q \in Requests : request'[q].at = "orphaned" => request'[q].hash # h
    BY <1>2, <1>4 DEF HashInv
  <2>9. CleanedIsUnlinked(h)'
    BY <1>1, <1>2, <1>4 DEF HashInv, CleanedIsUnlinked
  <2>10. folder'[h].redirects = {}
    BY <1>1, <1>4 DEF HashInv
  <2>. QED BY <1>4, <2>5, <2>6, <2>7, <2>8, <2>9, <2>10 DEF HashInv
<1>. QED BY <1>3, <1>4

LEMMA RedirectRejectsKeeps ==
  ASSUME BinaryShape, NEW r \in Requests, RedirectRejects(r),
         NEW g \in Hashes \ disturbed', HashInv(g)
  PROVE  HashInv(g)'
<1>. PICK h \in Hashes : h = request[r].hash
  BY ActiveRequest DEF RedirectRejects, RequestAt
<1>. PICK o \in Objects : o = request[r].object
  BY ActiveRequest DEF RedirectRejects, RequestAt
<1>1. /\ request[r].at = "redirecting" /\ Done(r) /\ folder' = folder
      /\ \/ UNCHANGED <<linked, disturbed>>
         \/ /\ linked' = [linked EXCEPT ![o] = h]
            /\ disturbed' = disturbed \union ({h, linked[o]} \ {NoHash})
  BY DEF RedirectRejects, RequestAt
<1>2. /\ request'[r].at = "idle"
      /\ \A q \in Requests \ {r} : request'[q] = request[q]
  BY <1>1, RequestMoves
<1>3. ~Touching(r, g) /\ ~Touching(r, g)'
  BY <1>1, <1>2 DEF Touching
<1>4. \A x \in Objects : linked'[x] = g <=> linked[x] = g
  BY <1>1, FileBinaryAssumption DEF BinaryShape
<1>. QED BY <1>1, <1>2, <1>3, <1>4, OnlyOneRequestMoves

LEMMA ServerCrashKeeps ==
  ASSUME BinaryShape, ServerCrash, NEW g \in Hashes \ disturbed', HashInv(g)
  PROVE  HashInv(g)'
<1>1. /\ folder' = folder /\ linked' = linked
      /\ request' = [r \in Requests |-> NoRequest]
      /\ Busy(g) = {}
  BY DEF ServerCrash
<1>2. \A q \in Requests : ~Touching(q, g) /\ ~Touching(q, g)'
  BY <1>1 DEF Touching, Busy, NoRequest
<1>. QED BY <1>1, <1>2, HashFrame

LEMMA BinaryInvStep ==
  ASSUME BinaryShape, BinaryInv, BinaryNext
  PROVE  BinaryInv'
<1>1. disturbed \subseteq disturbed'
  <2>1. CASE ServerCrash \/ \E h \in Hashes : Upload(h)
    BY <2>1 DEF ServerCrash, Upload
  <2>2. ASSUME NEW r \in Requests, NEW o \in Objects, NEW h \in Hashes,
               StoreKnown(r, o, h) \/ StoreNew(r, o, h) \/ PutRedirectUrl(r, o, h)
        PROVE  disturbed \subseteq disturbed'
    BY <2>2 DEF StoreKnown, StoreNew, PutRedirectUrl
  <2>3. ASSUME NEW r \in Requests, NEW o \in Objects, Load(r, o)
        PROVE  disturbed \subseteq disturbed'
    BY <2>3 DEF Load
  <2>4. ASSUME NEW r \in Requests,
               \/ OpenData(r) \/ FinishData(r) \/ WriteFails(r)
               \/ Link(r) \/ LinkRejects(r) \/ RedirectMarks(r) \/ RedirectRejects(r)
        PROVE  disturbed \subseteq disturbed'
    BY <2>4 DEF OpenData, FinishData, WriteFails, Link, LinkRejects, RedirectMarks, RedirectRejects
  <2>5. ASSUME NEW r \in Requests,
               \/ DeleteBinary(r) \/ Unlink(r) \/ UnlinkRejects(r)
               \/ DeleteEventRejects(r) \/ Clean(r)
        PROVE  disturbed \subseteq disturbed'
    BY <2>5 DEF DeleteBinary, Unlink, UnlinkRejects, DeleteEventRejects, Clean
  <2>. QED BY <2>1, <2>2, <2>3, <2>4, <2>5 DEF BinaryNext
<1>. SUFFICES ASSUME NEW g \in Hashes \ disturbed'
              PROVE  HashInv(g)'
  BY DEF BinaryInv
<1>2. HashInv(g)
  BY <1>1 DEF BinaryInv
<1>3. ASSUME NEW r \in Requests, NEW o \in Objects, NEW h \in Hashes,
             StoreKnown(r, o, h) \/ StoreNew(r, o, h)
      PROVE  HashInv(g)'
  BY <1>2, <1>3, StoreKnownKeeps, StoreNewKeeps
<1>4. ASSUME NEW r \in Requests, OpenData(r) \/ FinishData(r)
      PROVE  HashInv(g)'
  BY <1>2, <1>4, OpenDataKeeps, FinishDataKeeps
<1>5. ASSUME NEW r \in Requests, WriteFails(r) \/ Link(r)
      PROVE  HashInv(g)'
  BY <1>2, <1>5, WriteFailsKeeps, LinkKeeps
<1>6. ASSUME NEW r \in Requests, Unlink(r) \/ Clean(r)
      PROVE  HashInv(g)'
  BY <1>2, <1>6, UnlinkKeeps, CleanKeeps
<1>7. ASSUME NEW r \in Requests,
             \/ \E o \in Objects, h \in Hashes : PutRedirectUrl(r, o, h)
             \/ \E o \in Objects : Load(r, o)
             \/ DeleteBinary(r) \/ RedirectMarks(r)
      PROVE  HashInv(g)'
  BY <1>2, <1>7, RedirectionsKeep
<1>8. ASSUME NEW h \in Hashes, Upload(h)
      PROVE  HashInv(g)'
  <2>1. /\ g # h
        /\ request' = request /\ linked' = linked
    BY <1>2, <1>8 DEF Upload, HashInv
  <2>2. folder'[g] = folder[g]
    BY <1>8, <2>1 DEF Upload, BinaryShape
  <2>3. \A q \in Requests : Touching(q, g) => request[q].object \in Objects
    BY ActiveRequest DEF Touching
  <2>. QED BY <1>2, <2>1, <2>2, <2>3, HashFrame
<1>9. ASSUME ServerCrash PROVE HashInv(g)'
  BY <1>2, <1>9, ServerCrashKeeps
<1>10. ASSUME NEW r \in Requests, UnlinkRejects(r) \/ DeleteEventRejects(r)
       PROVE  HashInv(g)'
  BY <1>2, <1>10, DeletionRejectsKeeps
<1>11. ASSUME NEW r \in Requests, LinkRejects(r) \/ RedirectRejects(r)
       PROVE  HashInv(g)'
  BY <1>2, <1>11, LinkRejectsKeeps, RedirectRejectsKeeps
<1>. QED BY <1>3, <1>4, <1>5, <1>6, <1>7, <1>8, <1>9, <1>10, <1>11 DEF BinaryNext

LEMMA BinaryInvariance == BinarySpec => [](BinaryShape /\ BinaryInv)
<1>1. BinaryInit => BinaryShape /\ BinaryInv
  <2>. SUFFICES ASSUME BinaryInit PROVE BinaryShape /\ BinaryInv
    OBVIOUS
  <2>1. BinaryShape
    BY FileBinaryAssumption, MissingIsAFolder DEF BinaryInit, BinaryShape, BinaryRequest
  <2>2. ASSUME NEW h \in Hashes  PROVE HashInv(h)
    <3>1. \A q \in Requests : /\ ~Storing(q, h) /\ ~Marking(q, h)
                              /\ request[q].at = "idle"
      BY DEF BinaryInit, Storing, Marking, NoRequest
    <3>2. /\ folder[h].markers = {} /\ folder[h].redirects = {} /\ ~folder[h].exists
          /\ \A x \in Objects : linked[x] # h
      BY FileBinaryAssumption DEF BinaryInit, Missing
    <3>. QED BY <3>1, <3>2 DEF HashInv, MarkersFit, ExistsForSomebody, ContentIsWritten,
                               OneWriter, CleanedIsUnlinked
  <2>. QED BY <2>1, <2>2 DEF BinaryInv
<1>2. BinaryShape /\ BinaryInv /\ [BinaryNext]_binaryVars => (BinaryShape /\ BinaryInv)'
  <2>1. CASE BinaryNext
    BY <2>1, BinaryShapeStep, BinaryInvStep
  <2>2. CASE UNCHANGED binaryVars
    BY <2>2 DEF binaryVars, BinaryShape, BinaryInv, HashInv, MarkersFit, ExistsForSomebody,
       ContentIsWritten, OneWriter, CleanedIsUnlinked, Storing, Marking
  <2>. QED BY <2>1, <2>2
<1>. QED BY <1>1, <1>2, PTL DEF BinarySpec

\* The folders of the contents, the objects and the requests keep their types,
\* and a folder that does not exist holds nothing.
THEOREM BinaryTypeCorrect == BinarySpec => []BinaryTypeOK
<1>1. BinaryShape => BinaryTypeOK
  BY DEF BinaryShape, BinaryTypeOK, BinaryRequest
<1>. QED BY <1>1, BinaryInvariance, PTL

\* store(), delete() and the events around them keep a content exactly as long
\* as some object uses it, but for the eight exceptions, for any number of
\* objects, contents and concurrent requests.
THEOREM ContentsAreStoredWhileUsed == BinarySpec => []StoredWhileUsed
<1>1. BinaryShape /\ BinaryInv => StoredWhileUsed
  <2>. SUFFICES ASSUME BinaryShape, BinaryInv, NEW h \in Hashes \ disturbed, Busy(h) = {}
                PROVE  /\ folder[h].exists <=> Users(h) # {}
                       /\ folder[h].markers = Users(h)
                       /\ Users(h) # {} => folder[h].data = "full"
    BY DEF StoredWhileUsed
  <2>1. HashInv(h)
    BY DEF BinaryInv
  <2>2. \A q \in Requests : ~Storing(q, h) /\ ~Marking(q, h)
    BY DEF Busy, Storing, Marking
  <2>3. folder[h].exists <=> Users(h) # {}
    BY <2>1, <2>2 DEF HashInv, ExistsForSomebody, Users
  <2>4. folder[h].markers \subseteq Objects
    BY DEF BinaryShape, Folder
  <2>5. folder[h].markers = Users(h)
    BY <2>1, <2>2, <2>4 DEF HashInv, MarkersFit, Users
  <2>6. folder[h].exists => folder[h].data = "full"
    BY <2>1, <2>2 DEF HashInv, ContentIsWritten
  <2>. QED BY <2>3, <2>5, <2>6
<1>. QED BY <1>1, BinaryInvariance, PTL
=============================================================================
