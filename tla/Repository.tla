----------------------------- MODULE Repository -----------------------------
(***************************************************************************)
(* MemoryRepository (packages/models/src/repositories/memory.ts) and the   *)
(* upsert of AbstractRepository: asynchronous callers over one Map.        *)
(*                                                                         *)
(* An operation that changes an item awaits get(), which hands it a copy,  *)
(* and then checks its condition, or does not, and writes the whole copy   *)
(* back; other callers come in at the await.  Item, Operations, Holds and  *)
(* Result are those of AtomicStore, applied to the copy.  iterate() reads  *)
(* page after page, each over the keys present when the page begins.       *)
(***************************************************************************)
EXTENDS Naturals, Sequences, SequencesExt, FiniteSets

CONSTANTS
  Keys,
  Absent,     \* the value of a key that is not in the Map
  Callers,
  PageSize,   \* the limit of the query that iterate() pages through
  MaxNumber,  \* bound: the largest number in an item
  MaxLength,  \* bound: the elements of a collection
  MaxCalls    \* bound: calls of the repository

ASSUME RepositoryAssumption ==
  /\ IsFiniteSet(Keys) /\ Absent \notin [rev : Nat, count : Nat, list : Seq(Nat)]
  /\ PageSize \in Nat \ {0}
  /\ MaxCalls \in Nat /\ MaxNumber \in Nat /\ MaxLength \in Nat

VARIABLES
  storage,    \* the Map: key to item
  order,      \* its keys in the order of insertion
  call,       \* what each caller is doing
  calls       \* calls so far

repositoryVars == <<storage, order, call, calls>>

Store == INSTANCE AtomicStore WITH items <- storage

NoCall == [at |-> "idle"]

\* No call either: the last one succeeded against its condition (history)
IgnoredCondition == [at |-> "ignored"]

\* A read-modify-write after its get(); stale: the item changed since (history)
Writing == [at : {"writing"}, key : Keys, op : Store!Operations, copy : Store!Item,
            stale : BOOLEAN]

Upserting == [at : {"upserting"}, key : Keys, found : BOOLEAN]

\* kept: the keys present since iterate() began; deleted: one was deleted (history)
Iterating == [at : {"iterating", "iterated"}, page : Seq(Keys), offset : Nat, room : 0..PageSize,
              yielded : Seq(Keys), kept : SUBSET Keys, deleted : BOOLEAN]

RepositoryTypeOK ==
  /\ storage \in [Keys -> Store!Item \union {Absent}]
  /\ order \in Seq(Keys) /\ IsInjective(order)
  /\ ToSet(order) = {k \in Keys : storage[k] # Absent}
  /\ DOMAIN call = Callers
  /\ \A c \in Callers :
       call[c] \in {NoCall, IgnoredCondition} \union Writing \union Upserting \union Iterating
  /\ calls \in 0..MaxCalls

RepositoryInit ==
  /\ storage = [k \in Keys |-> Absent]
  /\ order = <<>>
  /\ call = [c \in Callers |-> NoCall]
  /\ calls = 0

----------------------------------------------------------------------------
Free(c) == call[c].at \in {"idle", "ignored", "iterated"}

Calls(c) == Free(c) /\ calls < MaxCalls /\ calls' = calls + 1

\* What the others have to remember of a change of key k
Noticed(other, k, gone) ==
  CASE other.at = "writing" /\ other.key = k -> [other EXCEPT !.stale = TRUE]
    [] other.at = "iterating" /\ gone ->
         [other EXCEPT !.kept = @ \ {k}, !.deleted = TRUE]
    [] OTHER -> other

CallsAfter(c, state, k, gone) ==
  [d \in Callers |-> IF d = c THEN state ELSE Noticed(call[d], k, gone)]

\* A caller whose call has changed the Map, its condition holding or not
Succeeds(holds) == IF holds THEN NoCall ELSE IgnoredCondition

Ends(c) == call' = [call EXCEPT ![c] = NoCall]

\* The keys of the Map without k
Without(k) ==
  IF storage[k] = Absent THEN order ELSE RemoveAt(order, CHOOSE i \in DOMAIN order : order[i] = k)

\* Mutant: the key is deleted and inserted again
SetsMovingToEnd(c, k, item, holds) ==
  /\ storage' = [storage EXCEPT ![k] = item]
  /\ order' = Append(Without(k), k)
  /\ call' = CallsAfter(c, Succeeds(holds), k, FALSE)

\* storage.set(): a new key goes to the end
Sets(c, k, item, holds) ==
  /\ storage' = [storage EXCEPT ![k] = item]
  /\ order' = IF storage[k] = Absent THEN Append(order, k) ELSE order
  /\ call' = CallsAfter(c, Succeeds(holds), k, FALSE)

Fails(c) == Ends(c) /\ UNCHANGED <<storage, order>>

Creates(c, k) ==
  IF storage[k] = Absent THEN Sets(c, k, Store!NewItem, TRUE) ELSE Fails(c)

\* await this.get(), in the same turn as the call
Reads(c, k, op) ==
  IF storage[k] = Absent
  THEN Fails(c)
  ELSE /\ call' = [call EXCEPT ![c] = [at |-> "writing", key |-> k, op |-> op,
                                       copy |-> storage[k], stale |-> FALSE]]
       /\ UNCHANGED <<storage, order>>

Create(c, k) == Calls(c) /\ Creates(c, k)

\* Mutant: the key stays in the order of the Map
DeleteKeepsOrder(c, k, expects) ==
  /\ Calls(c)
  /\ storage' = [storage EXCEPT ![k] = Absent]
  /\ call' = CallsAfter(c, Succeeds(Store!Deletable(storage[k], expects)), k, storage[k] # Absent)
  /\ UNCHANGED order

\* delete() ignores the condition it is given
Delete(c, k, expects) ==
  /\ Calls(c)
  /\ storage' = [storage EXCEPT ![k] = Absent]
  /\ order' = Without(k)
  /\ call' = CallsAfter(c, Succeeds(Store!Deletable(storage[k], expects)), k, storage[k] # Absent)

\* Bounds: of the numbers and of the collection; and an index is at most the length
\* of the collection (a replacement further on would leave holes)
Within(op, item) ==
  /\ op.kind \in {"update", "patch", "replace"} => op.expects # MaxNumber
  /\ op.kind = "increment" => item.count < MaxNumber
  /\ op.kind = "push" => Len(item.list) < MaxLength
  /\ op.kind = "replace" => op.index <= Len(item.list)

\* update, patch, setAttribute, incrementAttributes, upsertItemToCollection,
\* deleteItemFromCollection and removeAttribute up to their await
Begin(c, k, op) ==
  /\ Calls(c)
  /\ storage[k] # Absent => Within(op, storage[k])
  /\ Reads(c, k, op)

\* What the operation accepts: incrementAttributes and removeAttribute ignore their
\* condition, and checkItemWriteCondition takes 0 for none
Satisfied(op, item) ==
  \/ op.kind \in {"increment", "remove"}
  \/ Store!OnElement(op) /\ op.expects = 0
  \/ Store!Holds(op, item)

\* deleteItemFromCollection writes nothing if there is no such element
DeletesNothing(op, item) == op.kind = "splice" /\ ~Store!Finds(op, item.list)

\* Mutant: checkCondition is not called
FinishUnchecked(c) ==
  /\ call[c].at = "writing"
  /\ Sets(c, call[c].key, Store!Result(call[c].op, call[c].copy), TRUE)
  /\ UNCHANGED calls

\* The rest of them: the condition is checked on the copy
Finish(c) ==
  /\ call[c].at = "writing"
  /\ LET w == call[c]
     IN IF Satisfied(w.op, w.copy) /\ ~DeletesNothing(w.op, w.copy)
        THEN Sets(c, w.key, Store!Result(w.op, w.copy), Store!Holds(w.op, w.copy))
        ELSE Fails(c)
  /\ UNCHANGED calls

Upsert(c, k) ==
  /\ Calls(c)
  /\ call' = [call EXCEPT ![c] = [at |-> "upserting", key |-> k, found |-> storage[k] # Absent]]
  /\ UNCHANGED <<storage, order>>

AnyPatch == [kind |-> "patch", expects |-> Store!NoCondition]

UpsertGoesOn(c) ==
  /\ call[c].at = "upserting"
  /\ IF call[c].found THEN Reads(c, call[c].key, AnyPatch) ELSE Creates(c, call[c].key)
  /\ UNCHANGED calls

----------------------------------------------------------------------------
(* iterate(): query() of one page after the other *)

Iterate(c) ==
  /\ Calls(c)
  /\ call' = [call EXCEPT ![c] =
       [at |-> "iterating", page |-> order, offset |-> 0, room |-> PageSize, yielded |-> <<>>,
        kept |-> ToSet(order), deleted |-> FALSE]]
  /\ UNCHANGED <<storage, order>>

\* await repository.get() of the next key of the page
IterateReads(c) ==
  /\ call[c].at = "iterating"
  /\ LET i == call[c]
     IN /\ i.room > 0 /\ i.offset < Len(i.page)
        /\ LET k == i.page[i.offset + 1]
           IN IF storage[k] = Absent
              THEN Ends(c)
              ELSE call' = [call EXCEPT ![c] =
                     [i EXCEPT !.yielded = Append(@, k), !.offset = @ + 1, !.room = @ - 1]]
  /\ UNCHANGED <<storage, order, calls>>

\* A full page has a continuation token: the next one lists the keys again
IteratePages(c) ==
  /\ call[c].at = "iterating" /\ call[c].room = 0
  /\ call' = [call EXCEPT ![c].page = order, ![c].room = PageSize]
  /\ UNCHANGED <<storage, order, calls>>

IterateEnds(c) ==
  /\ call[c].at = "iterating" /\ call[c].room > 0 /\ call[c].offset >= Len(call[c].page)
  /\ call' = [call EXCEPT ![c].at = "iterated"]
  /\ UNCHANGED <<storage, order, calls>>

RepositoryNext ==
  \E c \in Callers :
    \/ \E k \in Keys : Create(c, k) \/ Upsert(c, k)
    \/ \E k \in Keys, expects \in Store!Conditions : Delete(c, k, expects)
    \/ \E k \in Keys, op \in Store!Operations : Begin(c, k, op)
    \/ Finish(c) \/ UpsertGoesOn(c)
    \/ Iterate(c) \/ IterateReads(c) \/ IteratePages(c) \/ IterateEnds(c)

RepositorySpec == RepositoryInit /\ [][RepositoryNext]_repositoryVars

----------------------------------------------------------------------------
StaleWrite ==
  \E c \in Callers :
    call[c].at = "writing" /\ call[c].stale /\ call'[c].at \in {"idle", "ignored"}

ConditionIgnored == \E c \in Callers : call[c].at = "writing" /\ call'[c].at = "ignored"

\* Every change of the Map is one atomic operation of the interface, condition
\* included, but for two exceptions.  A write based on a copy that another caller
\* has outdated since: the only way to lose an update, to win with a condition
\* that no longer holds or to bring a deleted item back.  And an operation that
\* does not look at the condition it is given, or takes 0 for no condition.
AtomicUnlessExcepted == [][Store!Next \/ StaleWrite \/ ConditionIgnored]_storage

\* iterate() yields every item that was there all along, once, unless an item
\* was deleted while it ran: a deletion moves the items behind it into a page
\* that has been read already.
IterationIsComplete ==
  \A c \in Callers :
    call[c].at = "iterated" /\ ~call[c].deleted
    => call[c].kept \subseteq ToSet(call[c].yielded) /\ IsInjective(call[c].yielded)

\* "Update operations with optimistic locking support": a conditional update
\* succeeds only if the condition holds for the item that it replaces.
OptimisticLocking ==
  [][\A c \in Callers :
       /\ call[c].at = "writing" /\ call'[c].at = "idle"
       /\ call[c].op.expects # Store!NoCondition /\ Store!Holds(call[c].op, call[c].copy)
       => storage[call[c].key] # Absent /\ Store!Holds(call[c].op, storage[call[c].key])]_repositoryVars

\* "@param conditionField - Field to check for condition", and the like for delete()
\* and for the elements of a collection: no operation succeeds although the
\* condition that it was given does not hold for the item that it has read.
ConditionsAreChecked == \A c \in Callers : call[c].at # "ignored"
=============================================================================
