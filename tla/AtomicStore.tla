---------------------------- MODULE AtomicStore ----------------------------
(***************************************************************************)
(* What the interface of a repository promises                             *)
(* (packages/models/src/repositories/repository.ts): every operation is    *)
(* one step on the stored items, conditional ones (optimistic locking),    *)
(* the "atomic operations" and those on collections included.              *)
(*                                                                         *)
(* An item is reduced to three attributes: `rev` is the one conditions are *)
(* about, `count` is incremented, `list` is a collection, of which each    *)
(* element is reduced to the field that conditions on it are about.        *)
(***************************************************************************)
EXTENDS Naturals, Sequences, SequencesExt

CONSTANTS Keys, Absent, MaxNumber, MaxLength

VARIABLE items

Numbers == 0..MaxNumber

Collections == {list \in Seq(Numbers) : Len(list) <= MaxLength}

Item == [rev : Numbers, count : Numbers, list : Collections]

NoCondition == MaxNumber + 1

Conditions == Numbers \union {NoCondition}

\* The operations that read an item and write it back.  upsertItemToCollection
\* pushes an element, or replaces the one at an index of the collection.
Operations ==
  [kind : {"update", "patch", "increment", "remove", "push"}, expects : Conditions]
  \union [kind : {"replace", "splice"}, expects : Conditions, index : 0..(MaxLength - 1)]

OnElement(op) == op.kind \in {"push", "replace", "splice"}

\* There is an element for the index of the operation
Finds(op, list) == op.kind # "push" /\ op.index < Len(list)

\* The condition of an operation on a collection is about the element at its index
Holds(op, item) ==
  \/ op.expects = NoCondition
  \/ ~OnElement(op) /\ op.expects = item.rev
  \/ OnElement(op) /\ Finds(op, item.list) /\ op.expects = item.list[op.index + 1]

\* A conditional write moves the field on; data given without condition says 0
MovedOn(op, number) == IF op.expects = NoCondition THEN number ELSE op.expects + 1

\* What the operation makes of the collection
Changed(op, list) ==
  CASE op.kind = "push" -> Append(list, 0)
    [] op.kind = "replace" /\ Finds(op, list) -> [list EXCEPT ![op.index + 1] = MovedOn(op, 0)]
    [] op.kind = "replace" /\ ~Finds(op, list) -> Append(list, MovedOn(op, 0))
    [] op.kind = "splice" /\ Finds(op, list) -> RemoveAt(list, op.index + 1)
    [] op.kind = "splice" /\ ~Finds(op, list) -> list

\* What the operation makes of the item; "remove" removes the counter
Result(op, item) ==
  CASE op.kind = "update" -> [rev |-> MovedOn(op, 0), count |-> 0, list |-> <<>>]
    [] op.kind = "patch" -> [item EXCEPT !.rev = MovedOn(op, item.rev)]
    [] op.kind = "increment" -> [item EXCEPT !.count = @ + 1]
    [] op.kind = "remove" -> [item EXCEPT !.count = 0]
    [] OnElement(op) -> [item EXCEPT !.list = Changed(op, item.list)]

NewItem == [rev |-> 0, count |-> 0, list |-> <<>>]

Init == items = [k \in Keys |-> Absent]

Create(k) == items[k] = Absent /\ items' = [items EXCEPT ![k] = NewItem]

\* The condition of a deletion
Deletable(item, expects) == item # Absent => expects \in {item.rev, NoCondition}

Delete(k, expects) ==
  /\ Deletable(items[k], expects)
  /\ items' = [items EXCEPT ![k] = Absent]

Apply(k, op) ==
  /\ items[k] # Absent /\ Holds(op, items[k])
  /\ items' = [items EXCEPT ![k] = Result(op, items[k])]

Next ==
  \E k \in Keys :
    \/ Create(k)
    \/ \E expects \in Conditions : Delete(k, expects)
    \/ \E op \in Operations : Apply(k, op)

Spec == Init /\ [][Next]_items
=============================================================================
