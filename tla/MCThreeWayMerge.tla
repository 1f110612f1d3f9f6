-------------------------- MODULE MCThreeWayMerge --------------------------
(* The documents that merges are explored with, and the merge of the same  *)
(* documents with the two sides swapped                                    *)
EXTENDS ThreeWayMerge, TLC

\* The facts of a value that has the parts of `values`, a function of their names
Containing(container, values) ==
  {<<<<>>, container>>}
  \union UNION {{<<<<name>> \o f[1], f[2]>> : f \in values[name]} : name \in DOMAIN values}

ObjectOf(fields) == Containing(Object, fields)
ArrayOf(ids, items) ==
  Containing(Array, items)
  \union UNION {{<<<<>>, Before(ids[i], ids[j])>> : j \in (i + 1)..Len(ids)} : i \in DOMAIN ids}

\* Documents of two fields, one of which may be an object; and documents of one
\* array with up to two elements, in any order.
Optional(name, values) == {<<>>} \union {name :> v : v \in values}
Scalars == {{<<<<>>, Scalar(s)>>} : s \in {"0", "1"}}
Objects == {ObjectOf(f) : f \in Optional("x", Scalars)}
Arrays ==
  UNION {{ArrayOf(ids, items) : items \in [ToSet(ids) -> {ObjectOf("x" :> s) : s \in Scalars}]} :
           ids \in {<<>>, <<"i">>, <<"j">>, <<"i", "j">>, <<"j", "i">>}}

DocumentsOf ==
  {{ObjectOf(f @@ g) : f \in Optional("a", Scalars),
                       g \in Optional("o", Objects \union {{<<<<>>, Scalar("0")>>}})},
   {ObjectOf(f) : f \in Optional("items", Arrays)}}

Swapped == INSTANCE ThreeWayMerge WITH ours <- theirs, theirs <- ours

\* "Symmetry: merge3(base, ours, theirs).merged = merge3(base, theirs, ours).merged
\* when clean": a merge without conflicts does not depend on the sides' names.
CleanMergesAreSymmetric ==
  merging = "merged" /\ conflicts = {} /\ chosen = {} => merged = Swapped!MergedDocument
=============================================================================
