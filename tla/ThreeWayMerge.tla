--------------------------- MODULE ThreeWayMerge ---------------------------
(***************************************************************************)
(* merge3 and resolve of @webda/versioning (packages/versioning/src): the  *)
(* merge of two documents that evolved from a common base, and the         *)
(* resolution of its conflicts one after the other.                        *)
(*                                                                         *)
(* A document is the set of its facts: a path and the scalar, object or    *)
(* array that is there, and for an array also which element is before      *)
(* which; elements have an identity (arrayId).  Values compared by         *)
(* deepEqual are compared as such sets; an absent value is the empty set,  *)
(* and a key that is set to undefined is a fact of its own.  Strings of    *)
(* the "replace" strategy and other arrays are treated as scalars by the   *)
(* code, and here.  The line strategy is that of an external diff3 and is  *)
(* left out.  Identities are not numbers: as segments of a path they are   *)
(* not indexes of the array.                                               *)
(***************************************************************************)
EXTENDS Integers, Sequences, SequencesExt, FiniteSets

CONSTANTS
  Names,       \* of fields, and identities of elements
  Documents    \* sets of documents, from which base, ours and theirs are taken

VARIABLES base, ours, theirs,
  merged,      \* MergeResult.merged
  conflicts,   \* MergeResult.conflicts
  merging,     \* "no", "merged" or "thrown"
  chosen       \* history: the value each resolved path was given

mergeVars == <<base, ours, theirs, merged, conflicts, merging, chosen>>

Scalar(s) == [kind |-> "scalar", value |-> s]
Object == [kind |-> "object"]
Array == [kind |-> "array"]
UndefinedField == [kind |-> "undefined"]
Before(x, y) == [kind |-> "before", first |-> x, second |-> y]

Content(value) == {f \in value : f[2].kind \notin {"before", "undefined"}}

\* The fields of an object, or the identities of an array's elements
Parts(value, path) == {name \in Names : \E f \in Content(value) : f[1] = Append(path, name)}

\* One thing at a path, and what it is in is an object or an array; the elements of
\* an array are in a total order.
IsDocument(d) ==
  /\ \A f \in d : f = <<f[1], f[2]>> /\ f[1] \in Seq(Names)
  /\ \A f \in d : \A n \in 0..(Len(f[1]) - 1) :
       \E container \in {Object, Array} : <<SubSeq(f[1], 1, n), container>> \in d
  /\ \A f, g \in Content(d) : f[1] = g[1] => f = g
  /\ \A f \in d \ Content(d) :
       /\ <<f[1], Array>> \in d
       /\ \E x, y \in Parts(d, f[1]) : f[2] = Before(x, y)
  /\ \A f \in d : f[2] = Array =>
       LET precedes(x, y) == <<f[1], Before(x, y)>> \in d
       IN \A x, y \in Parts(d, f[1]) :
            /\ ~precedes(x, x) /\ (x # y => precedes(x, y) \/ precedes(y, x))
            /\ \A z \in Parts(d, f[1]) : precedes(x, y) /\ precedes(y, z) => precedes(x, z)

ASSUME MergeAssumption == \A docs \in Documents : \A d \in docs : IsDocument(d)

MergeInit ==
  /\ \E docs \in Documents : base \in docs /\ ours \in docs /\ theirs \in docs
  /\ merged = {} /\ conflicts = {} /\ merging = "no" /\ chosen = {}

MergeTypeOK ==
  /\ merging \in {"no", "merged", "thrown"}
  /\ merging = "thrown" => conflicts # {}
  /\ \A c, d \in conflicts : IsPrefix(c.path, d.path) => c = d
  /\ \A r \in chosen : r.lost \in BOOLEAN

-----------------------------------------------------------------------------
(* merge3 *)

\* The value at a path
At(value, path) == {f \in value : IsPrefix(path, f[1])}

Three(path) ==
  [path |-> path, base |-> At(base, path), ours |-> At(ours, path), theirs |-> At(theirs, path)]

\* Both sides changed the value, differently.
Differ(c) == c.ours # c.base /\ c.theirs # c.base /\ c.ours # c.theirs

\* mergeAt goes on inside three objects, or three arrays.
Descends(path) ==
  /\ Differ(Three(path))
  /\ \E container \in {Object, Array} :
       \A value \in {base, ours, theirs} : <<path, container>> \in value

\* The paths at which mergeAt is called, or that the loops over fields and elements
\* settle without it; at the leaves of that recursion it returns one of the three.
Visited ==
  {path \in {f[1] : f \in base \union ours \union theirs} :
     \A n \in 0..(Len(path) - 1) : Descends(SubSeq(path, 1, n))}

Leaves == {path \in Visited : ~Descends(path)}

\* Mutant: what one side has deleted and the other left unchanged is kept
OutcomeKeeping(c) ==
  IF c.ours = {} \/ (c.ours = c.base /\ c.theirs # {}) THEN c.theirs ELSE c.ours

\* The side that changed; in a conflict ours, unless ours is deleted (delete-modify).
Outcome(c) ==
  IF c.ours = c.base \/ (Differ(c) /\ c.ours = {}) THEN c.theirs ELSE c.ours

\* What there is in the merged document, but for the order of the arrays merged
MergedContent ==
  (UNION {Outcome(Three(path)) : path \in Leaves})
  \union {f \in Content(base) : f[1] \in Visited \ Leaves}

\* The elements of ours come first, in their order, then those that only theirs has.
ComesFirst(path, x, y) ==
  LET ofOurs == Parts(ours, path)
  IN \/ <<path, Before(x, y)>> \in ours
     \/ x \in ofOurs /\ y \notin ofOurs
     \/ x \notin ofOurs /\ y \notin ofOurs /\ <<path, Before(x, y)>> \in theirs

OrderOf(path) ==
  LET kept == Parts(MergedContent, path)
  IN {<<path, Before(p[1], p[2])>> : p \in {q \in kept \X kept : ComesFirst(path, q[1], q[2])}}

MergedOrder == UNION {OrderOf(path) : path \in {p \in Visited \ Leaves : <<p, Array>> \in base}}

\* A field that one side has deleted and the other left unchanged is set to undefined.
DeletedFields ==
  {<<path, UndefinedField>> : path \in {p \in Leaves :
     /\ Outcome(Three(p)) = {} /\ At(ours \union theirs, p) # {}
     /\ <<Front(p), Object>> \in base}}

MergedDocument == MergedContent \union MergedOrder \union DeletedFields

Merge3 ==
  /\ merging = "no"
  /\ merged' = MergedDocument
  /\ conflicts' = {c \in {Three(path) : path \in Leaves} : Differ(c)}
  /\ merging' = "merged"
  /\ UNCHANGED <<base, ours, theirs, chosen>>

-----------------------------------------------------------------------------
(* resolve *)

\* The path crosses an array, at least `far` segments before its end.
CrossesArray(path, far) ==
  \E n \in 0..(Len(path) - far) : <<SubSeq(path, 1, n), Array>> \in merged

\* The value that a side has, undefined if it has none
ValueOf(c, side) == IF c[side] = {} THEN {<<c.path, UndefinedField>>} ELSE c[side]

\* resolve with the resolution of one conflict, or with those of all in turn.
\* In an array, setAtPointer adds a property that is no element, and throws when
\* the path enters an element, which cursor[identity] is not.
Resolve(c, side) ==
  /\ merging = "merged" /\ c \in conflicts
  /\ IF CrossesArray(c.path, 2)
     THEN merging' = "thrown" /\ UNCHANGED <<merged, conflicts, chosen>>
     ELSE /\ merged' = IF CrossesArray(c.path, 1) THEN merged
                       ELSE (merged \ At(merged, c.path)) \union ValueOf(c, side)
          /\ conflicts' = conflicts \ {c}
          /\ chosen' = chosen \union {[path |-> c.path, value |-> ValueOf(c, side),
                                       lost |-> CrossesArray(c.path, 1)]}
          /\ UNCHANGED merging
  /\ UNCHANGED <<base, ours, theirs>>

MergeNext ==
  \/ Merge3
  \/ \E c \in conflicts, side \in {"ours", "theirs", "base"} : Resolve(c, side)

MergeSpec == MergeInit /\ [][MergeNext]_mergeVars

-----------------------------------------------------------------------------
(* The reference, which does not follow the structure of the documents *)

Outside(facts, paths) == {f \in facts : ~\E p \in paths : IsPrefix(p, f[1])}

Disputed == {c.path : c \in conflicts} \union {r.path : r \in chosen}

\* One side has deleted what the other has left as it was.
DeletedByOne(path) ==
  /\ At(base, path) # {}
  /\ {At(ours, path), At(theirs, path)} = {{}, At(base, path)}

\* Outside of the conflicts the merged document has the facts that both sides
\* kept and those that either added, a field is set to undefined only if one side
\* deleted it, and two elements that are in the same order on both sides are merged
\* in that order.  A conflict that is resolved has the value chosen for it, except
\* in an array with identities, where resolve() leaves the element as it was.
MergedAsReference ==
  merging = "merged" =>
    LET b == Content(base)
        o == Content(ours)
        t == Content(theirs)
        expected == (o \intersect t) \union (o \ b) \union (t \ b)
    IN /\ Outside(Content(merged), Disputed) = Outside(expected, Disputed)
       /\ \A f \in Outside(merged, Disputed) : f[2] = UndefinedField => DeletedByOne(f[1])
       /\ \A f \in Outside(ours \intersect theirs, Disputed) :
            f[2].kind = "before" /\ {f[2].first, f[2].second} \subseteq Parts(merged, f[1])
            => f \in merged
       /\ \A r \in chosen : ~r.lost => At(merged, r.path) = r.value
=============================================================================
