---------------------------- MODULE MethodCache ----------------------------
(***************************************************************************)
(* The method cache of @webda/cache (packages/cache/src/cache.ts): the     *)
(* wrapper put around an asynchronous method, over the storage of one      *)
(* instance.  The wrapper stores the promise of the call it makes and      *)
(* replaces it by the result when the promise resolves; meanwhile entries  *)
(* are evicted, expire, are collected and cleared.                         *)
(*                                                                         *)
(* deleteCachedMethod takes a key that ends in "$" for a prefix: it drops  *)
(* the "$" and every entry that begins with the rest.  clearAll of "get"   *)
(* means "get$" and takes the entries of "getAll" along; so does whatever  *)
(* deletes the entry of a call without arguments, which is "get$" when     *)
(* hashStrategy is "simple".                                               *)
(*                                                                         *)
(* A cached value is named by the call that computed it.  The Map is the   *)
(* set of its entries, each with its place in the order of insertion.  An  *)
(* entry lives for Ttl ticks of the clock; MaxTime bounds the clock.       *)
(***************************************************************************)
EXTENDS Integers, FiniteSets

CONSTANTS
  Keys,      \* method keys: a method and its arguments
  Method,    \* the method of each key
  Begins,    \* for each method, the keys that begin with its name
  Swept,     \* for each key, those its deletion takes: itself, unless it ends in "$"
  Calls,     \* calls of the wrapped methods
  NoKey,     \* the key of a call that has not begun
  MaxSize,   \* bound: the largest maxSize
  Ttl,       \* the ttl option, 0 when it is not set
  MaxTime,   \* bound: ticks of the clock
  MaxClears  \* bound: clears of a key

ASSUME MethodCacheAssumption ==
  /\ IsFiniteSet(Keys) /\ DOMAIN Method = Keys
  /\ \A k \in Keys : k \in Begins[Method[k]] /\ k \in Swept[k]
  /\ NoKey \notin Keys
  /\ MaxSize \in Nat \ {0}
  /\ Ttl \in Nat /\ MaxTime \in Nat /\ MaxClears \in Nat

VARIABLES
  entries,   \* of the Map
  maxSize,   \* the maxSize option
  time,
  call,      \* what each call is doing
  called,    \* its key
  epoch,     \* history: clears of its key before it began
  source,    \* the call whose result it returned
  clears,    \* history: number of clears of each key
  swept,     \* history: keys whose entry was deleted in place of another one's
  late       \* history: calls of the key in progress at its last clear

cacheVars == <<entries, maxSize, time, call, called, epoch, source, clears, swept,
               late>>

Entries == [key : Keys, value : Calls, settled : BOOLEAN, at : 0..MaxTime, order : Nat]

CacheTypeOK ==
  /\ entries \subseteq Entries /\ Cardinality(entries) <= maxSize
  /\ \A e, f \in entries : e.key = f.key \/ e.order = f.order => e = f
  /\ maxSize \in 1..MaxSize
  /\ time \in 0..MaxTime
  /\ call \in [Calls -> {"new", "computing", "returned", "failed"}]
  /\ called \in [Calls -> Keys \union {NoKey}]
  /\ epoch \in [Calls -> Nat]
  /\ source \in [Calls -> Calls]
  /\ clears \in [Keys -> 0..MaxClears]
  /\ swept \subseteq Keys
  /\ late \in [Keys -> SUBSET Calls]

CacheInit ==
  /\ entries = {}
  /\ maxSize \in 1..MaxSize
  /\ time = 0
  /\ call = [c \in Calls |-> "new"]
  /\ called = [c \in Calls |-> NoKey]
  /\ epoch = [c \in Calls |-> 0]
  /\ source = [c \in Calls |-> c]
  /\ clears = [k \in Keys |-> 0]
  /\ swept = {}
  /\ late = [k \in Keys |-> {}]

----------------------------------------------------------------------------
(* CacheStorage *)

Expired(e) == Ttl > 0 /\ time - e.at > Ttl

Without(ks) == {e \in entries : e.key \notin ks}

Cached(k) == {e \in entries : e.key = k}

Hit(k) == \E e \in Cached(k) : ~Expired(e)

Oldest(es) == CHOOSE e \in es : \A f \in es : e.order <= f.order

\* Entries of `gone` are deleted, where those of ks were meant.
Removes(gone, ks) ==
  /\ entries' = Without(gone)
  /\ swept' = swept \union {k \in gone \ ks : Cached(k) # {}}

\* deleteCachedMethod
Deletes(k) == Removes(Swept[k], {k})

\* At the end of the order of insertion
NextOrder(es) ==
  LET orders == {0} \union {e.order : e \in es}
  IN (CHOOSE n \in orders : \A m \in orders : m <= n) + 1

\* Mutant: one entry too many
EvictsLate(es) == Cardinality(es) > maxSize

Evicts(es) == Cardinality(es) >= maxSize

\* setCachedMethod: drop the key, evict the oldest insertion, append
SetCachedMethod(k, c, settled) ==
  LET rest == Without({k})
      kept == IF Evicts(rest) THEN rest \ {Oldest(rest)} ELSE rest
  IN entries' = kept \union {[key |-> k, value |-> c, settled |-> settled, at |-> time,
                              order |-> NextOrder(kept)]}

----------------------------------------------------------------------------
(* The wrapper *)

Starts(c, k) == call[c] = "new" /\ called' = [called EXCEPT ![c] = k]
                /\ epoch' = [epoch EXCEPT ![c] = clears[k]]

CallHits(c, k) ==
  /\ Starts(c, k)
  /\ Hit(k)
  /\ \E e \in Cached(k) : source' = [source EXCEPT ![c] = e.value]
  /\ call' = [call EXCEPT ![c] = "returned"]
  /\ UNCHANGED <<entries, maxSize, time, clears, swept, late>>

\* Mutant: nothing is stored before the promise resolves
CallComputesAlone(c, k) ==
  /\ Starts(c, k)
  /\ ~Hit(k)
  /\ entries' = Without({k})
  /\ call' = [call EXCEPT ![c] = "computing"]
  /\ UNCHANGED <<maxSize, time, source, clears, swept, late>>

\* The promise is stored before it resolves
CallComputes(c, k) ==
  /\ Starts(c, k)
  /\ ~Hit(k)
  /\ SetCachedMethod(k, c, FALSE)
  /\ call' = [call EXCEPT ![c] = "computing"]
  /\ UNCHANGED <<maxSize, time, source, clears, swept, late>>

\* Until the handler of the wrapper has run, after the promise has settled
Computing(c) == call[c] = "computing"

\* The resolved value is stored again, whatever happened to the entry
Resolves(c) ==
  /\ Computing(c)
  /\ SetCachedMethod(called[c], c, TRUE)
  /\ call' = [call EXCEPT ![c] = "returned"]
  /\ UNCHANGED <<maxSize, time, called, epoch, source, clears, swept, late>>

\* shouldCache refuses the resolved value: the key is deleted
ResolvesUncached(c) ==
  /\ Computing(c)
  /\ Deletes(called[c])
  /\ call' = [call EXCEPT ![c] = "returned"]
  /\ UNCHANGED <<maxSize, time, called, epoch, source, clears, late>>

Rejects(c) ==
  /\ Computing(c)
  /\ Deletes(called[c])
  /\ call' = [call EXCEPT ![c] = "failed"]
  /\ UNCHANGED <<maxSize, time, called, epoch, source, clears, late>>

----------------------------------------------------------------------------
(* clear, clearAll and the garbage collector *)

\* Mutant: clearAll passes the name without its "$", which is the key of no entry
ClearedNone(m) == {}

\* What deleteCachedMethod(m + "$") takes
ClearedBy(m) == Begins[m]

\* The keys ks are meant, the entries of `gone` are deleted.
Clears(ks, gone) ==
  /\ \A k \in ks : clears[k] < MaxClears
  /\ Removes(gone, ks)
  /\ clears' = [k \in Keys |-> IF k \in ks THEN clears[k] + 1 ELSE clears[k]]
  /\ late' = [k \in Keys |->
                IF k \in ks THEN {c \in Calls : Computing(c) /\ called[c] = k}
                ELSE late[k]]
  /\ UNCHANGED <<maxSize, time, call, called, epoch, source>>

Clear(k) == Clears({k}, Swept[k])

ClearMethod(m) == Clears({k \in Keys : Method[k] = m}, ClearedBy(m))

ClearInstance == Clears(Keys, Keys)

GarbageCollect ==
  /\ \E e \in entries : Expired(e)
  /\ entries' = {e \in entries : ~Expired(e)}
  /\ UNCHANGED <<maxSize, time, call, called, epoch, source, clears, swept, late>>

Tick ==
  /\ time < MaxTime
  /\ time' = time + 1
  /\ UNCHANGED <<entries, maxSize, call, called, epoch, source, clears, swept, late>>

CacheNext ==
  \/ \E c \in Calls, k \in Keys : CallHits(c, k) \/ CallComputes(c, k)
  \/ \E c \in Calls : Resolves(c) \/ ResolvesUncached(c) \/ Rejects(c)
  \/ \E k \in Keys : Clear(k) \/ ClearMethod(Method[k])
  \/ ClearInstance \/ GarbageCollect \/ Tick

CacheSpec == CacheInit /\ [][CacheNext]_cacheVars

----------------------------------------------------------------------------
Fits == Ttl = 0 \/ time <= Ttl

\* Concurrent calls share one computation: two are in progress for one key only
\* if a clear, an eviction, an expiry or a deletion meant for another key took the
\* promise of the first away.  And a promise in the cache belongs to a call in
\* progress, so a call that failed is not handed out to later ones.
ComputedOnce ==
  /\ \A c, d \in Calls :
       Computing(c) /\ Computing(d) /\ called[c] = called[d] /\ c # d
       => clears[called[c]] > 0 \/ called[c] \in swept \/ ~Fits \/ Cardinality(Keys) > maxSize
  /\ \A e \in entries : ~e.settled => Computing(e.value)

\* A call made after a clear gets a result computed before it only from a
\* computation that was in progress when the key was last cleared.
StaleOnlyIfLate ==
  \A c \in Calls :
    /\ call[c] = "returned" /\ epoch[source[c]] < epoch[c]
    /\ epoch[c] = clears[called[c]]
    => source[c] \in late[called[c]]

\* clear(), "Clear a specific cached entry for a target method and arguments", and
\* the handler of an error, "Remove from cache on error so it can be retried",
\* leave the entries of other keys.
DeletionIsSpecific ==
  [][\A k \in Keys :
       \/ Clear(k)
       \/ \E c \in Calls : called[c] = k /\ Rejects(c)
       => \A e \in entries : e.key # k => e \in entries']_cacheVars
=============================================================================
