---------------------------- MODULE KeyRotation ----------------------------
(***************************************************************************)
(* Signing keys of a webda.io cluster: every instance runs a CryptoService *)
(* (packages/core/src/services/cryptoservice.ts) over one "keys" entry of  *)
(* the shared registry (packages/core/src/models/registry.ts).  An action  *)
(* is one request to the registry with the code that runs on its answer,   *)
(* except that a load caused by a verification is answered later, when it  *)
(* may be out of date.  A request may also fail, or its answer be lost.    *)
(*                                                                         *)
(* The registry is a database: its conditional patch is one statement, its *)
(* put is an upsert, that is, exists() and then patch() or create().  The  *)
(* id of a key is the second in which its rotation began, so its age is    *)
(* the id itself.  All instances read the same clock.  A key is the number *)
(* of the rotation that generated it.                                      *)
(***************************************************************************)
EXTENDS Integers, FiniteSets

CONSTANTS
  Instances,
  Nobody,      \* no instance
  MaxTime,     \* bound: seconds, hence ids
  MaxKeys,     \* bound: keys generated
  MaxCrashes,  \* bound: instances that crash
  MaxErrors    \* bound: requests that fail or whose answer is lost

ASSUME RotationAssumption ==
  /\ Nobody \notin Instances
  /\ MaxTime \in Nat \ {0}
  /\ MaxKeys \in Nat
  /\ MaxCrashes \in Nat /\ MaxErrors \in Nat

VARIABLES
  now,       \* the clock, in seconds
  exists,    \* the registry has a "keys" entry
  regCur,    \* its `current`
  regKeys,   \* its key_* attributes
  pc,        \* what each instance is doing
  next,      \* the id and the key of a rotation under way
  current,   \* CryptoService.current
  age,       \* CryptoService.age
  keys,      \* CryptoService.keys
  loading,   \* what the registry answered to checkKey(), on its way
  made,      \* number of keys generated
  crashes,   \* number of crashes
  errors,    \* number of requests without answer
  issued,    \* history: the keys some instance has signed with, by id
  anomaly    \* history: what may keep a signature from being accepted

registry == <<exists, regCur, regKeys>>
service == <<current, age, keys>>
faults == <<crashes, errors>>
history == <<issued, anomaly>>
vars == <<now, registry, pc, next, service, loading, made, faults, history>>

Ids == 1..MaxTime
Keys == 1..MaxKeys
None == 0
NoKeys == [n \in Ids |-> None]

\* age is NaN before any load, and parseInt("undefined", 36) when no key is
\* current: either way no id is greater
Forever == MaxTime + 1

\* `current` is a key id, "init-" and an instance, or undefined
Key(n) == [id |-> n, init |-> Nobody]
InitMark(i) == [id |-> 0, init |-> i]
Undefined == [id |-> 0, init |-> Nobody]

Currents == [id : {0}, init : Instances \union {Nobody}] \union [id : Ids, init : {Nobody}]

States == {"down", "check", "put", "create", "merge", "patch", "reload", "up"}

TypeOK ==
  /\ now \in Ids
  /\ exists \in BOOLEAN
  /\ regCur \in Currents
  /\ regKeys \in [Ids -> Keys \union {None}]
  /\ pc \in [Instances -> States]
  /\ next \in [Instances -> [id : Ids \union {0}, key : Keys \union {None}]]
  /\ current \in [Instances -> Currents]
  /\ age \in [Instances -> Nat]
  /\ keys \in [Instances -> [Ids -> Keys \union {None}]]
  /\ loading \in [Instances -> [cur : Currents, keys : [Ids -> Keys \union {None}]]]
  /\ made \in 0..MaxKeys
  /\ crashes \in 0..MaxCrashes
  /\ errors \in 0..MaxErrors
  /\ issued \in SUBSET (Ids \X Keys)
  /\ anomaly \in SUBSET {"initRace", "sameSecond", "reload"}

NoRotation == [id |-> 0, key |-> None]

NoLoad == [cur |-> Undefined, keys |-> NoKeys]

Init ==
  /\ now = 1
  /\ exists = FALSE
  /\ regCur = Undefined
  /\ regKeys = NoKeys
  /\ pc = [i \in Instances |-> "down"]
  /\ next = [i \in Instances |-> NoRotation]
  /\ current = [i \in Instances |-> Undefined]
  /\ age = [i \in Instances |-> Forever]
  /\ keys = [i \in Instances |-> NoKeys]
  /\ loading = [i \in Instances |-> NoLoad]
  /\ made = 0
  /\ crashes = 0
  /\ errors = 0
  /\ issued = {}
  /\ anomaly = {}

Goto(i, state) == pc' = [pc EXCEPT ![i] = state]

Anomaly(name, holds) == anomaly' = IF holds THEN anomaly \union {name} ELSE anomaly

----------------------------------------------------------------------------
(* load() and rotate() up to their first request *)

IsKey(cur) == cur.id # 0

\* What load() reads
Entry == [cur |-> regCur, keys |-> regKeys]

\* Mutant: keys that were loaded once are not loaded again
LoadKeepsKeys(i, entry) ==
  /\ keys' = [keys EXCEPT ![i] = IF @ = NoKeys THEN entry.keys ELSE @]
  /\ current' = [current EXCEPT ![i] = IF IsKey(entry.cur) THEN entry.cur ELSE Undefined]
  /\ age' = [age EXCEPT ![i] = IF IsKey(entry.cur) THEN entry.cur.id ELSE Forever]

\* Mutant: the age is the time of the load instead of the one of the key
LoadAgedNow(i, entry) ==
  /\ keys' = [keys EXCEPT ![i] = entry.keys]
  /\ current' = [current EXCEPT ![i] = IF IsKey(entry.cur) THEN entry.cur ELSE Undefined]
  /\ age' = [age EXCEPT ![i] = now]

Load(i, entry) ==
  /\ keys' = [keys EXCEPT ![i] = entry.keys]
  /\ current' = [current EXCEPT ![i] = IF IsKey(entry.cur) THEN entry.cur ELSE Undefined]
  /\ age' = [age EXCEPT ![i] = IF IsKey(entry.cur) THEN entry.cur.id ELSE Forever]

\* Mutant: the second of an id is rounded up
RotateRoundsUp(i) ==
  /\ made < MaxKeys
  /\ made' = made + 1
  /\ next' = [next EXCEPT ![i] = [id |-> now + 1, key |-> made + 1]]
  /\ Goto(i, "check")

Rotate(i) ==
  /\ made < MaxKeys
  /\ made' = made + 1
  /\ next' = [next EXCEPT ![i] = [id |-> now, key |-> made + 1]]
  /\ Goto(i, "check")

InitLoads(i) ==
  /\ pc[i] = "down"
  /\ exists
  /\ Load(i, Entry)
  /\ Goto(i, "up")
  /\ UNCHANGED <<now, registry, next, loading, made, faults, history>>

InitRotates(i) ==
  /\ pc[i] = "down"
  /\ ~exists
  /\ Rotate(i)
  /\ UNCHANGED <<now, registry, service, loading, faults, history>>

RotateAgain(i) ==
  /\ pc[i] = "up"
  /\ Rotate(i)
  /\ UNCHANGED <<now, registry, service, loading, faults, history>>

----------------------------------------------------------------------------
(* rotate(): create the entry if it is missing *)

\* Mutant: the mark is put in the registry and forgotten here
CheckExistsForgets(i) ==
  /\ pc[i] = "check"
  /\ Goto(i, IF exists THEN "patch" ELSE "put")
  /\ UNCHANGED <<now, registry, next, service, loading, made, faults, history>>

CheckExists(i) ==
  /\ pc[i] = "check"
  /\ IF exists
     THEN Goto(i, "patch") /\ UNCHANGED current
     ELSE Goto(i, "put") /\ current' = [current EXCEPT ![i] = InitMark(i)]
  /\ UNCHANGED <<now, registry, next, age, keys, loading, made, faults, history>>

PutChecks(i) ==
  /\ pc[i] = "put"
  /\ Goto(i, IF exists THEN "merge" ELSE "create")
  /\ UNCHANGED <<now, registry, next, service, loading, made, faults, history>>

PutCreates(i) ==
  /\ pc[i] = "create"
  /\ ~exists
  /\ exists' = TRUE
  /\ regCur' = InitMark(i)
  /\ Goto(i, "patch")
  /\ UNCHANGED <<now, regKeys, next, service, loading, made, faults, history>>

\* Another instance created the entry: rotate() fails, and so does init()
PutFails(i) ==
  /\ pc[i] = "create"
  /\ exists
  /\ Goto(i, "up")
  /\ next' = [next EXCEPT ![i] = NoRotation]
  /\ UNCHANGED <<now, registry, service, loading, made, faults, history>>

\* Mutant: put() replaces the entry
PutReplaces(i) ==
  /\ pc[i] = "merge"
  /\ regCur' = InitMark(i)
  /\ regKeys' = NoKeys
  /\ Goto(i, "patch")
  /\ Anomaly("initRace", TRUE)
  /\ UNCHANGED <<now, exists, next, service, loading, made, faults, issued>>

\* The entry appeared since exists(): put() patches its `current`, whatever it is
PutMerges(i) ==
  /\ pc[i] = "merge"
  /\ regCur' = InitMark(i)
  /\ Goto(i, "patch")
  /\ Anomaly("initRace", TRUE)
  /\ UNCHANGED <<now, exists, regKeys, next, service, loading, made, faults, issued>>

----------------------------------------------------------------------------
(* rotate(): the conditional patch *)

\* The registry executes the patch of i
Publishes(i) ==
  LET id == next[i].id key == next[i].key IN
  /\ regCur = current[i]
  /\ regCur' = Key(id)
  /\ regKeys' = [regKeys EXCEPT ![id] = key]
  /\ issued' = issued \union {<<id, key>>}
  /\ next' = [next EXCEPT ![i] = NoRotation]
  /\ Anomaly("sameSecond", regKeys[id] # None)

PatchSucceeds(i) ==
  LET id == next[i].id IN
  /\ pc[i] = "patch"
  /\ Publishes(i)
  /\ keys' = [keys EXCEPT ![i][id] = next[i].key]
  /\ current' = [current EXCEPT ![i] = Key(id)]
  /\ age' = [age EXCEPT ![i] = id]
  /\ Goto(i, "up")
  /\ UNCHANGED <<now, exists, loading, made, faults>>

PatchFails(i) ==
  /\ pc[i] = "patch"
  /\ regCur # current[i]
  /\ Goto(i, "reload")
  /\ next' = [next EXCEPT ![i] = NoRotation]
  /\ UNCHANGED <<now, registry, service, loading, made, faults, history>>

Reload(i) ==
  /\ pc[i] = "reload"
  /\ Load(i, Entry)
  /\ Goto(i, "up")
  /\ UNCHANGED <<now, registry, next, loading, made, faults, history>>

----------------------------------------------------------------------------
(* Requests that fail or whose answer is lost *)

Error == errors < MaxErrors /\ errors' = errors + 1 /\ UNCHANGED crashes

\* load() takes an error for a missing entry, so that init() rotates
InitLoadFails(i) ==
  /\ pc[i] = "down"
  /\ Error
  /\ Rotate(i)
  /\ UNCHANGED <<now, registry, service, loading, history>>

\* rotate() fails, but for the patch, after which it reloads
RequestFails(i) ==
  /\ pc[i] \notin {"down", "up"}
  /\ Error
  /\ Goto(i, IF pc[i] = "patch" THEN "reload" ELSE "up")
  /\ next' = [next EXCEPT ![i] = NoRotation]
  /\ UNCHANGED <<now, registry, service, loading, made, history>>

\* put() has created the entry or merged over it, and rotate() fails
PutAnswerLost(i) ==
  /\ pc[i] = "merge" \/ (pc[i] = "create" /\ ~exists)
  /\ Error
  /\ exists' = TRUE
  /\ regCur' = InitMark(i)
  /\ Goto(i, "up")
  /\ next' = [next EXCEPT ![i] = NoRotation]
  /\ Anomaly("initRace", pc[i] = "merge")
  /\ UNCHANGED <<now, regKeys, service, loading, made, issued>>

PatchAnswerLost(i) ==
  /\ pc[i] = "patch"
  /\ Error
  /\ Publishes(i)
  /\ Goto(i, "reload")
  /\ UNCHANGED <<now, exists, service, loading, made>>

----------------------------------------------------------------------------
(* checkKey(): an unknown id greater than the current one is worth a load *)

CheckKeyAsks(i) ==
  /\ pc[i] # "down"
  /\ exists /\ loading[i] = NoLoad
  /\ \E n \in Ids : (\E k \in Keys : <<n, k>> \in issued) /\ keys[i][n] = None /\ n > age[i]
  /\ loading' = [loading EXCEPT ![i] = Entry]
  /\ UNCHANGED <<now, registry, pc, next, service, made, faults, history>>

CheckKeyLoads(i) ==
  /\ loading[i] # NoLoad
  /\ Load(i, loading[i])
  /\ loading' = [loading EXCEPT ![i] = NoLoad]
  /\ Anomaly("reload", pc[i] \in {"check", "patch"})
  /\ UNCHANGED <<now, registry, pc, next, made, faults, issued>>

----------------------------------------------------------------------------
(* The environment *)

Tick ==
  /\ now < MaxTime
  /\ now' = now + 1
  /\ UNCHANGED <<registry, pc, next, service, loading, made, faults, history>>

Crash(i) ==
  /\ pc[i] # "down"
  /\ crashes < MaxCrashes
  /\ crashes' = crashes + 1
  /\ Goto(i, "down")
  /\ next' = [next EXCEPT ![i] = NoRotation]
  /\ current' = [current EXCEPT ![i] = Undefined]
  /\ age' = [age EXCEPT ![i] = Forever]
  /\ keys' = [keys EXCEPT ![i] = NoKeys]
  /\ loading' = [loading EXCEPT ![i] = NoLoad]
  /\ UNCHANGED <<now, registry, made, errors, history>>

Initialize(i) == InitLoads(i) \/ InitRotates(i)

Continue(i) ==
  \/ CheckExists(i)
  \/ PutChecks(i)
  \/ PutCreates(i)
  \/ PutFails(i)
  \/ PutMerges(i)
  \/ PatchSucceeds(i)
  \/ PatchFails(i)
  \/ Reload(i)

Fault(i) ==
  Crash(i) \/ InitLoadFails(i) \/ RequestFails(i) \/ PutAnswerLost(i) \/ PatchAnswerLost(i)

Next ==
  \/ \E i \in Instances :
       Initialize(i) \/ RotateAgain(i) \/ Continue(i) \/ CheckKeyAsks(i) \/ CheckKeyLoads(i) \/ Fault(i)
  \/ Tick

\* Instances are started, and a request they made is answered
Fairness == \A i \in Instances : WF_vars(Initialize(i)) /\ WF_vars(Continue(i))

Spec == Init /\ [][Next]_vars

FairSpec == Spec /\ Fairness

----------------------------------------------------------------------------
(* Safety *)

Ready(i) == IsKey(current[i])

\* getCurrentKeys() never finds a current id without its key, in the registry as
\* in every instance: a rotation publishes both at once, and no race over the
\* creation of the entry separates them.
CurrentHasKey ==
  /\ IsKey(regCur) => regKeys[regCur.id] # None
  /\ \A i \in Instances : Ready(i) => keys[i][current[i].id] # None

\* What checkKey() and the verification that follows decide
Accepts(i, n, k) ==
  \/ keys[i][n] = k
  \/ keys[i][n] = None /\ n > age[i] /\ regKeys[n] = k

\* A signature made by one instance is accepted by every instance that has a
\* current key, unless one of three things happened: two instances raced to
\* create the entry, two rotations began in the same second, or an instance
\* reloaded its keys while it was rotating.
AcceptedByAll ==
  anomaly = {} =>
    \A i \in Instances : Ready(i) => \A p \in issued : Accepts(i, p[1], p[2])

\* No step forgets a key: what the registry publishes stays, whoever rotates and
\* whoever creates, as long as two rotations do not draw the same id.
KeysAreKept ==
  [][anomaly' \intersect {"sameSecond"} = {} =>
       \A n \in Ids : regKeys[n] # None => regKeys'[n] = regKeys[n]]_vars

----------------------------------------------------------------------------
(* Liveness *)

\* autoCreate, "Create first set of key if does not exist": instances that start
\* end up with a current key in the registry.
FirstKeyIsCreated == <>(IsKey(regCur))

\* However the instances that start race over the entry, the registry ends up
\* with a current key for good, even when the mark of one is merged over the key
\* that another has published: unless an instance crashed, or a request of it
\* failed, and left its init mark behind.
FirstKeyUnlessFault == [](crashes = 0 /\ errors = 0) => <>[]IsKey(regCur)
=============================================================================
