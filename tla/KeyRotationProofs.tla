------------------------- MODULE KeyRotationProofs -------------------------
(***************************************************************************)
(* What the CryptoServices of a cluster guarantee for any number of        *)
(* instances, rotations, crashes, failed requests and late answers.        *)
(***************************************************************************)
EXTENDS KeyRotation, TLAPS

Rotating == {"check", "put", "create", "merge", "patch"}

\* A rotation under way has drawn its id and generated its key
RotatingHasNext ==
  \A i \in Instances : pc[i] \in Rotating => next[i].id \in Ids /\ next[i].key \in Keys

\* What the registry answered to checkKey() had its current key then
LoadingHasKey ==
  \A i \in Instances : IsKey(loading[i].cur) => loading[i].keys[loading[i].cur.id] # None

Inv == TypeOK /\ RotatingHasNext /\ CurrentHasKey /\ LoadingHasKey

Entries == [cur : Currents, keys : [Ids -> Keys \union {None}]]

LEMMA CurrentTypes ==
  /\ Undefined \in Currents
  /\ \A i \in Instances : InitMark(i) \in Currents
  /\ \A n \in Ids : Key(n) \in Currents /\ Key(n).id = n
  /\ \A cur \in Currents : IsKey(cur) => cur.id \in Ids
  BY RotationAssumption DEF Undefined, InitMark, Key, Currents, IsKey, Ids

LEMMA IdsAndKeys ==
  /\ Ids \subseteq Nat \ {0}
  /\ Keys \subseteq Nat \ {0}
  /\ None \notin Keys
  /\ Forever \in Nat
  /\ NoKeys \in [Ids -> Keys \union {None}]
  BY RotationAssumption DEF Ids, Keys, None, Forever, NoKeys

LEMMA InitInv == Init => Inv
<1> SUFFICES ASSUME Init PROVE Inv
  OBVIOUS
<1>1. TypeOK
  <2>1. 1 \in Ids /\ 0 \in 0..MaxKeys /\ 0 \in 0..MaxCrashes
    BY RotationAssumption DEF Ids
  <2>2. NoRotation \in [id : Ids \union {0}, key : Keys \union {None}]
    BY DEF NoRotation
  <2>3. NoLoad \in Entries
    BY CurrentTypes, IdsAndKeys DEF NoLoad, Entries
  <2>4. 0 \in 0..MaxErrors
    BY RotationAssumption
  <2> QED
    BY <2>1, <2>2, <2>3, <2>4, CurrentTypes, IdsAndKeys DEF Init, TypeOK, States, Entries
<1>2. RotatingHasNext
  BY DEF Init, RotatingHasNext, Rotating
<1>3. CurrentHasKey
  BY DEF Init, CurrentHasKey, IsKey, Undefined, Ready
<1>4. LoadingHasKey
  BY DEF Init, LoadingHasKey, IsKey, Undefined, NoLoad
<1> QED
  BY <1>1, <1>2, <1>3, <1>4 DEF Inv

\* load() leaves an instance with the keys its current id needs, if what it
\* read had them
LEMMA LoadKeepsInv ==
  ASSUME Inv, NEW i \in Instances, NEW entry \in Entries, Load(i, entry),
         IsKey(entry.cur) => entry.keys[entry.cur.id] # None,
         UNCHANGED <<now, exists, regCur, regKeys, made, crashes, errors, issued>>,
         loading' \in {loading, [loading EXCEPT ![i] = NoLoad]},
         pc' \in [Instances -> States], anomaly' \in SUBSET {"initRace", "sameSecond", "reload"},
         next' = next, \A j \in Instances : pc'[j] \in Rotating => pc[j] \in Rotating
  PROVE  Inv'
<1>1. TypeOK /\ RotatingHasNext /\ CurrentHasKey /\ LoadingHasKey
  BY DEF Inv
<1>2. /\ keys' = [keys EXCEPT ![i] = entry.keys]
      /\ IsKey(entry.cur) => /\ current' = [current EXCEPT ![i] = entry.cur]
                             /\ age' = [age EXCEPT ![i] = entry.cur.id]
      /\ ~IsKey(entry.cur) => /\ current' = [current EXCEPT ![i] = Undefined]
                              /\ age' = [age EXCEPT ![i] = Forever]
      /\ entry.cur \in Currents /\ entry.keys \in [Ids -> Keys \union {None}]
  BY DEF Load, Entries
<1>3. keys' \in [Instances -> [Ids -> Keys \union {None}]]
  BY <1>1, <1>2 DEF TypeOK
<1>4. current' \in [Instances -> Currents]
  BY <1>1, <1>2, CurrentTypes DEF TypeOK
<1>5. age' \in [Instances -> Nat]
  <2>1. (IsKey(entry.cur) => entry.cur.id \in Nat) /\ Forever \in Nat
    BY <1>2, CurrentTypes, IdsAndKeys
  <2>2. age \in [Instances -> Nat]
    BY <1>1 DEF TypeOK
  <2> QED
    BY <1>2, <2>1, <2>2
<1>6. loading' \in [Instances -> Entries] /\ LoadingHasKey'
  <2>1. NoLoad \in Entries /\ ~IsKey(NoLoad.cur)
    BY CurrentTypes, IdsAndKeys DEF NoLoad, Entries, IsKey, Undefined
  <2>2. loading \in [Instances -> Entries]
    BY <1>1 DEF TypeOK, Entries
  <2> QED
    BY <1>1, <2>1, <2>2 DEF LoadingHasKey
<1>7. TypeOK'
  BY <1>1, <1>3, <1>4, <1>5, <1>6 DEF TypeOK, Entries
<1>8. RotatingHasNext'
  BY <1>1 DEF RotatingHasNext
<1>9. CurrentHasKey'
  BY <1>1, <1>2 DEF CurrentHasKey, Ready, IsKey, TypeOK, Undefined
<1> QED
  BY <1>6, <1>7, <1>8, <1>9 DEF Inv

\* A step on the way to the patch: the registry may get an entry or a mark, the
\* instance a mark or a rotation, but no key is published or loaded
LEMMA WayKeepsInv ==
  ASSUME Inv, NEW i \in Instances, NEW state \in States, Goto(i, state),
         UNCHANGED <<regKeys, age, keys, loading, issued>>,
         exists' \in BOOLEAN, now' \in Ids, made' \in 0..MaxKeys, crashes' \in 0..MaxCrashes,
         errors' \in 0..MaxErrors,
         anomaly' \in SUBSET {"initRace", "sameSecond", "reload"},
         regCur' \in {regCur, InitMark(i)},
         current' = current \/ current' = [current EXCEPT ![i] = InitMark(i)],
         next' \in [Instances -> [id : Ids \union {0}, key : Keys \union {None}]],
         \A j \in Instances \ {i} : next'[j] = next[j],
         state \in Rotating => next'[i].id \in Ids /\ next'[i].key \in Keys
  PROVE  Inv'
<1>1. TypeOK /\ RotatingHasNext /\ CurrentHasKey /\ LoadingHasKey
  BY DEF Inv
<1>2. current' \in [Instances -> Currents] /\ regCur' \in Currents
  BY <1>1, CurrentTypes DEF TypeOK
<1>3. TypeOK'
  BY <1>1, <1>2 DEF TypeOK, Goto
<1>4. RotatingHasNext'
  BY <1>1 DEF RotatingHasNext, Goto, TypeOK
<1>5. CurrentHasKey'
  <2>1. ~IsKey(InitMark(i))
    BY DEF IsKey, InitMark
  <2>2. \A j \in Instances : current'[j] = current[j] \/ current'[j] = InitMark(i)
    BY <1>1 DEF TypeOK
  <2> QED
    BY <1>1, <2>1, <2>2 DEF CurrentHasKey, Ready
<1>6. LoadingHasKey'
  BY <1>1 DEF LoadingHasKey
<1> QED
  BY <1>3, <1>4, <1>5, <1>6 DEF Inv

\* A patch that the registry executes publishes a current id with its key; the
\* instance keeps them too, unless it never heard of it
LEMMA PublishesKeepsInv ==
  ASSUME Inv, NEW i \in Instances, Publishes(i), pc[i] = "patch",
         NEW state \in {"up", "reload"}, Goto(i, state),
         UNCHANGED <<now, exists, loading, made, crashes>>, errors' \in 0..MaxErrors,
         \/ UNCHANGED service
         \/ /\ keys' = [keys EXCEPT ![i][next[i].id] = next[i].key]
            /\ current' = [current EXCEPT ![i] = Key(next[i].id)]
            /\ age' = [age EXCEPT ![i] = next[i].id]
  PROVE  Inv'
<1>1. TypeOK /\ RotatingHasNext /\ CurrentHasKey /\ LoadingHasKey
  BY DEF Inv
<1> DEFINE id == next[i].id
           key == next[i].key
<1>2. id \in Ids /\ key \in Keys
  BY <1>1 DEF RotatingHasNext, Rotating
<1>3. /\ regCur' = Key(id)
      /\ regKeys' = [regKeys EXCEPT ![id] = key]
      /\ issued' = issued \union {<<id, key>>}
      /\ next' = [next EXCEPT ![i] = NoRotation]
      /\ pc' = [pc EXCEPT ![i] = state]
      /\ anomaly' \in SUBSET {"initRace", "sameSecond", "reload"}
  BY <1>1 DEF Publishes, Goto, Anomaly, TypeOK
<1>4. \/ UNCHANGED <<current, age, keys>>
      \/ /\ keys' = [keys EXCEPT ![i][id] = key]
         /\ current' = [current EXCEPT ![i] = Key(id)]
         /\ age' = [age EXCEPT ![i] = id]
  BY DEF service
<1> HIDE DEF id, key
<1>5. NoRotation \in [id : Ids \union {0}, key : Keys \union {None}]
  BY DEF NoRotation
<1>6. TypeOK'
  <2>1. Key(id) \in Currents /\ id \in Nat
    BY <1>2, CurrentTypes, IdsAndKeys
  <2>2. /\ regKeys' \in [Ids -> Keys \union {None}]
        /\ issued' \in SUBSET (Ids \X Keys)
    BY <1>1, <1>2, <1>3 DEF TypeOK
  <2>3. /\ pc' \in [Instances -> States]
        /\ next' \in [Instances -> [id : Ids \union {0}, key : Keys \union {None}]]
    BY <1>1, <1>3, <1>5 DEF TypeOK, States
  <2>4. /\ current' \in [Instances -> Currents]
        /\ age' \in [Instances -> Nat]
        /\ keys' \in [Instances -> [Ids -> Keys \union {None}]]
    <3>1. CASE UNCHANGED <<current, age, keys>>
      BY <1>1, <3>1 DEF TypeOK
    <3>2. CASE /\ keys' = [keys EXCEPT ![i][id] = key]
               /\ current' = [current EXCEPT ![i] = Key(id)]
               /\ age' = [age EXCEPT ![i] = id]
      <4>1. keys[i] \in [Ids -> Keys \union {None}]
        BY <1>1 DEF TypeOK
      <4>2. [keys[i] EXCEPT ![id] = key] \in [Ids -> Keys \union {None}]
        BY <1>2, <4>1
      <4>3. keys' = [keys EXCEPT ![i] = [keys[i] EXCEPT ![id] = key]]
        BY <1>1, <3>2 DEF TypeOK
      <4> QED
        BY <1>1, <2>1, <3>2, <4>2, <4>3 DEF TypeOK
    <3> QED
      BY <1>4, <3>1, <3>2
  <2> QED
    BY <1>1, <1>3, <2>1, <2>2, <2>3, <2>4 DEF TypeOK
<1>7. RotatingHasNext'
  BY <1>1, <1>3 DEF RotatingHasNext, Rotating, TypeOK
<1>8. CurrentHasKey'
  <2>1. key # None /\ Key(id).id = id
    BY <1>2, IdsAndKeys, CurrentTypes
  <2>2. (IsKey(regCur) => regKeys[regCur.id] # None)'
    BY <1>1, <1>2, <1>3, <2>1 DEF TypeOK
  <2>3. ASSUME NEW j \in Instances, Ready(j)' PROVE keys'[j][current'[j].id] # None
    BY <1>1, <1>2, <1>4, <2>1, <2>3 DEF CurrentHasKey, Ready, TypeOK
  <2> QED
    BY <2>2, <2>3 DEF CurrentHasKey
<1>9. LoadingHasKey'
  BY <1>1 DEF LoadingHasKey
<1> QED
  BY <1>6, <1>7, <1>8, <1>9 DEF Inv

LEMMA RotateEffect ==
  ASSUME TypeOK, NEW i \in Instances, Rotate(i)
  PROVE  /\ made' \in 0..MaxKeys
         /\ next' \in [Instances -> [id : Ids \union {0}, key : Keys \union {None}]]
         /\ \A j \in Instances \ {i} : next'[j] = next[j]
         /\ next'[i].id \in Ids /\ next'[i].key \in Keys
         /\ Goto(i, "check")
<1>1. made + 1 \in 0..MaxKeys /\ made + 1 \in Keys /\ now \in Ids
  BY RotationAssumption DEF Rotate, TypeOK, Keys
<1> QED
  BY <1>1 DEF Rotate, TypeOK

LEMMA StepInv == Inv /\ [Next]_vars => Inv'
<1> SUFFICES ASSUME Inv, [Next]_vars PROVE Inv'
  OBVIOUS
<1>1. TypeOK /\ RotatingHasNext /\ CurrentHasKey /\ LoadingHasKey
  BY DEF Inv
<1>2. /\ exists \in BOOLEAN
      /\ now \in Ids
      /\ made \in 0..MaxKeys
      /\ crashes \in 0..MaxCrashes
      /\ errors \in 0..MaxErrors
      /\ anomaly \in SUBSET {"initRace", "sameSecond", "reload"}
      /\ next \in [Instances -> [id : Ids \union {0}, key : Keys \union {None}]]
      /\ pc \in [Instances -> States]
  BY <1>1 DEF TypeOK
<1>3. NoRotation \in [id : Ids \union {0}, key : Keys \union {None}]
  BY DEF NoRotation
<1>4. ASSUME NEW i \in Instances, InitLoads(i) \/ Reload(i) \/ CheckKeyAsks(i) \/ CheckKeyLoads(i)
      PROVE  Inv'
  <2>1. Entry \in Entries /\ (IsKey(Entry.cur) => Entry.keys[Entry.cur.id] # None)
    BY <1>1 DEF Entry, Entries, TypeOK, CurrentHasKey
  <2>2. CASE InitLoads(i) \/ Reload(i)
    BY <1>2, <2>1, <2>2, LoadKeepsInv
    DEF InitLoads, Reload, Goto, States, Rotating, registry, faults, history
  <2>3. CASE CheckKeyAsks(i)
    <3>1. loading' = [loading EXCEPT ![i] = Entry]
          /\ UNCHANGED <<now, registry, pc, next, service, made, faults, history>>
      BY <2>3 DEF CheckKeyAsks
    <3>2. loading' \in [Instances -> Entries] /\ LoadingHasKey'
      BY <1>1, <2>1, <3>1 DEF LoadingHasKey, TypeOK, Entries
    <3> QED
      BY <1>1, <3>1, <3>2
      DEF Inv, TypeOK, RotatingHasNext, CurrentHasKey, Ready, registry, service, faults, history, Entries
  <2>4. CASE CheckKeyLoads(i)
    <3>1. loading[i] \in Entries /\ (IsKey(loading[i].cur) => loading[i].keys[loading[i].cur.id] # None)
      BY <1>1 DEF TypeOK, Entries, LoadingHasKey
    <3> QED
      BY <1>2, <2>4, <3>1, LoadKeepsInv DEF CheckKeyLoads, Anomaly, registry, faults
  <2> QED
    BY <1>4, <2>2, <2>3, <2>4
<1>5. ASSUME NEW i \in Instances, InitRotates(i) \/ RotateAgain(i) \/ InitLoadFails(i) PROVE Inv'
  <2>1. errors' \in 0..MaxErrors /\ crashes' = crashes
    BY <1>2, <1>5, RotationAssumption DEF InitRotates, RotateAgain, InitLoadFails, Error, faults
  <2> QED
    BY <1>1, <1>2, <1>5, <2>1, RotateEffect, WayKeepsInv
    DEF InitRotates, RotateAgain, InitLoadFails, registry, service, faults, history, States
<1>6. ASSUME NEW i \in Instances, CheckExists(i) PROVE Inv'
  <2>1. next[i].id \in Ids /\ next[i].key \in Keys
    BY <1>1, <1>6 DEF CheckExists, RotatingHasNext, Rotating
  <2> QED
    BY <1>2, <1>6, <2>1, WayKeepsInv DEF CheckExists, registry, faults, history, States
<1>7. ASSUME NEW i \in Instances, PutChecks(i) PROVE Inv'
  <2>1. next[i].id \in Ids /\ next[i].key \in Keys
    BY <1>1, <1>7 DEF PutChecks, RotatingHasNext, Rotating
  <2> QED
    BY <1>2, <1>7, <2>1, WayKeepsInv DEF PutChecks, registry, service, faults, history, States
<1>8. ASSUME NEW i \in Instances, PutCreates(i) PROVE Inv'
  <2>1. next[i].id \in Ids /\ next[i].key \in Keys
    BY <1>1, <1>8 DEF PutCreates, RotatingHasNext, Rotating
  <2> QED
    BY <1>2, <1>8, <2>1, WayKeepsInv DEF PutCreates, service, faults, history, States
<1>9. ASSUME NEW i \in Instances, PutMerges(i) PROVE Inv'
  <2>1. next[i].id \in Ids /\ next[i].key \in Keys
    BY <1>1, <1>9 DEF PutMerges, RotatingHasNext, Rotating
  <2> QED
    BY <1>2, <1>9, <2>1, WayKeepsInv DEF PutMerges, Anomaly, service, faults, States
<1>10. ASSUME NEW i \in Instances,
              PutFails(i) \/ PatchFails(i) \/ RequestFails(i) \/ PutAnswerLost(i)
       PROVE  Inv'
  <2>1. next' = [next EXCEPT ![i] = NoRotation]
    BY <1>10 DEF PutFails, PatchFails, RequestFails, PutAnswerLost
  <2>2. /\ \A j \in Instances \ {i} : next'[j] = next[j]
        /\ next' \in [Instances -> [id : Ids \union {0}, key : Keys \union {None}]]
    BY <1>2, <1>3, <2>1
  <2>3. errors' \in 0..MaxErrors /\ crashes' = crashes
    BY <1>2, <1>10, RotationAssumption
    DEF PutFails, PatchFails, RequestFails, PutAnswerLost, Error, faults
  <2>4. CASE PutFails(i) \/ PatchFails(i)
    BY <1>2, <2>2, <2>3, <2>4, WayKeepsInv
    DEF PutFails, PatchFails, registry, service, history, States, Rotating
  <2>5. CASE RequestFails(i)
    BY <1>2, <2>2, <2>3, <2>5, WayKeepsInv
    DEF RequestFails, registry, service, history, States, Rotating
  <2>6. CASE PutAnswerLost(i)
    BY <1>2, <2>2, <2>3, <2>6, WayKeepsInv
    DEF PutAnswerLost, Anomaly, service, States, Rotating
  <2> QED
    BY <1>10, <2>4, <2>5, <2>6
<1>11. ASSUME NEW i \in Instances, PatchSucceeds(i) \/ PatchAnswerLost(i) PROVE Inv'
  <2>1. CASE PatchSucceeds(i)
    BY <1>2, <2>1, PublishesKeepsInv DEF PatchSucceeds, faults
  <2>2. CASE PatchAnswerLost(i)
    <3>1. errors' \in 0..MaxErrors /\ crashes' = crashes
      BY <1>2, <2>2, RotationAssumption DEF PatchAnswerLost, Error
    <3> QED
      BY <2>2, <3>1, PublishesKeepsInv DEF PatchAnswerLost
  <2> QED
    BY <1>11, <2>1, <2>2
<1>12. CASE Tick
  <2>1. now' \in Ids
    BY <1>2, <1>12, RotationAssumption DEF Tick, Ids
  <2>2. UNCHANGED <<registry, pc, next, service, loading, made, faults, history>>
    BY <1>12 DEF Tick
  <2> QED
    BY <1>1, <2>1, <2>2
    DEF Inv, TypeOK, RotatingHasNext, CurrentHasKey, LoadingHasKey, Ready, registry, service,
        faults, history
<1>13. ASSUME NEW i \in Instances, Crash(i) PROVE Inv'
  <2>1. crashes + 1 \in 0..MaxCrashes
    BY <1>2, <1>13, RotationAssumption DEF Crash
  <2>2. loading' \in [Instances -> Entries] /\ LoadingHasKey'
    <3>1. NoLoad \in Entries /\ ~IsKey(NoLoad.cur)
      BY CurrentTypes, IdsAndKeys DEF NoLoad, Entries, IsKey, Undefined
    <3> QED
      BY <1>1, <1>13, <3>1 DEF Crash, LoadingHasKey, TypeOK, Entries
  <2>3. TypeOK'
    BY <1>1, <1>3, <1>13, <2>1, <2>2, CurrentTypes, IdsAndKeys
    DEF Crash, TypeOK, Goto, States, registry, history, Entries
  <2>4. RotatingHasNext'
    BY <1>1, <1>2, <1>13 DEF Crash, RotatingHasNext, Rotating, Goto
  <2>5. CurrentHasKey'
    BY <1>1, <1>13 DEF Crash, CurrentHasKey, Ready, IsKey, Undefined, TypeOK, registry
  <2> QED
    BY <2>2, <2>3, <2>4, <2>5 DEF Inv
<1>14. CASE UNCHANGED vars
  BY <1>1, <1>14
  DEF Inv, TypeOK, RotatingHasNext, CurrentHasKey, LoadingHasKey, Ready, vars, registry,
      service, faults, history
<1> QED
  BY <1>4, <1>5, <1>6, <1>7, <1>8, <1>9, <1>10, <1>11, <1>12, <1>13, <1>14
  DEF Next, Initialize, Continue, Fault

LEMMA InvCorrect == Spec => []Inv
  BY InitInv, StepInv, PTL DEF Spec

\* The registry and the instances keep their types.
THEOREM TypeCorrect == Spec => []TypeOK
  BY InvCorrect, PTL DEF Inv

\* getCurrentKeys() never answers "Current key does not match", and no instance
\* reads from the registry a current id whose key is missing, however many
\* instances create the entry, rotate, reload and crash.
THEOREM CurrentsHaveKeys == Spec => []CurrentHasKey
  BY InvCorrect, PTL DEF Inv

LEMMA StepKeepsKeys ==
  ASSUME TypeOK, [Next]_vars, "sameSecond" \notin anomaly',
         NEW n \in Ids, regKeys[n] # None
  PROVE  regKeys'[n] = regKeys[n]
<1>1. CASE \E i \in Instances : Publishes(i)
  <2>1. PICK i \in Instances : Publishes(i)
    BY <1>1
  <2>2. /\ regKeys' = [regKeys EXCEPT ![next[i].id] = next[i].key]
        /\ regKeys[next[i].id] = None
    BY <2>1 DEF Publishes, Anomaly
  <2> QED
    BY <2>2 DEF TypeOK
<1>2. CASE ~\E i \in Instances : Publishes(i)
  <2>1. UNCHANGED regKeys
    BY <1>2
    DEF Next, Initialize, Continue, Fault, InitLoads, InitRotates, RotateAgain, CheckExists,
        PutChecks, PutCreates, PutFails, PutMerges, PatchSucceeds, PatchFails, Reload,
        CheckKeyAsks, CheckKeyLoads, Crash, InitLoadFails, RequestFails, PutAnswerLost,
        PatchAnswerLost, Tick, vars, registry
  <2> QED
    BY <2>1
<1> QED
  BY <1>1, <1>2

\* rotate() and put() only ever add a key to the registry: as long as no two
\* rotations draw the same id, what was signed can be verified for ever.
THEOREM KeysAreNeverLost == Spec => KeysAreKept
<1>1. TypeOK /\ [Next]_vars =>
        [anomaly' \intersect {"sameSecond"} = {} =>
           \A n \in Ids : regKeys[n] # None => regKeys'[n] = regKeys[n]]_vars
  BY StepKeepsKeys
<1> QED
  BY <1>1, TypeCorrect, PTL DEF Spec, KeysAreKept

----------------------------------------------------------------------------
(* Signatures are accepted: the copies of the entry against the registry *)

\* The registry has the keys that were issued, and the newest is the current.
NewestIsCurrent ==
  /\ \A p \in issued : regKeys[p[1]] = p[2]
  /\ \A n \in Ids : regKeys[n] # None => IsKey(regCur) /\ n <= regCur.id

\* A copy of the entry, of whatever age, agrees with the registry, and lacks
\* none of the keys up to its current one.
Copies(cur, copy) ==
  /\ \A n \in Ids : copy[n] # None => copy[n] = regKeys[n]
  /\ IsKey(cur) => \A n \in Ids : n <= cur.id /\ regKeys[n] # None => copy[n] # None

InstancesCopy ==
  \A i \in Instances :
    /\ Copies(current[i], keys[i]) /\ Copies(loading[i].cur, loading[i].keys)
    /\ IsKey(current[i]) => age[i] = current[i].id

\* The id of a rotation is not older than the key it replaces.
DrawnInOrder ==
  /\ IsKey(regCur) => regCur.id <= now /\ exists
  /\ \A i \in Instances :
       /\ next[i].id <= now
       /\ pc[i] \in {"check", "patch"} /\ IsKey(current[i]) => current[i].id <= next[i].id
       /\ pc[i] \in {"merge", "patch"} => exists

AcceptedInv == anomaly = {} => NewestIsCurrent /\ InstancesCopy /\ DrawnInOrder

LEMMA AcceptedInit == Init => AcceptedInv
<1> SUFFICES ASSUME Init PROVE AcceptedInv
  OBVIOUS
<1> USE RotationAssumption
<1>1. NewestIsCurrent
  BY DEF Init, NewestIsCurrent, NoKeys
<1>2. InstancesCopy
  BY DEF Init, InstancesCopy, Copies, NoKeys, NoLoad, Undefined, IsKey
<1>3. DrawnInOrder
  BY DEF Init, DrawnInOrder, Undefined, IsKey, NoRotation
<1> QED
  BY <1>1, <1>2, <1>3 DEF AcceptedInv

LEMMA InvFacts ==
  ASSUME Inv
  PROVE  /\ now \in Nat /\ regKeys \in [Ids -> Keys \union {None}] /\ Ids \subseteq Nat
         /\ IsKey(regCur) => regCur.id \in Ids /\ regKeys[regCur.id] # None
         /\ \A i \in Instances :
              /\ keys[i] \in [Ids -> Keys \union {None}]
              /\ loading[i].keys \in [Ids -> Keys \union {None}]
              /\ next[i].id \in Nat
              /\ IsKey(current[i]) => current[i].id \in Ids /\ keys[i][current[i].id] # None
              /\ IsKey(loading[i].cur) =>
                   loading[i].cur.id \in Ids /\ loading[i].keys[loading[i].cur.id] # None
<1>1. TypeOK /\ CurrentHasKey /\ LoadingHasKey
  BY DEF Inv
<1>2. now \in Ids /\ regCur \in Currents /\ regKeys \in [Ids -> Keys \union {None}]
  BY <1>1 DEF TypeOK
<1>3. ASSUME NEW i \in Instances
      PROVE  /\ current[i] \in Currents /\ keys[i] \in [Ids -> Keys \union {None}]
             /\ loading[i] \in Entries /\ next[i].id \in Ids \union {0}
  BY <1>1 DEF TypeOK, Entries
<1>4. \A i \in Instances :
        /\ loading[i].cur \in Currents /\ loading[i].keys \in [Ids -> Keys \union {None}]
        /\ next[i].id \in Nat
  BY <1>3, IdsAndKeys DEF Entries
<1> QED
  BY <1>1, <1>2, <1>3, <1>4, CurrentTypes, IdsAndKeys DEF CurrentHasKey, LoadingHasKey, Ready

\* A copy is never ahead of the registry.
LEMMA CopiesAreOlder ==
  ASSUME Inv, AcceptedInv, anomaly = {}, NEW i \in Instances
  PROVE  /\ IsKey(current[i]) => IsKey(regCur) /\ current[i].id <= regCur.id
         /\ IsKey(loading[i].cur) => IsKey(regCur) /\ loading[i].cur.id <= regCur.id
<1>1. NewestIsCurrent /\ Copies(current[i], keys[i]) /\ Copies(loading[i].cur, loading[i].keys)
  BY DEF AcceptedInv, InstancesCopy
<1> QED
  BY <1>1, InvFacts DEF NewestIsCurrent, Copies

\* A step that publishes and loads nothing.
LEMMA QuietKeepsAccepted ==
  ASSUME Inv, AcceptedInv, anomaly' = {} => anomaly = {},
         UNCHANGED <<regKeys, issued>>, now' \in Nat, now <= now',
         exists => exists',
         anomaly' = {} => regCur' = regCur \/ (~IsKey(regCur) /\ ~IsKey(regCur')),
         \A i \in Instances :
           /\ \/ /\ keys'[i] = keys[i] /\ age'[i] = age[i]
                 /\ current'[i] = current[i] \/ ~IsKey(current'[i])
              \/ keys'[i] = NoKeys /\ ~IsKey(current'[i])
           /\ loading'[i] = loading[i] \/ loading'[i] = NoLoad
           /\ anomaly' = {} =>
                /\ next'[i].id <= now'
                /\ pc'[i] \in {"check", "patch"} /\ IsKey(current'[i]) => current'[i].id <= next'[i].id
                /\ pc'[i] \in {"merge", "patch"} => exists'
  PROVE  AcceptedInv'
<1> SUFFICES ASSUME anomaly' = {} PROVE (NewestIsCurrent /\ InstancesCopy /\ DrawnInOrder)'
  BY DEF AcceptedInv
<1>1. NewestIsCurrent /\ InstancesCopy /\ DrawnInOrder
  BY DEF AcceptedInv
<1>2. NewestIsCurrent'
  BY <1>1 DEF NewestIsCurrent
<1>3. InstancesCopy'
  <2> SUFFICES ASSUME NEW i \in Instances
               PROVE  /\ Copies(current[i], keys[i])' /\ Copies(loading[i].cur, loading[i].keys)'
                      /\ IsKey(current'[i]) => age'[i] = current'[i].id
    BY DEF InstancesCopy
  <2>1. /\ Copies(current[i], keys[i]) /\ Copies(loading[i].cur, loading[i].keys)
        /\ IsKey(current[i]) => age[i] = current[i].id
    BY <1>1 DEF InstancesCopy
  <2>2. Copies(current[i], keys[i])' /\ (IsKey(current'[i]) => age'[i] = current'[i].id)
    BY <2>1 DEF Copies, NoKeys
  <2>3. ~IsKey(NoLoad.cur) /\ NoLoad.keys = NoKeys
    BY DEF NoLoad, IsKey, Undefined
  <2>4. Copies(loading[i].cur, loading[i].keys)'
    BY <2>1, <2>3 DEF Copies, NoKeys
  <2> QED
    BY <2>2, <2>4
<1>4. DrawnInOrder'
  BY <1>1, InvFacts DEF DrawnInOrder
<1> QED
  BY <1>2, <1>3, <1>4

\* load() of what the registry has, or had.
LEMMA LoadKeepsAccepted ==
  ASSUME Inv, AcceptedInv, NEW i \in Instances, NEW entry \in Entries, Load(i, entry),
         anomaly' = {} => anomaly = {} /\ pc'[i] \notin {"check", "patch"},
         anomaly = {} => Copies(entry.cur, entry.keys),
         UNCHANGED <<now, exists, regCur, regKeys, issued, next>>,
         \A j \in Instances : loading'[j] = loading[j] \/ loading'[j] = NoLoad,
         pc'[i] = pc[i] \/ pc'[i] = "up", \A j \in Instances \ {i} : pc'[j] = pc[j]
  PROVE  AcceptedInv'
<1> SUFFICES ASSUME anomaly' = {} PROVE (NewestIsCurrent /\ InstancesCopy /\ DrawnInOrder)'
  BY DEF AcceptedInv
<1>1. NewestIsCurrent /\ InstancesCopy /\ DrawnInOrder /\ TypeOK
  BY DEF AcceptedInv, Inv
<1>2. /\ \A j \in Instances \ {i} :
           keys'[j] = keys[j] /\ current'[j] = current[j] /\ age'[j] = age[j]
      /\ keys'[i] = entry.keys
      /\ IsKey(entry.cur) => current'[i] = entry.cur /\ age'[i] = entry.cur.id
      /\ ~IsKey(entry.cur) => ~IsKey(current'[i])
  BY <1>1 DEF Load, TypeOK, IsKey, Undefined
<1>3. NewestIsCurrent'
  BY <1>1 DEF NewestIsCurrent
<1>4. InstancesCopy'
  <2> SUFFICES ASSUME NEW j \in Instances
               PROVE  /\ Copies(current[j], keys[j])' /\ Copies(loading[j].cur, loading[j].keys)'
                      /\ IsKey(current'[j]) => age'[j] = current'[j].id
    BY DEF InstancesCopy
  <2>1. /\ Copies(current[j], keys[j]) /\ Copies(loading[j].cur, loading[j].keys)
        /\ IsKey(current[j]) => age[j] = current[j].id
    BY <1>1 DEF InstancesCopy
  <2>2. Copies(current[j], keys[j])' /\ (IsKey(current'[j]) => age'[j] = current'[j].id)
    BY <1>2, <2>1 DEF Copies
  <2>3. ~IsKey(NoLoad.cur) /\ NoLoad.keys = NoKeys
    BY DEF NoLoad, IsKey, Undefined
  <2>4. Copies(loading[j].cur, loading[j].keys)'
    BY <2>1, <2>3 DEF Copies, NoKeys
  <2> QED
    BY <2>2, <2>4
<1>5. DrawnInOrder'
  <2> SUFFICES ASSUME NEW j \in Instances
               PROVE  /\ next'[j].id <= now'
                      /\ pc'[j] \in {"check", "patch"} /\ IsKey(current'[j]) => current'[j].id <= next'[j].id
                      /\ pc'[j] \in {"merge", "patch"} => exists'
    BY <1>1 DEF DrawnInOrder
  <2> QED
    BY <1>1, <1>2 DEF DrawnInOrder
<1> QED
  BY <1>3, <1>4, <1>5

\* The patch publishes an id that is newer than all those published.
LEMMA PublishesKeepsAccepted ==
  ASSUME Inv, AcceptedInv, NEW i \in Instances, Publishes(i), pc[i] = "patch",
         NEW state \in {"up", "reload"}, Goto(i, state),
         UNCHANGED <<now, exists, loading>>,
         \/ UNCHANGED service
         \/ /\ keys' = [keys EXCEPT ![i][next[i].id] = next[i].key]
            /\ current' = [current EXCEPT ![i] = Key(next[i].id)]
            /\ age' = [age EXCEPT ![i] = next[i].id]
  PROVE  AcceptedInv'
<1> SUFFICES ASSUME anomaly' = {} PROVE (NewestIsCurrent /\ InstancesCopy /\ DrawnInOrder)'
  BY DEF AcceptedInv
<1>1. TypeOK /\ RotatingHasNext /\ anomaly = {} /\ NewestIsCurrent /\ InstancesCopy /\ DrawnInOrder
  BY DEF AcceptedInv, Inv, Publishes, Anomaly
<1>2. PICK id \in Ids, key \in Keys : id = next[i].id /\ key = next[i].key
  BY <1>1 DEF RotatingHasNext, Rotating
<1>3. /\ regCur = current[i] /\ regCur' = Key(id) /\ regKeys' = [regKeys EXCEPT ![id] = key]
      /\ issued' = issued \union {<<id, key>>} /\ next' = [next EXCEPT ![i] = NoRotation]
      /\ regKeys[id] = None /\ pc' = [pc EXCEPT ![i] = state]
  BY <1>2 DEF Publishes, Anomaly, Goto
<1>4. /\ Key(id).id = id /\ IsKey(Key(id)) /\ id \in Nat \ {0} /\ key # None
      /\ regKeys'[id] = key /\ \A n \in Ids \ {id} : regKeys'[n] = regKeys[n]
  BY <1>2, <1>3, InvFacts, CurrentTypes, IdsAndKeys DEF IsKey
<1>5. IsKey(regCur) => regCur.id < id
  BY SMTT(30), <1>1, <1>2, <1>3, <1>4, InvFacts DEF DrawnInOrder
<1>6. NewestIsCurrent'
  <2>1. \A n \in Ids : regKeys[n] # None => n < id
    BY <1>1, <1>4, <1>5, InvFacts DEF NewestIsCurrent
  <2>2. \A n \in Ids : regKeys'[n] # None => n <= id
    BY <1>4, <2>1, InvFacts
  <2>3. issued \in SUBSET (Ids \X Keys)
    BY <1>1 DEF TypeOK
  <2>4. \A p \in issued : p[1] # id /\ p[1] \in Ids
    BY <1>1, <1>3, <2>3, IdsAndKeys DEF NewestIsCurrent
  <2>5. \A p \in issued' : regKeys'[p[1]] = p[2]
    BY <1>1, <1>3, <1>4, <2>4 DEF NewestIsCurrent
  <2> QED
    BY <1>3, <1>4, <2>2, <2>5 DEF NewestIsCurrent
<1>7. ASSUME NEW cur, NEW copy, Copies(cur, copy), IsKey(cur) => cur.id \in Ids /\ cur.id < id
      PROVE  Copies(cur, copy)'
  BY <1>3, <1>4, <1>7, InvFacts DEF Copies
<1>8. ASSUME NEW j \in Instances
      PROVE  Copies(current[j], keys[j])' \/ (j = i /\ ~UNCHANGED service)
  <2>1. \/ current'[j] = current[j] /\ keys'[j] = keys[j]
        \/ j = i /\ ~UNCHANGED service
    BY <1>1 DEF service, TypeOK
  <2>2. IsKey(current[j]) => current[j].id \in Ids /\ current[j].id < id
    BY <1>1, <1>4, <1>5, CopiesAreOlder, InvFacts
  <2>3. Copies(current[j], keys[j])
    BY <1>1 DEF InstancesCopy
  <2>4. CASE current'[j] = current[j] /\ keys'[j] = keys[j]
    <3> DEFINE cur == current[j]
               copy == keys[j]
    <3>1. /\ \A n \in Ids : keys'[j][n] # None => keys'[j][n] = regKeys'[n]
          /\ IsKey(current'[j]) =>
               \A n \in Ids : n <= current'[j].id /\ regKeys'[n] # None => keys'[j][n] # None
      BY <1>3, <1>4, <2>2, <2>3, <2>4, InvFacts DEF Copies
    <3> QED
      BY <3>1 DEF Copies
  <2> QED
    BY <2>1, <2>4
<1>9. ASSUME NEW j \in Instances PROVE Copies(loading[j].cur, loading[j].keys)'
  <2>1. IsKey(loading[j].cur) => loading[j].cur.id \in Ids /\ loading[j].cur.id < id
    BY <1>1, <1>4, <1>5, CopiesAreOlder, InvFacts
  <2>2. Copies(loading[j].cur, loading[j].keys)
    BY <1>1 DEF InstancesCopy
  <2> QED
    BY <1>3, <1>4, <2>1, <2>2, InvFacts DEF Copies
<1>10. ASSUME ~UNCHANGED service
       PROVE  Copies(current[i], keys[i])' /\ current'[i] = Key(id) /\ age'[i] = id
  <2>1. /\ keys'[i] = [keys[i] EXCEPT ![id] = key] /\ current'[i] = Key(id) /\ age'[i] = id
    BY <1>1, <1>2, <1>10 DEF TypeOK
  <2>2. Copies(current[i], keys[i]) /\ keys[i] \in [Ids -> Keys \union {None}]
    BY <1>1, InvFacts DEF InstancesCopy
  <2>3. keys'[i][id] = key /\ \A n \in Ids \ {id} : keys'[i][n] = keys[i][n]
    BY <2>1, <2>2
  <2>4. \A n \in Ids : keys'[i][n] # None => keys'[i][n] = regKeys'[n]
    BY <1>4, <2>2, <2>3 DEF Copies
  <2>5. \A n \in Ids : regKeys'[n] # None => keys'[i][n] # None
    BY <1>1, <1>3, <1>4, <2>2, <2>3 DEF Copies, NewestIsCurrent
  <2> QED
    BY <2>1, <2>4, <2>5 DEF Copies
<1>11. InstancesCopy'
  <2> SUFFICES ASSUME NEW j \in Instances
               PROVE  /\ Copies(current[j], keys[j])' /\ Copies(loading[j].cur, loading[j].keys)'
                      /\ IsKey(current'[j]) => age'[j] = current'[j].id
    BY DEF InstancesCopy
  <2>1. \/ current'[j] = current[j] /\ age'[j] = age[j]
        \/ j = i /\ ~UNCHANGED service
    BY <1>1 DEF service, TypeOK
  <2> QED
    BY <1>1, <1>4, <1>8, <1>9, <1>10, <2>1 DEF InstancesCopy
<1>12. DrawnInOrder'
  <2>1. id <= now /\ exists
    BY <1>1, <1>2 DEF DrawnInOrder
  <2> SUFFICES ASSUME NEW j \in Instances
               PROVE  /\ next'[j].id <= now
                      /\ pc'[j] \in {"check", "patch"} /\ IsKey(current'[j]) => current'[j].id <= next'[j].id
                      /\ pc'[j] \in {"merge", "patch"} => exists
    BY <1>3, <1>4, <2>1 DEF DrawnInOrder
  <2>2. CASE j = i
    BY <1>1, <1>3, <2>2, InvFacts DEF TypeOK, NoRotation
  <2>3. CASE j # i
    <3>1. current'[j] = current[j] /\ next'[j] = next[j] /\ pc'[j] = pc[j]
      BY <1>1, <1>3, <2>3 DEF service, TypeOK
    <3> QED
      BY <1>1, <3>1 DEF DrawnInOrder
  <2> QED
    BY <2>2, <2>3
<1> QED
  BY <1>6, <1>11, <1>12

LEMMA AcceptedStep == Inv /\ AcceptedInv /\ [Next]_vars => AcceptedInv'
<1> SUFFICES ASSUME Inv, AcceptedInv, [Next]_vars PROVE AcceptedInv'
  OBVIOUS
<1>1. TypeOK /\ (anomaly = {} => NewestIsCurrent /\ InstancesCopy /\ DrawnInOrder)
  BY DEF AcceptedInv, Inv
<1>2. Entry \in Entries /\ (anomaly = {} => Copies(Entry.cur, Entry.keys))
  BY <1>1 DEF Entry, Entries, TypeOK, Copies
<1>3. now \in Nat /\ \A j \in Instances : next[j].id \in Nat
  BY InvFacts
<1>4. ASSUME NEW i \in Instances, InitLoads(i) \/ Reload(i) PROVE AcceptedInv'
  <2>1. /\ Load(i, Entry) /\ Goto(i, "up")
        /\ UNCHANGED <<now, exists, regCur, regKeys, issued, next, loading, anomaly>>
    BY <1>4 DEF InitLoads, Reload, registry, history
  <2> QED
    BY <1>1, <1>2, <2>1, LoadKeepsAccepted DEF Goto, TypeOK
<1>5. ASSUME NEW i \in Instances, CheckKeyLoads(i) PROVE AcceptedInv'
  <2>1. loading[i] \in Entries /\ (anomaly = {} => Copies(loading[i].cur, loading[i].keys))
    BY <1>1 DEF TypeOK, Entries, InstancesCopy
  <2>2. /\ Load(i, loading[i]) /\ loading' = [loading EXCEPT ![i] = NoLoad]
        /\ UNCHANGED <<now, exists, regCur, regKeys, issued, next, pc>>
        /\ anomaly' = {} => anomaly = {} /\ pc[i] \notin {"check", "patch"}
    BY <1>5 DEF CheckKeyLoads, registry, Anomaly
  <2> QED
    BY <1>1, <2>1, <2>2, LoadKeepsAccepted DEF TypeOK
<1>6. ASSUME NEW i \in Instances, CheckKeyAsks(i) PROVE AcceptedInv'
  <2>1. loading' = [loading EXCEPT ![i] = Entry]
        /\ UNCHANGED <<now, exists, regCur, regKeys, issued, next, pc, current, keys, age, anomaly>>
    BY <1>6 DEF CheckKeyAsks, registry, service, history
  <2>2. \A j \in Instances : loading'[j] = loading[j] \/ loading'[j] = Entry
    BY <1>1, <2>1 DEF TypeOK
  <2> QED
    BY <1>1, <1>2, <2>1, <2>2
    DEF AcceptedInv, NewestIsCurrent, InstancesCopy, DrawnInOrder, Copies
<1>7. ASSUME NEW i \in Instances, PatchSucceeds(i) \/ PatchAnswerLost(i) PROVE AcceptedInv'
  BY <1>7, PublishesKeepsAccepted DEF PatchSucceeds, PatchAnswerLost
<1>8. ASSUME NEW i \in Instances, InitRotates(i) \/ RotateAgain(i) \/ InitLoadFails(i) PROVE AcceptedInv'
  <2>1. /\ next'[i].id = now /\ pc'[i] = "check"
        /\ \A j \in Instances \ {i} : next'[j] = next[j] /\ pc'[j] = pc[j]
        /\ UNCHANGED <<now, exists, regCur, regKeys, issued, loading, current, keys, age, anomaly>>
    BY <1>1, <1>8
    DEF InitRotates, RotateAgain, InitLoadFails, Rotate, Goto, TypeOK, registry, service, history
  <2>2. anomaly = {} /\ IsKey(current[i]) => current[i].id <= now
    BY <1>1, <1>3, CopiesAreOlder, InvFacts DEF DrawnInOrder
  <2> QED
    BY <1>1, <1>3, <2>1, <2>2, QuietKeepsAccepted DEF DrawnInOrder
<1>9. ASSUME NEW i \in Instances, CheckExists(i) PROVE AcceptedInv'
  <2>1. /\ \A j \in Instances \ {i} : current'[j] = current[j] /\ pc'[j] = pc[j]
        /\ \/ exists /\ pc'[i] = "patch" /\ current'[i] = current[i]
           \/ pc'[i] = "put" /\ ~IsKey(current'[i])
        /\ pc[i] = "check"
        /\ UNCHANGED <<now, exists, regCur, regKeys, issued, loading, next, keys, age, anomaly>>
    BY <1>1, <1>9 DEF CheckExists, Goto, TypeOK, registry, history, IsKey, InitMark
  <2> QED
    BY <1>1, <1>3, <2>1, QuietKeepsAccepted DEF DrawnInOrder
<1>10. ASSUME NEW i \in Instances, PutChecks(i) PROVE AcceptedInv'
  <2>1. /\ \A j \in Instances \ {i} : pc'[j] = pc[j]
        /\ (exists /\ pc'[i] = "merge") \/ pc'[i] = "create"
        /\ UNCHANGED <<now, exists, regCur, regKeys, issued, loading, next, current, keys, age, anomaly>>
    BY <1>1, <1>10 DEF PutChecks, Goto, TypeOK, registry, service, history
  <2> QED
    BY <1>1, <1>3, <2>1, QuietKeepsAccepted DEF DrawnInOrder
<1>11. ASSUME NEW i \in Instances, PutCreates(i) PROVE AcceptedInv'
  <2>1. /\ \A j \in Instances \ {i} : pc'[j] = pc[j]
        /\ ~exists /\ exists' /\ pc'[i] = "patch" /\ ~IsKey(regCur')
        /\ UNCHANGED <<now, regKeys, issued, loading, next, current, keys, age, anomaly>>
    BY <1>1, <1>11 DEF PutCreates, Goto, TypeOK, service, history, IsKey, InitMark
  <2>2. anomaly = {} => ~IsKey(regCur) /\ ~IsKey(current[i])
    BY <1>1, <2>1, CopiesAreOlder DEF DrawnInOrder
  <2> QED
    BY <1>1, <1>3, <2>1, <2>2, QuietKeepsAccepted DEF DrawnInOrder
<1>12. ASSUME NEW i \in Instances, PutFails(i) \/ PatchFails(i) \/ RequestFails(i) PROVE AcceptedInv'
  <2>1. /\ \A j \in Instances \ {i} : pc'[j] = pc[j] /\ next'[j] = next[j]
        /\ pc'[i] \in {"up", "reload"} /\ next'[i].id = 0
        /\ UNCHANGED <<now, exists, regCur, regKeys, issued, loading, current, keys, age, anomaly>>
    BY <1>1, <1>12
    DEF PutFails, PatchFails, RequestFails, Goto, TypeOK, registry, service, history, NoRotation
  <2> QED
    BY <1>1, <1>3, <2>1, QuietKeepsAccepted DEF DrawnInOrder
<1>13. ASSUME NEW i \in Instances, PutMerges(i) PROVE AcceptedInv'
  BY <1>13 DEF PutMerges, Anomaly, AcceptedInv
<1>14. ASSUME NEW i \in Instances, PutAnswerLost(i) PROVE AcceptedInv'
  <2>1. CASE pc[i] = "merge"
    BY <1>14, <2>1 DEF PutAnswerLost, Anomaly, AcceptedInv
  <2>2. CASE pc[i] # "merge"
    <3>1. /\ \A j \in Instances \ {i} : pc'[j] = pc[j] /\ next'[j] = next[j]
          /\ pc'[i] = "up" /\ next'[i].id = 0 /\ ~exists /\ exists' /\ ~IsKey(regCur')
          /\ UNCHANGED <<now, regKeys, issued, loading, current, keys, age, anomaly>>
      BY <1>1, <1>14, <2>2
      DEF PutAnswerLost, Goto, TypeOK, service, NoRotation, Anomaly, IsKey, InitMark
    <3>2. anomaly = {} => ~IsKey(regCur)
      BY <1>1, <3>1 DEF DrawnInOrder
    <3> QED
      BY <1>1, <1>3, <3>1, <3>2, QuietKeepsAccepted DEF DrawnInOrder
  <2> QED
    BY <2>1, <2>2
<1>15. ASSUME NEW i \in Instances, Crash(i) PROVE AcceptedInv'
  <2>1. /\ \A j \in Instances \ {i} : /\ pc'[j] = pc[j] /\ next'[j] = next[j]
                                   /\ current'[j] = current[j] /\ age'[j] = age[j]
                                   /\ keys'[j] = keys[j] /\ loading'[j] = loading[j]
        /\ pc'[i] = "down" /\ next'[i].id = 0 /\ ~IsKey(current'[i]) /\ keys'[i] = NoKeys
        /\ loading'[i] = NoLoad
        /\ UNCHANGED <<now, exists, regCur, regKeys, issued, anomaly>>
    BY <1>1, <1>15 DEF Crash, Goto, TypeOK, registry, history, NoRotation, IsKey, Undefined
  <2> QED
    BY <1>1, <1>3, <2>1, QuietKeepsAccepted DEF DrawnInOrder
<1>16. CASE Tick
  <2>1. now' = now + 1 /\ UNCHANGED <<exists, regCur, regKeys, issued, pc, next, loading, current, keys,
                                    age, anomaly>>
    BY <1>16 DEF Tick, registry, service, history
  <2> QED
    BY <1>1, <1>3, <2>1, QuietKeepsAccepted DEF DrawnInOrder
<1>17. CASE UNCHANGED vars
  <2>1. UNCHANGED <<now, exists, regCur, regKeys, issued, pc, next, loading, current, keys, age, anomaly>>
    BY <1>17 DEF vars, registry, service, history
  <2> QED
    BY <2>1 DEF AcceptedInv, NewestIsCurrent, InstancesCopy, Copies, DrawnInOrder
<1> QED
  BY <1>4, <1>5, <1>6, <1>7, <1>8, <1>9, <1>10, <1>11, <1>12, <1>13, <1>14, <1>15, <1>16, <1>17
  DEF Next, Initialize, Continue, Fault

\* A signature made by one instance is accepted by every instance that has a
\* current key, unless two instances raced to create the entry, two rotations
\* began in the same second or an instance reloaded while it rotated.
THEOREM SignaturesAreAccepted == Spec => []AcceptedByAll
<1>1. Inv /\ AcceptedInv => AcceptedByAll
  <2> SUFFICES ASSUME Inv, AcceptedInv, anomaly = {}, NEW i \in Instances, Ready(i),
                      NEW p \in issued
               PROVE  Accepts(i, p[1], p[2])
    BY DEF AcceptedByAll
  <2>1. p[1] \in Ids /\ p[2] \in Keys
    BY DEF Inv, TypeOK
  <2>2. regKeys[p[1]] = p[2] /\ p[2] # None
    BY <2>1, IdsAndKeys DEF AcceptedInv, NewestIsCurrent
  <2>3. Copies(current[i], keys[i]) /\ IsKey(current[i]) /\ age[i] = current[i].id
    BY DEF AcceptedInv, InstancesCopy, Ready
  <2> QED
    BY <2>1, <2>2, <2>3, InvFacts DEF Copies, Accepts
<1>2. Init => AcceptedInv
  BY AcceptedInit
<1>3. Inv /\ Inv' /\ AcceptedInv /\ [Next]_vars => AcceptedInv'
  BY AcceptedStep
<1> QED
  BY <1>1, <1>2, <1>3, InvCorrect, PTL DEF Spec
=============================================================================
