------------------------------ MODULE Cluster ------------------------------
(***************************************************************************)
(* ClusterService (packages/runtime/src/services/cluster.ts): the          *)
(* instances of an application that forward their events to each other     *)
(* over a pub/sub, and know each other by the messages they receive: each  *)
(* publishes a keep-alive every keepAlive, and forgets a member not heard  *)
(* of for ttl.                                                             *)
(*                                                                         *)
(* Time advances in ticks, KeepAlive to a period; lastSeen is kept as an   *)
(* age.  The pub/sub is the one of AtMostOncePubSub: in order, possibly    *)
(* losing, and here late by MaxDelay at most.  MemberAdded and             *)
(* MemberRemoved are not modelled as messages: their data carries an       *)
(* emitterId, so sendMessage skips them.  A keep-alive the pub/sub refuses  *)
(* rejects updateCluster in a timer, unhandled: it is the end of the       *)
(* process, a crash here.                                                  *)
(***************************************************************************)
EXTENDS Naturals, FiniteSets, Sequences, Functions

CONSTANTS
  Nodes,
  Events,       \* events emitted by the models, services and stores of a node
  EmittedAt,    \* the node of each event
  KeepAlive, Ttl,
  MaxDelay,     \* how late a message may arrive, in ticks
  MaxLosses,    \* bound: messages lost
  MaxNodeCrashes    \* bound: crashes of a node

ASSUME ClusterAssumption ==
  /\ IsFiniteSet(Nodes) /\ IsFiniteSet(Events)
  /\ EmittedAt \in [Events -> Nodes]
  /\ KeepAlive \in Nat \ {0} /\ Ttl \in Nat \ {0} /\ MaxDelay \in Nat
  /\ MaxLosses \in Nat /\ MaxNodeCrashes \in Nat
  /\ "keepAlive" \notin Events

VARIABLES
  running,        \* the nodes that run
  members,   \* members[n][m]: ticks since n has heard of m; Ttl stands for more
  due,       \* ticks to the next updateCluster of each node
  net,       \* net[m][n]: messages published by m that n has not received
  emitted,   \* events emitted so far
  seen,      \* seen[n][e]: how often n has dispatched event e
  losses, nodeCrashes,
  falsely    \* history: a running node was forgotten without a message lost

clusterVars == <<running, members, due, net, emitted, seen, losses, nodeCrashes, falsely>>

Message == [body : Events \union {"keepAlive"}, age : 0..MaxDelay]

ClusterTypeOK ==
  /\ running \subseteq Nodes
  /\ \A n \in Nodes :
       /\ DOMAIN members[n] \subseteq Nodes \ {n}
       /\ \A m \in DOMAIN members[n] : members[n][m] \in 0..Ttl
       /\ due[n] \in 0..KeepAlive
       /\ \A m \in Nodes : \A i \in DOMAIN net[m][n] : net[m][n][i] \in Message
  /\ emitted \subseteq Events
  /\ seen \in [Nodes -> [Events -> 0..2]]
  /\ losses \in 0..MaxLosses /\ nodeCrashes \in 0..MaxNodeCrashes
  /\ falsely \in BOOLEAN

Nothing == [m \in {} |-> 0]

ClusterInit ==
  /\ running = {}
  /\ members = [n \in Nodes |-> Nothing]
  /\ due = [n \in Nodes |-> 0]
  /\ net = [m \in Nodes |-> [n \in Nodes |-> <<>>]]
  /\ emitted = {} /\ seen = [n \in Nodes |-> [e \in Events |-> 0]]
  /\ losses = 0 /\ nodeCrashes = 0 /\ falsely = FALSE

\* pubSub.sendMessage: every other running node consumes.
Published(n, body) ==
  [net EXCEPT ![n] = [m \in Nodes |->
     IF m \in running \ {n} THEN Append(@[m], [body |-> body, age |-> 0]) ELSE @[m]]]

\* Mutant: an event received is sent round again
SkipsOnlyEmpty(n, forwarded) == members[n] = Nothing

\* sendMessage of an event: not to an empty cluster, and not an event that was
\* itself received (forwarded: its data holds an emitterId).
Skips(n, forwarded) == forwarded \/ members[n] = Nothing

Forwards(n, e, forwarded) ==
  IF Skips(n, forwarded) THEN net ELSE Published(n, e)

-----------------------------------------------------------------------------
(* Membership *)

\* Once all services are initialized: consume, then the first updateCluster.
Join(n) ==
  /\ n \notin running
  /\ running' = running \union {n}
  /\ members' = [members EXCEPT ![n] = Nothing]
  /\ due' = [due EXCEPT ![n] = KeepAlive]
  /\ net' = Published(n, "keepAlive")
  /\ UNCHANGED <<emitted, seen, losses, nodeCrashes, falsely>>

Outdated(n) == {m \in DOMAIN members[n] : members[n][m] >= Ttl}

UpdateCluster(n) ==
  /\ n \in running /\ due[n] = 0
  /\ due' = [due EXCEPT ![n] = KeepAlive]
  /\ net' = Published(n, "keepAlive")
  /\ members' = [members EXCEPT ![n] = Restrict(@, DOMAIN @ \ Outdated(n))]
  /\ falsely' = (falsely \/ (losses = 0 /\ nodeCrashes = 0 /\ Outdated(n) # {}))
  /\ UNCHANGED <<running, emitted, seen, losses, nodeCrashes>>

\* Mutant: only a member that is known is refreshed
HeardOnlyIfKnown(n, m) ==
  IF m \in DOMAIN members[n] THEN [members EXCEPT ![n][m] = 0] ELSE members

\* A message makes its emitter a member, or refreshes it
Heard(n, m) ==
  [members EXCEPT ![n] =
     [o \in DOMAIN @ \union {m} |-> IF o = m THEN 0 ELSE @[o]]]

-----------------------------------------------------------------------------
(* Events *)

Emit(e) ==
  LET n == EmittedAt[e] IN
    /\ n \in running /\ e \notin emitted
    /\ emitted' = emitted \union {e}
    /\ seen' = [seen EXCEPT ![n][e] = @ + 1]
    /\ net' = Forwards(n, e, FALSE)
    /\ UNCHANGED <<running, members, due, losses, nodeCrashes, falsely>>

\* handleMessage at n of the oldest message of m; an event is emitted locally,
\* where the listener that forwards events hears it too.
HandleMessage(n, m) ==
  /\ n \in running /\ net[m][n] # <<>>
  /\ members' = Heard(n, m)
  /\ LET body == Head(net[m][n]).body
         sent == IF body \in Events THEN Forwards(n, body, TRUE) ELSE net
     IN  /\ net' = [sent EXCEPT ![m][n] = Tail(@)]
         /\ IF body \in Events
              THEN seen[n][body] < 2 /\ seen' = [seen EXCEPT ![n][body] = @ + 1]
              ELSE UNCHANGED seen
  /\ UNCHANGED <<running, due, emitted, losses, nodeCrashes, falsely>>

-----------------------------------------------------------------------------
(* Time and faults *)

\* Timers fire and messages arrive on time.
Tick ==
  /\ \A n \in running : due[n] > 0
  /\ \A m, n \in Nodes : \A i \in DOMAIN net[m][n] : net[m][n][i].age < MaxDelay
  /\ due' = [n \in Nodes |-> IF n \in running THEN due[n] - 1 ELSE 0]
  /\ members' = [n \in Nodes |-> [m \in DOMAIN members[n] |->
                    IF members[n][m] < Ttl THEN members[n][m] + 1 ELSE Ttl]]
  /\ net' = [m \in Nodes |-> [n \in Nodes |-> [i \in DOMAIN net[m][n] |->
                [net[m][n][i] EXCEPT !.age = @ + 1]]]]
  /\ UNCHANGED <<running, emitted, seen, losses, nodeCrashes, falsely>>

Lose(m, n) ==
  /\ losses < MaxLosses /\ net[m][n] # <<>>
  /\ losses' = losses + 1
  /\ net' = [net EXCEPT ![m][n] = Tail(@)]
  /\ UNCHANGED <<running, members, due, emitted, seen, nodeCrashes, falsely>>

\* A crash loses the table of members and what was on its way to the node; the
\* emitterId is that of the machine, so a restart is the same member.
NodeCrashes(n) ==
  /\ n \in running /\ nodeCrashes < MaxNodeCrashes
  /\ nodeCrashes' = nodeCrashes + 1
  /\ running' = running \ {n}
  /\ members' = [members EXCEPT ![n] = Nothing]
  /\ due' = [due EXCEPT ![n] = 0]
  /\ net' = [m \in Nodes |-> [net[m] EXCEPT ![n] = <<>>]]
  /\ UNCHANGED <<emitted, seen, losses, falsely>>

ClusterNext ==
  \/ \E n \in Nodes : Join(n) \/ UpdateCluster(n) \/ NodeCrashes(n)
  \/ \E m, n \in Nodes : HandleMessage(n, m) \/ Lose(m, n)
  \/ \E e \in Events : Emit(e)
  \/ Tick

ClusterSpec == ClusterInit /\ [][ClusterNext]_clusterVars

-----------------------------------------------------------------------------
(* Properties *)

DispatchedOnce == \A n \in Nodes, e \in Events : seen[n][e] <= 1

NoFalseRemoval == ~falsely

\* An event that is received is dispatched once and not sent round again, though
\* it is emitted where a listener forwards the events of the node; and as long
\* as no message is lost and nothing crashes no member is forgotten ("missed 2
\* ttl"), however the timers and the delays fall.
StableCluster == DispatchedOnce /\ NoFalseRemoval

\* After the last loss and the last crash every node knows exactly the nodes
\* that run.
MembersConverge ==
  <>[](\A n \in running : DOMAIN members[n] = running \ {n})
=============================================================================
