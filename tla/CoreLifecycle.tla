--------------------------- MODULE CoreLifecycle ---------------------------
(***************************************************************************)
(* The life of the services of a Core (packages/core/src/core/core.ts):    *)
(* init() creates and resolves them, sorts and initialises them one after  *)
(* the other; stop() stops them all at once, also while init() is under    *)
(* way (runApplication installs its SIGINT handler before init()).  Every  *)
(* one of these methods is wrapped by the State decorator of               *)
(* packages/utils/src/state.ts, whose counter is shared by the calls of    *)
(* one object.                                                             *)
(*                                                                         *)
(* A core without a configuration service: resolve() is then synchronous,  *)
(* and its recursion is kept as an explicit stack.                         *)
(***************************************************************************)
EXTENDS Integers, FiniteSets, Sequences

CONSTANTS
  Services,
  Stores       \* those that are a Store

ASSUME LifecycleAssumption == IsFiniteSet(Services) /\ Stores \subseteq Services

VARIABLES
  deps,        \* the services that each service injects
  created,     \* the keys of this.services
  stack,       \* getService() calls under way, outermost first
  initOrders,
  initCall,    \* the phase of core.init()
  position,    \* of the service that init() is at, in initOrders
  stopCall,    \* the phase of core.stop()
  coreState, serviceState,
  nesting,     \* ACTIVE_COUNTER of each service
  coreNesting, \* ACTIVE_COUNTER of the core
  initing,     \* the init() of each service: root call, nested call, done
  stopping,    \* the stop() of each service
  overlap      \* history: TRUE if init() was under way when stop() was called

lifecycleVars == <<deps, created, stack, initOrders, initCall, position, stopCall,
  coreState, serviceState, nesting, coreNesting, initing, stopping, overlap>>

resolution == <<deps, created, stack, initOrders>>

Phases == {"new", "root", "nested", "done", "failed"}

Transitional == {"initializing", "stopping"}

States == {"initial", "resolved", "errored", "running", "stopped"} \union Transitional

LifecycleTypeOK ==
  /\ deps \in [Services -> SUBSET Services]
  /\ created \subseteq Services
  /\ stack \in Seq(created)
  /\ initOrders \in Seq(created) /\ Len(initOrders) <= Cardinality(created)
  /\ initCall \in {"new", "resolving", "initialising", "done", "failed"}
  /\ position \in 1..(Len(initOrders) + 1)
  /\ stopCall \in Phases
  /\ coreState \in {"initial", "initializing", "ready", "stopping", "stopped"}
  /\ serviceState \in [Services -> States]
  /\ nesting \in [Services -> 0..2]
  /\ coreNesting \in 0..2
  /\ initing \in [Services -> Phases]
  /\ stopping \in [Services -> Phases]
  /\ overlap \in BOOLEAN

LifecycleInit ==
  /\ deps \in [Services -> SUBSET Services]
  /\ \A s \in Services : s \notin deps[s]
  /\ created = {}
  /\ stack = <<>> /\ initOrders = <<>>
  /\ initCall = "new" /\ position = 1
  /\ stopCall = "new"
  /\ coreState = "initial"
  /\ serviceState = [s \in Services |-> "initial"]
  /\ nesting = [s \in Services |-> 0]
  /\ coreNesting = 0
  /\ initing = [s \in Services |-> "new"]
  /\ stopping = [s \in Services |-> "new"]
  /\ overlap = FALSE

----------------------------------------------------------------------------
(* The State decorator *)

\* Mutant: every call counts as the outermost one
KindOfEveryCall(n) == "root"

\* isRoot: only a call that finds the counter at 0 moves the state
Kind(n) == IF n = 0 THEN "root" ELSE "nested"

Started(kind, state, start) == IF kind = "root" THEN start ELSE state

Ended(kind, state, end) == IF kind = "root" THEN end ELSE state

----------------------------------------------------------------------------
(* resolve(): getService() of every configured service, in any order *)

Begin ==
  /\ initCall = "new"
  /\ initCall' = "resolving"
  /\ coreState' = "initializing"
  /\ coreNesting' = coreNesting + 1
  /\ UNCHANGED <<resolution, position, stopCall, serviceState, nesting, initing,
                 stopping, overlap>>

\* createService() stores the instance before its resolve() injects the others,
\* so that a cycle of dependencies meets an instance that is not resolved yet
GetService(s) ==
  /\ initCall = "resolving"
  /\ s \notin created
  /\ stack # <<>> => s \in deps[stack[Len(stack)]]
  /\ created' = created \union {s}
  /\ stack' = Append(stack, s)
  /\ UNCHANGED <<deps, initOrders, initCall, position, stopCall, coreState, serviceState,
                 nesting, coreNesting, initing, stopping, overlap>>

Resolvable == initCall = "resolving" /\ stack # <<>>

\* Mutant: the name is added before the instance is resolved
ResolvedFirst(s) == <<s>> \o initOrders

Resolved(s) == Append(initOrders, s)

ServiceResolves ==
  /\ Resolvable
  /\ LET s == stack[Len(stack)]
     IN /\ deps[s] \subseteq created
        /\ initOrders' = Resolved(s)
        /\ serviceState' = [serviceState EXCEPT ![s] = "resolved"]
  /\ stack' = SubSeq(stack, 1, Len(stack) - 1)
  /\ UNCHANGED <<deps, created, initCall, position, stopCall, coreState, nesting,
                 coreNesting, initing, stopping, overlap>>

\* An injection or an override of resolve() throws, through all of the stack,
\* and rejects init().  CoreState has no error state: the core becomes ready.
ServiceFailsToResolve ==
  /\ Resolvable
  /\ serviceState' = [s \in Services |->
       IF \E i \in DOMAIN stack : stack[i] = s THEN "errored" ELSE serviceState[s]]
  /\ stack' = <<>>
  /\ initCall' = "failed"
  /\ coreState' = "ready"
  /\ coreNesting' = coreNesting - 1
  /\ UNCHANGED <<deps, created, initOrders, position, stopCall, nesting, initing,
                 stopping, overlap>>

\* What the comparator of the sort says of two services
Precedes(s, t) == s \in Stores /\ t \notin Stores

\* The stable sort that puts the stores first, once all services are resolved:
\* `from` is where each of them was before
StoresFirst ==
  /\ initCall = "resolving" /\ stack = <<>> /\ created = Services
  /\ \E from \in [DOMAIN initOrders -> DOMAIN initOrders] :
       /\ \A j \in DOMAIN from : \E i \in DOMAIN from : from[i] = j
       /\ \A i, j \in DOMAIN from : i < j =>
            \/ Precedes(initOrders[from[i]], initOrders[from[j]])
            \/ ~Precedes(initOrders[from[j]], initOrders[from[i]]) /\ from[i] < from[j]
       /\ initOrders' = [i \in DOMAIN from |-> initOrders[from[i]]]
  /\ initCall' = "initialising"
  /\ UNCHANGED <<deps, created, stack, position, stopCall, coreState, serviceState,
                 nesting, coreNesting, initing, stopping, overlap>>

----------------------------------------------------------------------------
(* initService() of one service after the other *)

\* The loop over initOrders is over
AllInitialised == position > Len(initOrders)

InitStarts ==
  /\ initCall = "initialising" /\ ~AllInitialised
  /\ LET s == initOrders[position]
         kind == Kind(nesting[s])
     IN /\ initing[s] = "new"
        /\ initing' = [initing EXCEPT ![s] = kind]
        /\ nesting' = [nesting EXCEPT ![s] = @ + 1]
        /\ serviceState' = [serviceState EXCEPT ![s] = Started(kind, @, "initializing")]
  /\ UNCHANGED <<resolution, initCall, position, stopCall, coreState, coreNesting,
                 stopping, overlap>>

Initing(s) == initing[s] \in {"root", "nested"}

\* init() of the service settles; its error is logged and the next one is due
InitEnds(s) ==
  /\ Initing(s)
  /\ \E end \in {"running", "errored"} :
       serviceState' = [serviceState EXCEPT ![s] = Ended(initing[s], @, end)]
  /\ initing' = [initing EXCEPT ![s] = "done"]
  /\ nesting' = [nesting EXCEPT ![s] = @ - 1]
  /\ position' = position + 1
  /\ UNCHANGED <<resolution, initCall, stopCall, coreState, coreNesting, stopping, overlap>>

CoreIsReady ==
  /\ initCall = "initialising" /\ AllInitialised
  /\ initCall' = "done"
  /\ coreState' = "ready"
  /\ coreNesting' = coreNesting - 1
  /\ UNCHANGED <<resolution, position, stopCall, serviceState, nesting, initing,
                 stopping, overlap>>

----------------------------------------------------------------------------
(* stop(), called once init() has begun, calls stop() of every service and *)
(* cancel() of every interruptable process, which returns a promise.       *)

Stop ==
  /\ stopCall = "new" /\ initCall \notin {"new", "resolving"}
  /\ stopCall' = Kind(coreNesting)
  /\ coreState' = Started(stopCall', coreState, "stopping")
  /\ coreNesting' = coreNesting + 1
  /\ stopping' = [s \in Services |-> IF s \in created THEN Kind(nesting[s]) ELSE "new"]
  /\ serviceState' = [s \in Services |->
       IF s \in created THEN Started(stopping'[s], serviceState[s], "stopping")
       ELSE serviceState[s]]
  /\ nesting' = [s \in Services |-> IF s \in created THEN nesting[s] + 1 ELSE nesting[s]]
  /\ overlap' = (initCall = "initialising")
  /\ UNCHANGED <<resolution, initCall, position, initing>>

Stopping(s) == stopping[s] \in {"root", "nested"}

StopEnds(s) ==
  /\ Stopping(s)
  /\ \E end \in {"stopped", "errored"} :
       serviceState' = [serviceState EXCEPT ![s] = Ended(stopping[s], @, end)]
  /\ stopping' = [stopping EXCEPT ![s] = "done"]
  /\ nesting' = [nesting EXCEPT ![s] = @ - 1]
  /\ UNCHANGED <<resolution, initCall, position, stopCall, coreState, coreNesting,
                 initing, overlap>>

\* Mutant: the promises of the services are not awaited
CoreIsStoppedAtOnce ==
  /\ stopCall \in {"root", "nested"}
  /\ stopCall' = "done"
  /\ coreState' = Ended(stopCall, coreState, "stopped")
  /\ coreNesting' = coreNesting - 1
  /\ UNCHANGED <<resolution, initCall, position, serviceState, nesting, initing,
                 stopping, overlap>>

\* An error of a service is logged and the others are awaited
CoreIsStopped ==
  /\ stopCall \in {"root", "nested"}
  /\ \A s \in Services : ~Stopping(s)
  /\ stopCall' = "done"
  /\ coreState' = Ended(stopCall, coreState, "stopped")
  /\ coreNesting' = coreNesting - 1
  /\ UNCHANGED <<resolution, initCall, position, serviceState, nesting, initing,
                 stopping, overlap>>

\* The cancel() of an interruptable rejects.  Nobody catches that: stop() rejects
\* without waiting for the services, and CoreState has no error state.
CancelRejects ==
  /\ stopCall \in {"root", "nested"}
  /\ stopCall' = "failed"
  /\ coreState' = Ended(stopCall, coreState, "stopped")
  /\ coreNesting' = coreNesting - 1
  /\ UNCHANGED <<resolution, initCall, position, serviceState, nesting, initing,
                 stopping, overlap>>

LifecycleNext ==
  \/ Begin \/ ServiceResolves \/ ServiceFailsToResolve \/ StoresFirst
  \/ InitStarts \/ CoreIsReady \/ Stop \/ CoreIsStopped \/ CancelRejects
  \/ \E s \in Services : GetService(s) \/ InitEnds(s) \/ StopEnds(s)

LifecycleSpec == LifecycleInit /\ [][LifecycleNext]_lifecycleVars

----------------------------------------------------------------------------
\* s and what it injects, directly or through others: what every set of services
\* has that contains s and, with a service, those that it injects
NeededBy(s) ==
  {t \in Services :
     \A closed \in SUBSET Services :
       s \in closed /\ (\A u \in closed : deps[u] \subseteq closed) => t \in closed}

\* A service is initialised after the services it injects, whatever the order
\* of the configuration, unless it is a store that injects another kind of
\* service (the sort puts it first) or it is injected by them in turn.
InitAfterDependencies ==
  \A s \in Services : \A d \in deps[s] :
    initing[s] # "new"
    => initing[d] = "done" \/ s \in NeededBy(d) \/ (s \in Stores /\ d \notin Stores)

StateFollowsRootCall ==
  /\ \A s \in created : nesting[s] =
       (IF Initing(s) THEN 1 ELSE 0) + (IF Stopping(s) THEN 1 ELSE 0)
  /\ \A s \in Services : serviceState[s] \in Transitional
       <=> "root" \in {initing[s], stopping[s]}
  /\ coreState \in Transitional
       <=> initCall \in {"resolving", "initialising"} \/ stopCall = "root"

StoppedUnlessOverlap ==
  stopCall = "done" /\ ~overlap
  => coreState = "stopped"
     /\ \A s \in created : serviceState[s] \in {"stopped", "errored"}

\* The state of a service, or of the core, shows that a call is under way
\* exactly while the outermost call is, however init() and stop() overlap and
\* however they end.  And once stop() has resolved, every service is stopped, or
\* in error, and stays so, unless init() was still under way when it was called:
\* that init() goes on and leaves running services behind.  A stop() that an
\* interruptable made reject promises nothing of the services: the core is
\* "stopped" while they are still stopping.
StatesFollowCalls == StateFollowsRootCall /\ StoppedUnlessOverlap
=============================================================================
