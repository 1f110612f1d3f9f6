----------------------------- MODULE MCBackends -----------------------------
(* Five components over storage or a network, each explored on its own:    *)
(* `focus` says which one moves.                                           *)
EXTENDS Repository, FileBinary, FileQueue, SocketPubSub, Cluster, TLC

CONSTANTS r1, r2, r3, n1, n2, e1

VARIABLE focus

\* r1 and r2 run in one process, r3 in another.
ProcessOf == r1 :> 1 @@ r2 :> 1 @@ r3 :> 2

EmittedAtOf == e1 :> n1

Init ==
  /\ focus \in {"repository", "binary", "queue", "socket", "cluster"}
  /\ RepositoryInit /\ BinaryInit /\ FileQueueInit /\ SocketInit /\ ClusterInit

Next ==
  \/ /\ focus = "repository" /\ RepositoryNext
     /\ UNCHANGED <<focus, binaryVars, fileVars, socketVars, clusterVars>>
  \/ /\ focus = "binary" /\ BinaryNext
     /\ UNCHANGED <<focus, repositoryVars, fileVars, socketVars, clusterVars>>
  \/ /\ focus = "queue" /\ FileQueueNext
     /\ UNCHANGED <<focus, repositoryVars, binaryVars, socketVars, clusterVars>>
  \/ /\ focus = "socket" /\ SocketNext
     /\ UNCHANGED <<focus, repositoryVars, binaryVars, fileVars, clusterVars>>
  \/ /\ focus = "cluster" /\ ClusterNext
     /\ UNCHANGED <<focus, repositoryVars, binaryVars, fileVars, socketVars>>

storageVars == <<focus, repositoryVars, binaryVars, fileVars>>

vars == <<storageVars, socketVars, clusterVars>>

\* One of the actions of the component in focus.
OfSocket(A) == focus = "socket" /\ A /\ UNCHANGED <<storageVars, clusterVars>>
OfCluster(A) == focus = "cluster" /\ A /\ UNCHANGED <<storageVars, socketVars>>

\* Every peer gets on with its reconnection; timers fire and messages arrive.
Fairness ==
  /\ \A p \in Peers : WF_vars(OfSocket(Progress(p)))
  /\ WF_vars(OfCluster(Tick))
  /\ \A n \in Nodes :
       /\ WF_vars(OfCluster(UpdateCluster(n)))
       /\ \A m \in Nodes : WF_vars(OfCluster(HandleMessage(n, m)))

FairSpec == Init /\ [][Next]_vars /\ Fairness

TypesOK ==
  RepositoryTypeOK /\ BinaryTypeOK /\ FileQueueTypeOK /\ SocketTypeOK /\ ClusterTypeOK
=============================================================================
