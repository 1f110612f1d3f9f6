--------------------------- MODULE BackendsProofs ---------------------------
(* What is proved of each component of MCBackends holds of the five together. *)
EXTENDS MCBackends, StorageProofs, MessagingProofs

\* Each component runs its own specification while the others stand still, whichever
\* is in focus: what is proved of one of them alone holds of the five together.
THEOREM BackendsComposed ==
  FairSpec => RepositorySpec /\ BinarySpec /\ FileQueueSpec /\ SocketSpec /\ ClusterSpec
<1>1. Init => RepositoryInit /\ BinaryInit /\ FileQueueInit /\ SocketInit /\ ClusterInit
  BY DEF Init
<1>2. [Next]_vars => /\ [RepositoryNext]_repositoryVars /\ [BinaryNext]_binaryVars
                     /\ [FileQueueNext]_fileVars /\ [SocketNext]_socketVars
                     /\ [ClusterNext]_clusterVars
  BY DEF Next, vars, storageVars
<1>. QED
  BY <1>1, <1>2, PTL
     DEF FairSpec, RepositorySpec, BinarySpec, FileQueueSpec, SocketSpec, ClusterSpec

\* The state of the five components together stays in its types.
THEOREM BackendsTypesCorrect == FairSpec => []TypesOK
<1>1. RepositoryTypeOK /\ BinaryTypeOK /\ FileQueueTypeOK /\ SocketTypeOK /\ ClusterTypeOK
      => TypesOK
  BY DEF TypesOK
<1>. QED
  BY <1>1, BackendsComposed, RepositoryTypeCorrect, BinaryTypeCorrect, FileQueueTypeCorrect,
     SocketTypeCorrect, ClusterTypeCorrect, PTL
=============================================================================
