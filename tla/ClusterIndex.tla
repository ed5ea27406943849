---------------------------- MODULE ClusterIndex ----------------------------
(***************************************************************************)
(* What the cluster cache of crates/k8s-lsp-cluster promises its readers:  *)
(* the index of resource names is replaced as a whole by one finished      *)
(* refresh, or left alone by a refresh that could not reach the cluster.   *)
(* ClusterState is the detailed model that implements this one.            *)
(***************************************************************************)
CONSTANTS
  Tasks,      \* the refresh tasks that may be spawned
  Indexes,    \* the indexes a refresh may end with
  EmptyIndex  \* the index before the first refresh

VARIABLES
  index,      \* Inner.resources
  refreshing  \* the spawned refresh tasks that have not finished

clusterVars == <<index, refreshing>>

ASSUME EmptyIndexAssumption == EmptyIndex \in Indexes

ClusterInit == index = EmptyIndex /\ refreshing = {}

Spawn(t) ==
  /\ t \notin refreshing
  /\ refreshing' = refreshing \cup {t}
  /\ UNCHANGED index

Commit(t, i) ==
  /\ t \in refreshing
  /\ index' = i
  /\ refreshing' = refreshing \ {t}

Abandon(t) ==
  /\ t \in refreshing
  /\ refreshing' = refreshing \ {t}
  /\ UNCHANGED index

ClusterNext ==
  \E t \in Tasks :
    \/ Spawn(t)
    \/ \E i \in Indexes : Commit(t, i)
    \/ Abandon(t)

ClusterSpec == ClusterInit /\ [][ClusterNext]_clusterVars

ClusterTypeOK == index \in Indexes /\ refreshing \subseteq Tasks
=============================================================================
