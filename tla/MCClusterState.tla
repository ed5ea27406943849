--------------------------- MODULE MCClusterState ---------------------------
(***************************************************************************)
(* Instances of ClusterState for TLC: two refreshes that may overlap, one  *)
(* completion, two kinds listed one after the other.                       *)
(***************************************************************************)
EXTENDS ClusterState

TwoKinds == <<"Namespace", "ConfigMap">>
=============================================================================
