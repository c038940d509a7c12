---------------------------- MODULE MCClusterAPI ----------------------------
(* Instances of ClusterAPI for TLC. *)
EXTENDS ClusterAPI, TLC

\* All hosted clusters are in one namespace, so that they share its desire.
OneNamespace == [k \in Clusters |-> "ns"]

\* Three slots on two management clusters, so that requests run out of them
\* and that a level load differs from filling one after the other.
TwoAndOne == [m \in MgmtClusters |-> IF m = 1 THEN 2 ELSE 1]

\* Neither requests nor hosted clusters are told apart.
Symmetry == Permutations(Requests) \cup Permutations(Clusters)
=============================================================================
