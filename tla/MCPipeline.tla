----------------------------- MODULE MCPipeline -----------------------------
(* Instances of Pipeline for TLC. *)
EXTENDS Pipeline, TLC

OneNamespace == [k \in Clusters |-> "ns"]

TwoAndOne == [m \in MgmtClusters |-> IF m = 1 THEN 2 ELSE 1]

Symmetry == Permutations(Requests) \cup Permutations(Clusters)
=============================================================================
