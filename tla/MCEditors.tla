----------------------------- MODULE MCEditors -----------------------------
(* An instance of Editors for TLC. *)
EXTENDS Editors

OneNamespace == [k \in Clusters |-> "ns"]

OneSlot == [m \in MgmtClusters |-> 1]
=============================================================================
