-------------------------------- MODULE Fleet --------------------------------
(***************************************************************************)
(* What the databases of hyperkube are indexed by: the management clusters *)
(* of the region and the hosted clusters that clients name.                *)
(*                                                                         *)
(* Management clusters are natural numbers in the order of their document  *)
(* IDs, the order in which Firestore returns them to Placement's Allocate. *)
(* A hosted cluster is a namespace/name pair, which identifies the mapping *)
(* document (clusterMapDocID) and, hashed with the task and the resource,  *)
(* the desires of the cluster (mhcDocumentID); Kubernetes names have no    *)
(* separator in them, so two pairs never share a document.  The desire of  *)
(* a namespace is identified by the namespace alone (nsDocumentID), so all *)
(* its clusters share it.                                                  *)
(***************************************************************************)
EXTENDS Integers, FiniteSets

CONSTANTS MgmtClusters,     \* IDs of the documents of "managementclusters"
          Clusters,         \* the namespace/name pairs of hosted clusters
          Namespaces,       \* the namespaces they are in
          NamespaceOf       \* the namespace of each hosted cluster

ASSUME FleetAssumption ==
  /\ MgmtClusters \subseteq Nat
  /\ IsFiniteSet(Clusters)
  /\ NamespaceOf \in [Clusters -> Namespaces]
=============================================================================
