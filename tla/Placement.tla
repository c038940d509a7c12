------------------------------ MODULE Placement ------------------------------
(***************************************************************************)
(* The placement database of internal/placement/placement.go: one counter  *)
(* document per management cluster and one mapping document per hosted     *)
(* cluster.  Every operator below is one call of placement.Client; the     *)
(* two calls that run a Firestore transaction (Allocate, Release) read and *)
(* write the counters in one atomic step, the others touch one document.   *)
(*                                                                         *)
(* Capacities are set by whoever runs the fleet; no code in src/ changes   *)
(* them, and none creates or removes a counter document.                   *)
(***************************************************************************)
EXTENDS Fleet

CONSTANTS Capacity,         \* the "capacity" field of each counter document
          NoMC              \* no management cluster: no mapping document

ASSUME PlacementAssumption ==
  /\ Capacity \in [MgmtClusters -> Nat]
  /\ NoMC \notin MgmtClusters

VARIABLES allocated,        \* the "allocated" field of each counter document
          clustermap        \* the management cluster each mapping names

placementVars == <<allocated, clustermap>>

PlacementTypeOK ==
  /\ allocated \in [MgmtClusters -> Nat]
  /\ clustermap \in [Clusters -> MgmtClusters \cup {NoMC}]

PlacementInit ==
  /\ allocated = [m \in MgmtClusters |-> 0]
  /\ clustermap = [k \in Clusters |-> NoMC]

-----------------------------------------------------------------------------

\* Faulty variants: operators named "...Fault" stand for a plausible bug in
\* the definition after them; no specification uses them.

\* "alloc > cap" instead of "alloc >= cap" skips a full management cluster.
HasRoomFault(m) == allocated[m] <= Capacity[m]

HasRoom(m) == allocated[m] < Capacity[m]

NoCapacity == \A m \in MgmtClusters : ~HasRoom(m)

\* The scan stops at the first management cluster with room.
LeastLoadedFault(m) ==
  HasRoom(m) /\ \A n \in MgmtClusters : HasRoom(n) => m <= n

\* The scan of Allocate: a later document replaces the best one only when its
\* count is strictly lower, so a tie goes to the first document ID.
LeastLoaded(m) ==
  /\ HasRoom(m)
  /\ \A n \in MgmtClusters :
       HasRoom(n) => \/ allocated[m] < allocated[n]
                     \/ allocated[m] = allocated[n] /\ m <= n

Allocate(m) ==
  /\ LeastLoaded(m)
  /\ allocated' = [allocated EXCEPT ![m] = @ + 1]

Release(m) ==
  allocated' = IF allocated[m] = 0 THEN allocated
               ELSE [allocated EXCEPT ![m] = @ - 1]

GetClusterMapping(k, m) == clustermap[k] = m /\ m # NoMC

ClusterMappingNotFound(k) == clustermap[k] = NoMC

SetClusterMapping(k, m) == clustermap' = [clustermap EXCEPT ![k] = m]

DeleteClusterMapping(k) == clustermap' = [clustermap EXCEPT ![k] = NoMC]
=============================================================================
