--------------------------- MODULE DocumentProofs ---------------------------
(***************************************************************************)
(* Proofs about what the handlers of ClusterAPI leave in the four stores,  *)
(* for every fleet, capacity, set of requests, interleaving and failure:   *)
(* that a namespace is desired before its hosted clusters, that no Update  *)
(* undoes another, that the counters stay level, that a Create answered    *)
(* 200 lasts and a mapping leads to an ApplyDesire until a Delete          *)
(* interferes, and, with one request at a time, that the four stores       *)
(* agree.                                                                  *)
(*                                                                         *)
(* Every step is first stated pointwise: which document it writes, and     *)
(* that it moves its own request only (the lemmas from Rows to UnmapStep). *)
(* The proofs after that never expand a handler again. DocumentInv, at the *)
(* end, is the inductive invariant: a conjunction of parts that are each   *)
(* proved on their own, from the parts before them.                        *)
(***************************************************************************)
EXTENDS LedgerProofs

USE FleetAssumption, PlacementAssumption, DesiresAssumption
USE DEF CreateSteps, UpdateSteps, DeleteSteps, PlacedSteps, Codes,
        placementVars, desireVars

\* A step of r: the other requests stay where they are.
OthersStay(r) ==
  /\ op' = op /\ key' = key
  /\ \A s \in Requests \ {r} : /\ pc'[s] = pc[s] /\ mc'[s] = mc[s]
                               /\ base'[s] = base[s] /\ code'[s] = code[s]

\* r goes from one step to another, with this status, and stays with the
\* management cluster and the version it had.
Row(r, from, to, status) ==
  /\ pc[r] = from /\ pc'[r] = to /\ code'[r] = status
  /\ mc'[r] = mc[r] /\ base'[r] = base[r]

\* A failed, refused or fruitless request. It is answered 404 only while it
\* still looks for its mapping or its ApplyDesire.
Ended(r) ==
  /\ pc'[r] = "done" /\ code'[r] \in {404, 409, 500}
  /\ mc'[r] = mc[r] /\ base'[r] = base[r]
  /\ pc[r] # "done"
  /\ code'[r] = 404 =>
       pc[r] \in {"start", "get_update", "get_delete", "replace"}

\* The lookup of the mapping has found the management cluster of r's name.
Settles(r, to) ==
  /\ pc[r] = "start" /\ pc'[r] = to /\ code'[r] = code[r] /\ base'[r] = base[r]
  /\ mc'[r] \in MgmtClusters /\ mc'[r] = clustermap[key[r]]

\* The steps that touch no database: r ends, found a mapping, found none to
\* be in the way of a Create, or has read the ApplyDesire it will replace.
Quiet(r) ==
  \/ Ended(r)
  \/ op[r] = "Create" /\ Row(r, "start", "allocate", code[r])
       /\ ClusterMappingNotFound(key[r])
  \/ op[r] = "Update" /\ Settles(r, "get_update")
  \/ op[r] = "Delete" /\ Settles(r, "get_delete")
  \/ /\ pc[r] = "get_update" /\ pc'[r] = "replace" /\ code'[r] = code[r]
     /\ mc'[r] = mc[r] /\ base'[r] = applyDesires[mc[r]][key[r]]
     /\ ApplyExists(mc[r], key[r])
  \/ Row(r, "get_delete", "delete_apply", code[r]) /\ ApplyExists(mc[r], key[r])

\* The actions that read, are refused or fail, and write to no database.
QuietAction(r) ==
  \/ CreateLookup(r) \/ CreateNoCapacity(r) \/ CreateApplyConflict(r)
  \/ CreateReadConflict(r) \/ UpdateLookup(r) \/ UpdateGet(r)
  \/ UpdateConflict(r) \/ DeleteLookup(r) \/ DeleteGet(r)
  \/ CreateDeleteConflict(r) \/ LookupNotFound(r) \/ GetNotFound(r) \/ Fail(r)

\* Goto and Answer move r only, and nothing but its step and its status.
LEMMA Rows ==
  ASSUME TypeOK, NEW r \in Requests, UNCHANGED <<op, key, base, mc>>
  PROVE  /\ \A step : Goto(r, step) =>
              OthersStay(r) /\ Row(r, pc[r], step, code[r])
         /\ \A status : Answer(r, status) =>
              OthersStay(r) /\ Row(r, pc[r], "done", status)
BY DEF TypeOK, RequestsTypeOK, Goto, Answer, OthersStay, Row

\* Each of these actions is one of the quiet steps, and leaves the databases
\* alone.
LEMMA QuietStep ==
  ASSUME TypeOK, NEW r \in Requests, QuietAction(r)
  PROVE  OthersStay(r) /\ Quiet(r) /\ UNCHANGED <<placementVars, desireVars>>
<1>1. ASSUME NEW status \in {404, 409, 500}, Answer(r, status), pc[r] # "done",
             status = 404 => pc[r] \in {"start", "get_update", "get_delete",
                                        "replace"},
             UNCHANGED <<op, key, mc, base>>
      PROVE  OthersStay(r) /\ Quiet(r)
  BY <1>1, Rows DEF Row, Quiet, Ended
<1>2. ASSUME NEW m \in MgmtClusters, NEW step, Goto(r, step), Target(r, m),
             UNCHANGED <<op, key, base>>
      PROVE  /\ OthersStay(r) /\ pc'[r] = step /\ code'[r] = code[r]
             /\ base'[r] = base[r] /\ mc'[r] = m
  BY <1>2 DEF Goto, Target, OthersStay, TypeOK, RequestsTypeOK
<1>3. CASE CreateLookup(r)
  BY <1>1, <1>3, Rows DEF CreateLookup, Admitted, Quiet, Row
<1>4. CASE CreateNoCapacity(r)
  BY <1>1, <1>4 DEF CreateNoCapacity
<1>5. CASE CreateApplyConflict(r)
  BY <1>1, <1>5 DEF CreateApplyConflict
<1>6. CASE CreateReadConflict(r)
  BY <1>1, <1>6 DEF CreateReadConflict
<1>7. CASE UpdateLookup(r)
  BY <1>2, <1>7 DEF UpdateLookup, Admitted, GetClusterMapping, Quiet, Settles
<1>8. CASE UpdateGet(r)
  BY <1>8 DEF UpdateGet, Goto, Quiet, OthersStay, TypeOK, RequestsTypeOK
<1>9. CASE UpdateConflict(r)
  BY <1>1, <1>9 DEF UpdateConflict
<1>10. CASE DeleteLookup(r)
  BY <1>2, <1>10 DEF DeleteLookup, Admitted, GetClusterMapping, Quiet, Settles
<1>11. CASE DeleteGet(r)
  BY <1>11, Rows DEF DeleteGet, Quiet, Row
<1>12. CASE CreateDeleteConflict(r)
  BY <1>1, <1>12 DEF CreateDeleteConflict
<1>13. CASE LookupNotFound(r)
  BY <1>1, <1>13 DEF LookupNotFound, Admitted
<1>14. CASE GetNotFound(r)
  BY <1>1, <1>14 DEF GetNotFound
<1>15. CASE Fail(r)
  BY <1>1, <1>15 DEF Fail
<1> QED
  BY <1>3, <1>4, <1>5, <1>6, <1>7, <1>8, <1>9, <1>10, <1>11, <1>12, <1>13,
     <1>14, <1>15
  DEF QuietAction, CreateLookup, CreateNoCapacity, CreateApplyConflict,
     CreateReadConflict, UpdateLookup, UpdateGet, UpdateConflict, DeleteLookup,
     DeleteGet, CreateDeleteConflict, LookupNotFound, GetNotFound, Fail

-----------------------------------------------------------------------------
(* The steps that write to one, document by document. *)

\* The ApplyDesire of r's hosted cluster has the version v afterwards.
WritesApply(r, v) ==
  \A m \in MgmtClusters, k \in Clusters :
    applyDesires'[m][k] = IF m = mc[r] /\ k = key[r] THEN v
      ELSE applyDesires[m][k]

\* From "create_ns" on a request has a management cluster and a name.
LEMMA Placed ==
  ASSUME TypeOK, NEW r \in Requests, pc[r] \in PlacedSteps
  PROVE  mc[r] \in MgmtClusters /\ key[r] \in Clusters
           /\ NamespaceOf[key[r]] \in Namespaces
BY DEF TypeOK, RequestsTypeOK

\* AllocateManagementCluster: the least loaded management cluster with room,
\* and one more slot of it.
LEMMA AllocateStep ==
  ASSUME TypeOK, NEW r \in Requests, CreateAllocate(r)
  PROVE  /\ OthersStay(r)
         /\ pc[r] = "allocate" /\ pc'[r] = "create_ns"
         /\ code'[r] = code[r] /\ base'[r] = base[r]
         /\ mc'[r] \in MgmtClusters /\ LeastLoaded(mc'[r])
         /\ \A m \in MgmtClusters : allocated'[m] =
              IF m = mc'[r] THEN allocated[m] + 1 ELSE allocated[m]
         /\ UNCHANGED <<clustermap, desireVars>>
BY DEF CreateAllocate, Allocate, Target, Goto, OthersStay, TypeOK,
       RequestsTypeOK, PlacementTypeOK

\* The ApplyDesire of the namespace is there afterwards, created or found.
LEMMA NamespaceStep ==
  ASSUME TypeOK, NEW r \in Requests, CreateNamespace(r)
  PROVE  /\ OthersStay(r) /\ Row(r, "create_ns", "create_apply", code[r])
         /\ \A m \in MgmtClusters : nsDesires[m] \subseteq nsDesires'[m]
         /\ NamespaceOf[key[r]] \in nsDesires'[mc[r]]
         /\ UNCHANGED <<placementVars, applyDesires, readDesires,
              deleteDesires>>
<1>1. OthersStay(r) /\ Row(r, "create_ns", "create_apply", code[r])
  BY Rows DEF CreateNamespace, Row
<1>2. mc[r] \in MgmtClusters
  BY Placed DEF CreateNamespace
<1> QED
  BY <1>1, <1>2 DEF CreateNamespace, EnsureNamespace, TypeOK, DesiresTypeOK

\* The ApplyDesire of the hosted cluster was not there and has r's version
\* afterwards.
LEMMA CreateApplyStep ==
  ASSUME TypeOK, NEW r \in Requests, CreateApplyDesire(r)
  PROVE  /\ OthersStay(r) /\ Row(r, "create_apply", "create_read", code[r])
         /\ ~ApplyExists(mc[r], key[r]) /\ WritesApply(r, r)
         /\ UNCHANGED <<placementVars, nsDesires, readDesires, deleteDesires>>
<1>1. OthersStay(r) /\ Row(r, "create_apply", "create_read", code[r])
  BY Rows DEF CreateApplyDesire, Row
<1>2. mc[r] \in MgmtClusters /\ key[r] \in Clusters
  BY Placed DEF CreateApplyDesire
<1>3. WritesApply(r, r)
  BY <1>2 DEF CreateApplyDesire, CreateApply, WritesApply, TypeOK, DesiresTypeOK
<1> QED
  BY <1>1, <1>3 DEF CreateApplyDesire, CreateApply

\* The ReadDesire is there afterwards.
LEMMA CreateReadStep ==
  ASSUME TypeOK, NEW r \in Requests, CreateReadDesire(r)
  PROVE  /\ OthersStay(r) /\ Row(r, "create_read", "set_mapping", code[r])
         /\ \A m \in MgmtClusters : readDesires'[m] =
              IF m = mc[r] THEN readDesires[m] \cup {key[r]} ELSE readDesires[m]
         /\ UNCHANGED <<placementVars, applyDesires, nsDesires, deleteDesires>>
<1>1. OthersStay(r) /\ Row(r, "create_read", "set_mapping", code[r])
  BY Rows DEF CreateReadDesire, Row
<1>2. mc[r] \in MgmtClusters
  BY Placed DEF CreateReadDesire
<1> QED
  BY <1>1, <1>2 DEF CreateReadDesire, CreateRead, TypeOK, DesiresTypeOK

\* SetClusterMapping: the name leads to r's management cluster, whatever it
\* led to before.
LEMMA MappingStep ==
  ASSUME TypeOK, NEW r \in Requests, CreateMapping(r)
  PROVE  /\ OthersStay(r) /\ Row(r, "set_mapping", "done", 200)
         /\ \A k \in Clusters :
              clustermap'[k] = IF k = key[r] THEN mc[r] ELSE clustermap[k]
         /\ UNCHANGED <<allocated, desireVars>>
<1>1. OthersStay(r) /\ Row(r, "set_mapping", "done", 200)
  BY Rows DEF CreateMapping, Row
<1> QED
  BY <1>1 DEF CreateMapping, SetClusterMapping, TypeOK, PlacementTypeOK

\* The compare-and-swap of Update finds the version that r read, and puts r's
\* own in its place.
LEMMA ReplaceStep ==
  ASSUME TypeOK, NEW r \in Requests, UpdateReplace(r)
  PROVE  /\ OthersStay(r) /\ Row(r, "replace", "done", 200)
         /\ applyDesires[mc[r]][key[r]] = base[r] /\ WritesApply(r, r)
         /\ UNCHANGED <<placementVars, nsDesires, readDesires, deleteDesires>>
<1>1. OthersStay(r) /\ Row(r, "replace", "done", 200)
  BY Rows DEF UpdateReplace, Row
<1>2. mc[r] \in MgmtClusters /\ key[r] \in Clusters
  BY Placed DEF UpdateReplace
<1>3. WritesApply(r, r)
  BY <1>2 DEF UpdateReplace, ReplaceApply, WritesApply, TypeOK, DesiresTypeOK
<1> QED
  BY <1>1, <1>3 DEF UpdateReplace, ReplaceApply

\* DeleteApplyDesire: there is none of this hosted cluster afterwards.
LEMMA DeleteApplyStep ==
  ASSUME TypeOK, NEW r \in Requests, DeleteApplyDesire(r)
  PROVE  /\ OthersStay(r) /\ Row(r, "delete_apply", "delete_read", code[r])
         /\ WritesApply(r, NoDoc)
         /\ UNCHANGED <<placementVars, nsDesires, readDesires, deleteDesires>>
<1>1. OthersStay(r) /\ Row(r, "delete_apply", "delete_read", code[r])
  BY Rows DEF DeleteApplyDesire, Row
<1>2. mc[r] \in MgmtClusters /\ key[r] \in Clusters
  BY Placed DEF DeleteApplyDesire
<1>3. WritesApply(r, NoDoc)
  BY <1>2 DEF DeleteApplyDesire, DeleteApply, WritesApply, TypeOK, DesiresTypeOK
<1> QED
  BY <1>1, <1>3 DEF DeleteApplyDesire

\* DeleteReadDesire: there is none of this hosted cluster afterwards.
LEMMA DeleteReadStep ==
  ASSUME TypeOK, NEW r \in Requests, DeleteReadDesire(r)
  PROVE  /\ OthersStay(r) /\ Row(r, "delete_read", "create_delete", code[r])
         /\ \A m \in MgmtClusters : readDesires'[m] =
              IF m = mc[r] THEN readDesires[m] \ {key[r]} ELSE readDesires[m]
         /\ UNCHANGED <<placementVars, applyDesires, nsDesires, deleteDesires>>
<1>1. OthersStay(r) /\ Row(r, "delete_read", "create_delete", code[r])
  BY Rows DEF DeleteReadDesire, Row
<1>2. mc[r] \in MgmtClusters
  BY Placed DEF DeleteReadDesire
<1> QED
  BY <1>1, <1>2 DEF DeleteReadDesire, DeleteRead, TypeOK, DesiresTypeOK

\* The DeleteDesire of the hosted cluster was not there and is afterwards.
LEMMA CreateDeleteStep ==
  ASSUME TypeOK, NEW r \in Requests, CreateDeleteDesire(r)
  PROVE  /\ OthersStay(r) /\ Row(r, "create_delete", "release", code[r])
         /\ key[r] \notin deleteDesires[mc[r]]
         /\ \A m \in MgmtClusters : deleteDesires'[m] =
              IF m = mc[r] THEN deleteDesires[m] \cup {key[r]}
                ELSE deleteDesires[m]
         /\ UNCHANGED <<placementVars, applyDesires, nsDesires, readDesires>>
<1>1. OthersStay(r) /\ Row(r, "create_delete", "release", code[r])
  BY Rows DEF CreateDeleteDesire, Row
<1>2. mc[r] \in MgmtClusters
  BY Placed DEF CreateDeleteDesire
<1> QED
  BY <1>1, <1>2 DEF CreateDeleteDesire, CreateDelete, TypeOK, DesiresTypeOK

\* ReleaseManagementCluster: one slot less, never below zero.
LEMMA ReleaseStep ==
  ASSUME TypeOK, NEW r \in Requests, DeleteRelease(r)
  PROVE  /\ OthersStay(r) /\ Row(r, "release", "delete_mapping", code[r])
         /\ \A m \in MgmtClusters : allocated'[m] =
              IF m = mc[r] /\ allocated[m] # 0 THEN allocated[m] - 1
                ELSE allocated[m]
         /\ UNCHANGED <<clustermap, desireVars>>
<1>1. OthersStay(r) /\ Row(r, "release", "delete_mapping", code[r])
  BY Rows DEF DeleteRelease, Row
<1>2. mc[r] \in MgmtClusters
  BY Placed DEF DeleteRelease
<1> QED
  BY <1>1, <1>2 DEF DeleteRelease, Release, TypeOK, PlacementTypeOK

\* DeleteClusterMapping: the name leads nowhere.
LEMMA UnmapStep ==
  ASSUME TypeOK, NEW r \in Requests, DeleteMapping(r)
  PROVE  /\ OthersStay(r) /\ Row(r, "delete_mapping", "done", 200)
         /\ \A k \in Clusters :
              clustermap'[k] = IF k = key[r] THEN NoMC ELSE clustermap[k]
         /\ UNCHANGED <<allocated, desireVars>>
<1>1. OthersStay(r) /\ Row(r, "delete_mapping", "done", 200)
  BY Rows DEF DeleteMapping, Row
<1> QED
  BY <1>1 DEF DeleteMapping, DeleteClusterMapping, TypeOK, PlacementTypeOK

\* A step of the handlers is quiet or one of the eleven writes.
LEMMA StepCases ==
  ASSUME [Next]_vars
  PROVE  \/ UNCHANGED vars
         \/ \E r \in Requests :
              \/ QuietAction(r) \/ CreateAllocate(r) \/ CreateNamespace(r)
              \/ CreateApplyDesire(r) \/ CreateReadDesire(r) \/ CreateMapping(r)
              \/ UpdateReplace(r) \/ DeleteApplyDesire(r) \/ DeleteReadDesire(r)
              \/ CreateDeleteDesire(r) \/ DeleteRelease(r) \/ DeleteMapping(r)
BY DEF Next, Step, CreateStep, UpdateStep, DeleteStep, QuietAction

\* A request is at a step of its own operation, has no status before it is
\* answered, and a Create has no management cluster before it is given one.
RequestInv ==
  \A r \in Requests :
    /\ pc[r] \in CreateSteps => op[r] = "Create"
    /\ pc[r] \in UpdateSteps => op[r] = "Update"
    /\ pc[r] \in DeleteSteps => op[r] = "Delete"
    /\ pc[r] # "done" => code[r] = 0
    /\ pc[r] \in {"start", "allocate"} => mc[r] = NoMC

\* No request has begun.
LEMMA RequestInit == Init => RequestInv
BY DEF Init, RequestInv

\* Each step leads to the next of the same handler.
LEMMA RequestStep ==
  ASSUME TypeOK, RequestInv, [Next]_vars PROVE RequestInv'
<1>1. ASSUME NEW r \in Requests, QuietAction(r) PROVE RequestInv'
  BY <1>1, QuietStep DEF RequestInv, OthersStay, Quiet, Ended, Row, Settles
<1>2. ASSUME NEW r \in Requests, CreateAllocate(r) PROVE RequestInv'
  BY <1>2, AllocateStep DEF RequestInv, OthersStay, Row
<1>3. ASSUME NEW r \in Requests, CreateNamespace(r) PROVE RequestInv'
  BY <1>3, NamespaceStep DEF RequestInv, OthersStay, Row
<1>4. ASSUME NEW r \in Requests, CreateApplyDesire(r) PROVE RequestInv'
  BY <1>4, CreateApplyStep DEF RequestInv, OthersStay, Row
<1>5. ASSUME NEW r \in Requests, CreateReadDesire(r) PROVE RequestInv'
  BY <1>5, CreateReadStep DEF RequestInv, OthersStay, Row
<1>6. ASSUME NEW r \in Requests, CreateMapping(r) PROVE RequestInv'
  BY <1>6, MappingStep DEF RequestInv, OthersStay, Row
<1>7. ASSUME NEW r \in Requests, UpdateReplace(r) PROVE RequestInv'
  BY <1>7, ReplaceStep DEF RequestInv, OthersStay, Row
<1>8. ASSUME NEW r \in Requests, DeleteApplyDesire(r) PROVE RequestInv'
  BY <1>8, DeleteApplyStep DEF RequestInv, OthersStay, Row
<1>9. ASSUME NEW r \in Requests, DeleteReadDesire(r) PROVE RequestInv'
  BY <1>9, DeleteReadStep DEF RequestInv, OthersStay, Row
<1>10. ASSUME NEW r \in Requests, CreateDeleteDesire(r) PROVE RequestInv'
  BY <1>10, CreateDeleteStep DEF RequestInv, OthersStay, Row
<1>11. ASSUME NEW r \in Requests, DeleteRelease(r) PROVE RequestInv'
  BY <1>11, ReleaseStep DEF RequestInv, OthersStay, Row
<1>12. ASSUME NEW r \in Requests, DeleteMapping(r) PROVE RequestInv'
  BY <1>12, UnmapStep DEF RequestInv, OthersStay, Row
<1>13. CASE UNCHANGED vars
  BY <1>13 DEF vars, requestVars, RequestInv
<1> QED
  BY <1>1, <1>2, <1>3, <1>4, <1>5, <1>6, <1>7, <1>8, <1>9, <1>10, <1>11, <1>12,
     <1>13, StepCases

\* A Create that is about to write the ApplyDesire of its hosted cluster has
\* written, or found, the one of the namespace.
NamespaceInv ==
  /\ \A r \in Requests :
       pc[r] = "create_apply" => NamespaceOf[key[r]] \in nsDesires[mc[r]]
  /\ NamespaceFirst

\* There is no ApplyDesire in the beginning.
LEMMA NamespaceInit == Init => NamespaceInv
BY DEF Init, NamespaceInv, NamespaceFirst, Live, ApplyExists, DesiresInit

\* Only CreateApplyDesire adds an ApplyDesire of a hosted cluster, in the
\* namespace that NamespaceInv has of it; no handler takes one of a namespace
\* away.
LEMMA NamespaceInvStep ==
  ASSUME TypeOK, HandlerInv, NamespaceInv, [Next]_vars PROVE NamespaceInv'
<1>1. ASSUME NEW r \in Requests, QuietAction(r) PROVE NamespaceInv'
  BY <1>1, QuietStep, Placed
     DEF HandlerInv, NamespaceInv, NamespaceFirst, Live, ApplyExists,
         WritesApply, OthersStay, Quiet, Ended, Row, Settles
<1>2. ASSUME NEW r \in Requests, CreateAllocate(r) PROVE NamespaceInv'
  BY <1>2, AllocateStep, Placed
     DEF HandlerInv, NamespaceInv, NamespaceFirst, Live, ApplyExists,
         WritesApply, OthersStay, Row
<1>3. ASSUME NEW r \in Requests, CreateNamespace(r) PROVE NamespaceInv'
  BY <1>3, NamespaceStep, Placed
     DEF HandlerInv, NamespaceInv, NamespaceFirst, Live, ApplyExists,
         WritesApply, OthersStay, Row
<1>4. ASSUME NEW r \in Requests, CreateApplyDesire(r) PROVE NamespaceInv'
  BY <1>4, CreateApplyStep, Placed
     DEF HandlerInv, NamespaceInv, NamespaceFirst, Live, ApplyExists,
         WritesApply, OthersStay, Row
<1>5. ASSUME NEW r \in Requests, CreateReadDesire(r) PROVE NamespaceInv'
  BY <1>5, CreateReadStep, Placed
     DEF HandlerInv, NamespaceInv, NamespaceFirst, Live, ApplyExists,
         WritesApply, OthersStay, Row
<1>6. ASSUME NEW r \in Requests, CreateMapping(r) PROVE NamespaceInv'
  BY <1>6, MappingStep, Placed
     DEF HandlerInv, NamespaceInv, NamespaceFirst, Live, ApplyExists,
         WritesApply, OthersStay, Row
<1>7. ASSUME NEW r \in Requests, UpdateReplace(r) PROVE NamespaceInv'
  BY <1>7, ReplaceStep, Placed
     DEF HandlerInv, NamespaceInv, NamespaceFirst, Live, ApplyExists,
         WritesApply, OthersStay, Row
<1>8. ASSUME NEW r \in Requests, DeleteApplyDesire(r) PROVE NamespaceInv'
  BY <1>8, DeleteApplyStep, Placed
     DEF HandlerInv, NamespaceInv, NamespaceFirst, Live, ApplyExists,
         WritesApply, OthersStay, Row
<1>9. ASSUME NEW r \in Requests, DeleteReadDesire(r) PROVE NamespaceInv'
  BY <1>9, DeleteReadStep, Placed
     DEF HandlerInv, NamespaceInv, NamespaceFirst, Live, ApplyExists,
         WritesApply, OthersStay, Row
<1>10. ASSUME NEW r \in Requests, CreateDeleteDesire(r) PROVE NamespaceInv'
  BY <1>10, CreateDeleteStep, Placed
     DEF HandlerInv, NamespaceInv, NamespaceFirst, Live, ApplyExists,
         WritesApply, OthersStay, Row
<1>11. ASSUME NEW r \in Requests, DeleteRelease(r) PROVE NamespaceInv'
  BY <1>11, ReleaseStep, Placed
     DEF HandlerInv, NamespaceInv, NamespaceFirst, Live, ApplyExists,
         WritesApply, OthersStay, Row
<1>12. ASSUME NEW r \in Requests, DeleteMapping(r) PROVE NamespaceInv'
  BY <1>12, UnmapStep, Placed
     DEF HandlerInv, NamespaceInv, NamespaceFirst, Live, ApplyExists,
         WritesApply, OthersStay, Row
<1>13. CASE UNCHANGED vars
  BY <1>13
     DEF vars, requestVars, NamespaceInv, NamespaceFirst, Live, ApplyExists,
         WritesApply
<1> QED
  BY <1>1, <1>2, <1>3, <1>4, <1>5, <1>6, <1>7, <1>8, <1>9, <1>10, <1>11, <1>12,
     <1>13, StepCases

\* The requests that may have written an ApplyDesire.
Written(r) == pc[r] \in {"create_read", "set_mapping", "done"}

\* A version is in one place, the one its request works on. The versions that
\* Updates began from were written; once such an Update has replaced one, no
\* document has it, and no request will write it again.
VersionInv ==
  /\ \A m \in MgmtClusters, k \in Clusters : ApplyExists(m, k) =>
       /\ Written(applyDesires[m][k])
       /\ mc[applyDesires[m][k]] = m
       /\ key[applyDesires[m][k]] = k
  /\ \A r \in Requests : base[r] # NoDoc => Written(base[r])
  /\ \A r \in Requests : op[r] = "Update" /\ code[r] = 200 =>
       /\ base[r] # NoDoc
       /\ \A m \in MgmtClusters, k \in Clusters : applyDesires[m][k] # base[r]
  /\ NoLostUpdate

\* No version is written in the beginning.
LEMMA VersionInit == Init => VersionInv
BY DEF Init, VersionInv, NoLostUpdate, ApplyExists, DesiresInit

\* A step of r after which its version, if it is written, still belongs to
\* the same place.
Stays(r) ==
  /\ OthersStay(r)
  /\ Written(r) =>
       pc'[r] \in {"create_read", "set_mapping", "done"} /\ mc'[r] = mc[r]

\* A step that leaves the ApplyDesires, and answers no Update 200, preserves
\* VersionInv.
LEMMA VersionKept ==
  ASSUME TypeOK, VersionInv, NEW r \in Requests, Stays(r), base'[r] = base[r],
         op[r] = "Update" => code'[r] # 200 \/ code'[r] = code[r],
         UNCHANGED applyDesires
  PROVE  VersionInv'
<1>1. \A s \in Requests : Written(s) => Written(s)' /\ mc'[s] = mc[s]
  BY DEF Stays, OthersStay, Written
<1>2. \A s \in Requests : base'[s] = base[s] /\
        base[s] \in Requests \cup {NoDoc}
  BY DEF Stays, OthersStay, TypeOK, RequestsTypeOK
<1>3. \A m \in MgmtClusters, k \in Clusters :
        applyDesires[m][k] \in Requests \cup {NoDoc}
  BY VersionType DEF TypeOK
<1> QED
  BY <1>1, <1>2, <1>3
     DEF VersionInv, NoLostUpdate, ApplyExists, Stays, OthersStay

\* What VersionInv says of one document.
LEMMA VersionPlace ==
  ASSUME TypeOK, VersionInv, NEW m \in MgmtClusters, NEW k \in Clusters,
         ApplyExists(m, k)
  PROVE  /\ applyDesires[m][k] \in Requests /\ Written(applyDesires[m][k])
         /\ mc[applyDesires[m][k]] = m /\ key[applyDesires[m][k]] = k
         /\ \A s \in Requests :
              op[s] = "Update" /\ code[s] = 200 => base[s] # applyDesires[m][k]
BY VersionType DEF VersionInv, ApplyExists, TypeOK

\* The same at the place request r works on.
LEMMA VersionThere ==
  ASSUME TypeOK, VersionInv, NEW r \in Requests, pc[r] \in PlacedSteps,
         base[r] # NoDoc, applyDesires[mc[r]][key[r]] = base[r]
  PROVE  /\ mc[base[r]] = mc[r] /\ key[base[r]] = key[r]
         /\ \A s \in Requests :
              op[s] = "Update" /\ code[s] = 200 => base[s] # base[r]
<1>1. PICK m \in MgmtClusters, k \in Clusters : m = mc[r] /\ k = key[r]
  BY Placed
<1>2. applyDesires[m][k] = base[r] /\ ApplyExists(m, k)
  BY <1>1 DEF ApplyExists
<1>3. /\ mc[applyDesires[m][k]] = m /\ key[applyDesires[m][k]] = k
      /\ \A s \in Requests :
           op[s] = "Update" /\ code[s] = 200 => base[s] # applyDesires[m][k]
  BY <1>2, VersionPlace
<1> QED
  BY <1>1, <1>2, <1>3

\* The quiet steps preserve it: an Update that reads a document reads a
\* version that is written.
LEMMA VersionQuiet ==
  ASSUME TypeOK, RequestInv, VersionInv, NEW r \in Requests, QuietAction(r)
  PROVE  VersionInv'
<1>1. OthersStay(r) /\ Quiet(r) /\ UNCHANGED applyDesires
  BY QuietStep
<1>2. Stays(r)
  BY <1>1 DEF Stays, Quiet, Ended, Row, Settles, Written
<1>3. op[r] = "Update" => code'[r] # 200 \/ code'[r] = code[r]
  BY <1>1 DEF Quiet, Ended, Row, Settles
<1>4. CASE base'[r] = base[r]
  BY <1>1, <1>2, <1>3, <1>4, VersionKept
<1>5. CASE base'[r] # base[r]
  <2>1. /\ pc[r] = "get_update" /\ base'[r] = applyDesires[mc[r]][key[r]]
        /\ ApplyExists(mc[r], key[r]) /\ pc'[r] = "replace" /\
             code'[r] = code[r]
    BY <1>1, <1>5 DEF Quiet, Ended, Row, Settles
  <2>2. code'[r] = 0
    BY <2>1 DEF RequestInv
  <2>3. \A s \in Requests : Written(s) => Written(s)' /\ mc'[s] = mc[s]
    BY <1>1, <2>1 DEF OthersStay, Written
  <2>4. applyDesires[mc[r]][key[r]] \in Requests /\
          Written(applyDesires[mc[r]][key[r]])
    <3>1. mc[r] \in MgmtClusters /\ key[r] \in Clusters
      BY <2>1, Placed
    <3> QED
      BY <2>1, <3>1, VersionPlace DEF ApplyExists
  <2>5. \A s \in Requests : base[s] \in Requests \cup {NoDoc}
    BY DEF TypeOK, RequestsTypeOK
  <2>6. \A m \in MgmtClusters, k \in Clusters :
          applyDesires[m][k] \in Requests \cup {NoDoc}
    BY VersionType DEF TypeOK
  <2>7. PICK v \in Requests : v = applyDesires[mc[r]][key[r]] /\ Written(v)
    BY <2>4
  <2>8. base'[r] = v /\ \A s \in Requests \ {r} : base'[s] = base[s]
    BY <1>1, <2>1, <2>7 DEF OthersStay
  <2>9. \A s \in Requests : base'[s] # NoDoc => Written(base[s])'
    BY <2>3, <2>5, <2>7, <2>8 DEF VersionInv
  <2>10. \A s \in Requests : op'[s] = "Update" /\ code'[s] = 200 =>
           s # r /\ op[s] = "Update" /\ code[s] = 200 /\ base'[s] = base[s]
    BY <1>1, <2>2 DEF OthersStay
  <2>11. ASSUME NEW m \in MgmtClusters, NEW k \in Clusters, ApplyExists(m, k)'
         PROVE  /\ Written(applyDesires[m][k])'
                /\ mc'[applyDesires'[m][k]] = m
                /\ key'[applyDesires'[m][k]] = k
    BY <1>1, <2>3, <2>6, <2>11, VersionPlace DEF ApplyExists, OthersStay
  <2>12. ASSUME NEW s \in Requests, op'[s] = "Update", code'[s] = 200
         PROVE  /\ base'[s] # NoDoc
                /\ \A m \in MgmtClusters, k \in Clusters :
                     applyDesires'[m][k] # base'[s]
    BY <1>1, <2>10, <2>12 DEF VersionInv
  <2>13. NoLostUpdate'
    BY <2>10 DEF VersionInv, NoLostUpdate
  <2> QED
    BY <2>9, <2>11, <2>12, <2>13 DEF VersionInv
<1> QED
  BY <1>4, <1>5

\* A version that is written is in no other place.
LEMMA VersionWritten ==
  ASSUME TypeOK, RequestInv, HandlerInv, VersionInv, NEW r \in Requests,
         OthersStay(r), WritesApply(r, r), base'[r] = base[r], mc'[r] = mc[r],
         ~Written(r), pc[r] \in PlacedSteps,
         \/ /\ pc[r] = "create_apply"
            /\ pc'[r] = "create_read" /\ code'[r] = code[r]
         \/ /\ pc[r] = "replace" /\ applyDesires[mc[r]][key[r]] = base[r]
            /\ pc'[r] = "done"
  PROVE  VersionInv'
<1>1. mc[r] \in MgmtClusters /\ key[r] \in Clusters
  BY Placed
<1>2. \A s \in Requests : base'[s] = base[s] /\
        base[s] \in Requests \cup {NoDoc}
  BY DEF OthersStay, TypeOK, RequestsTypeOK
<1>3. \A m \in MgmtClusters, k \in Clusters :
        applyDesires[m][k] \in Requests \cup {NoDoc}
  BY VersionType DEF TypeOK
<1>4. \A s \in Requests : (Written(s) => Written(s)' /\ s # r) /\ mc'[s] = mc[s]
  BY DEF OthersStay, Written
<1>5. Written(r)'
  BY DEF Written
<1>6. \A s \in Requests : base[s] # r
  BY <1>2 DEF VersionInv
<1>7. ASSUME NEW m \in MgmtClusters, NEW k \in Clusters, ApplyExists(m, k)'
      PROVE  /\ Written(applyDesires[m][k])'
             /\ mc'[applyDesires'[m][k]] = m
             /\ key'[applyDesires'[m][k]] = k
  <2>1. CASE m = mc[r] /\ k = key[r]
    BY <1>1, <1>4, <1>5, <2>1 DEF WritesApply, Written, OthersStay
  <2>2. CASE ~(m = mc[r] /\ k = key[r])
    BY <1>3, <1>4, <1>7, <2>2
       DEF WritesApply, Written, OthersStay, VersionInv, ApplyExists
  <2> QED
    BY <2>1, <2>2
<1>8. pc[r] = "replace" => \A m \in MgmtClusters, k \in Clusters :
        /\ applyDesires'[m][k] # base[r]
        /\ base[r] # NoDoc
  <2>1. SUFFICES ASSUME pc[r] = "replace", NEW m \in MgmtClusters,
                        NEW k \in Clusters
                 PROVE applyDesires'[m][k] # base[r] /\ base[r] # NoDoc
    OBVIOUS
  <2>2. base[r] # NoDoc /\ base[r] # r
    BY <1>6, <2>1 DEF HandlerInv
  <2>3. applyDesires[mc[r]][key[r]] = base[r]
    BY <2>1
  <2>4. mc[base[r]] = mc[r] /\ key[base[r]] = key[r]
    BY <2>1, <2>2, <2>3, VersionThere
  <2>5. applyDesires[m][k] = base[r] => m = mc[r] /\ k = key[r]
    <3>1. applyDesires[m][k] = base[r] => ApplyExists(m, k)
      BY <2>2 DEF ApplyExists
    <3>2. ApplyExists(m, k) => /\ mc[applyDesires[m][k]] = m
                               /\ key[applyDesires[m][k]] = k
      BY VersionPlace
    <3> QED
      BY <2>4, <3>1, <3>2
  <2> QED
    BY <1>1, <2>2, <2>5 DEF WritesApply
<1>9. code[r] = 0
  BY DEF RequestInv, Written
<1>10. ASSUME NEW s \in Requests, op'[s] = "Update", code'[s] = 200
       PROVE  /\ base'[s] # NoDoc
              /\ \A m \in MgmtClusters, k \in Clusters :
                   applyDesires'[m][k] # base'[s]
  <2>1. CASE s = r
    <3>1. pc[r] = "replace"
      BY <1>9, <1>10, <2>1
    <3>2. base[r] # NoDoc
      BY <3>1 DEF HandlerInv
    <3> QED
      BY <1>2, <1>8, <2>1, <3>1, <3>2
  <2>2. CASE s # r
    BY <1>2, <1>6, <1>10, <2>2 DEF WritesApply, VersionInv, OthersStay
  <2> QED
    BY <2>1, <2>2
<1>11. NoLostUpdate'
  <2>1. SUFFICES ASSUME NEW s \in Requests, NEW t \in Requests, s # t,
                        op'[s] = "Update", op'[t] = "Update",
                        code'[s] = 200, code'[t] = 200
                 PROVE  base'[s] # base'[t]
    BY DEF NoLostUpdate
  <2>2. ASSUME NEW u \in Requests, u # r, op[u] = "Update", code[u] = 200,
               pc[r] = "replace"
        PROVE  base[u] # base[r]
    <3>1. base[r] # NoDoc /\ applyDesires[mc[r]][key[r]] = base[r]
      BY <2>2 DEF HandlerInv
    <3> QED
      BY <2>2, <3>1, VersionThere
  <2>3. op[r] = "Update" /\ code'[r] = 200 => pc[r] = "replace"
    BY <1>9
  <2> QED
    BY <1>2, <2>1, <2>2, <2>3 DEF OthersStay, VersionInv, NoLostUpdate
<1> QED
  BY <1>2, <1>4, <1>7, <1>10, <1>11 DEF VersionInv

\* DeleteApplyDesire preserves it: there is one document less.
LEMMA VersionRemoved ==
  ASSUME TypeOK, VersionInv, NEW r \in Requests, DeleteApplyDesire(r)
  PROVE  VersionInv'
<1>1. /\ OthersStay(r) /\ Row(r, "delete_apply", "delete_read", code[r])
      /\ WritesApply(r, NoDoc)
  BY DeleteApplyStep
<1>2. \A s \in Requests : Written(s) => Written(s)' /\ mc'[s] = mc[s]
  BY <1>1 DEF OthersStay, Written, Row
<1>3. \A s \in Requests : base'[s] = base[s] /\
        base[s] \in Requests \cup {NoDoc}
  BY <1>1 DEF OthersStay, Row, TypeOK, RequestsTypeOK
<1>4. \A m \in MgmtClusters, k \in Clusters :
        applyDesires'[m][k] \in {applyDesires[m][k], NoDoc}
  BY <1>1 DEF WritesApply
<1>5. \A m \in MgmtClusters, k \in Clusters :
        applyDesires[m][k] \in Requests \cup {NoDoc}
  BY VersionType DEF TypeOK
<1>6. \A s \in Requests : op'[s] = op[s] /\ key'[s] = key[s] /\
        code'[s] = code[s]
  BY <1>1 DEF OthersStay, Row
<1>7. ASSUME NEW m \in MgmtClusters, NEW k \in Clusters, ApplyExists(m, k)'
      PROVE  /\ Written(applyDesires[m][k])'
             /\ mc'[applyDesires'[m][k]] = m
             /\ key'[applyDesires'[m][k]] = k
  BY <1>2, <1>4, <1>5, <1>6, <1>7, VersionPlace DEF ApplyExists
<1> QED
  BY <1>2, <1>3, <1>4, <1>6, <1>7 DEF VersionInv, NoLostUpdate

\* The version that UpdateReplace puts away is in no other place and is never
\* written again, so no other Update can have begun from it and replace it
\* too.
LEMMA VersionStep ==
  ASSUME TypeOK, RequestInv, HandlerInv, VersionInv, [Next]_vars
  PROVE  VersionInv'
<1>1. ASSUME NEW r \in Requests, QuietAction(r) PROVE VersionInv'
  BY <1>1, VersionQuiet
<1>2. ASSUME NEW r \in Requests, CreateAllocate(r) PROVE VersionInv'
  BY <1>2, AllocateStep, VersionKept DEF Stays, Written
<1>3. ASSUME NEW r \in Requests, CreateNamespace(r) PROVE VersionInv'
  BY <1>3, NamespaceStep, VersionKept DEF Stays, Row, Written
<1>4. ASSUME NEW r \in Requests, CreateApplyDesire(r) PROVE VersionInv'
  BY <1>4, CreateApplyStep, VersionWritten DEF Row, Written
<1>5. ASSUME NEW r \in Requests, CreateReadDesire(r) PROVE VersionInv'
  BY <1>5, CreateReadStep, VersionKept DEF Stays, Row, Written
<1>6. ASSUME NEW r \in Requests, CreateMapping(r) PROVE VersionInv'
  BY <1>6, MappingStep, VersionKept DEF Stays, Row, Written, RequestInv
<1>7. ASSUME NEW r \in Requests, UpdateReplace(r) PROVE VersionInv'
  BY <1>7, ReplaceStep, VersionWritten DEF Row, Written
<1>8. ASSUME NEW r \in Requests, DeleteApplyDesire(r) PROVE VersionInv'
  BY <1>8, VersionRemoved
<1>9. ASSUME NEW r \in Requests, DeleteReadDesire(r) PROVE VersionInv'
  BY <1>9, DeleteReadStep, VersionKept DEF Stays, Row, Written
<1>10. ASSUME NEW r \in Requests, CreateDeleteDesire(r) PROVE VersionInv'
  BY <1>10, CreateDeleteStep, VersionKept DEF Stays, Row, Written
<1>11. ASSUME NEW r \in Requests, DeleteRelease(r) PROVE VersionInv'
  BY <1>11, ReleaseStep, VersionKept DEF Stays, Row, Written
<1>12. ASSUME NEW r \in Requests, DeleteMapping(r) PROVE VersionInv'
  BY <1>12, UnmapStep, VersionKept DEF Stays, Row, Written, RequestInv
<1>13. CASE UNCHANGED vars
  BY <1>13 DEF vars, requestVars, VersionInv, NoLostUpdate, ApplyExists, Written
<1> QED
  BY <1>1, <1>2, <1>3, <1>4, <1>5, <1>6, <1>7, <1>8, <1>9, <1>10, <1>11, <1>12,
     <1>13, StepCases

\* Only after a DeleteDesire is written is a slot released.
LevelInv ==
  /\ \A r \in Requests : Winner(r) => deleteDesires[mc[r]] # {}
  /\ Balanced

\* Every counter is zero in the beginning.
LEMMA LevelInit == Init => LevelInv
BY DEF Init, LevelInv, Balanced, PlacementInit, Winner

\* A step that touches neither counters nor DeleteDesires
LEMMA LevelKept ==
  ASSUME TypeOK, LevelInv, NEW r \in Requests, OthersStay(r),
         Winner(r)' => Winner(r) /\ mc'[r] = mc[r],
         UNCHANGED <<allocated, deleteDesires>>
  PROVE  LevelInv'
<1>1. \A s \in Requests : Winner(s)' => Winner(s) /\ mc'[s] = mc[s]
  BY DEF OthersStay, Winner
<1> QED
  BY <1>1 DEF LevelInv, Balanced, HasRoom

\* AllocateManagementCluster takes the least loaded cluster with room, so it
\* ends at most one ahead of every other that has room. A full cluster stays
\* full until something is deleted.
LEMMA LevelStep ==
  ASSUME TypeOK, LevelInv, [Next]_vars PROVE LevelInv'
<1>1. ASSUME NEW r \in Requests, QuietAction(r) PROVE LevelInv'
  BY <1>1, QuietStep, LevelKept DEF Quiet, Ended, Row, Settles, Winner
<1>2. ASSUME NEW r \in Requests, CreateAllocate(r) PROVE LevelInv'
  <2>1. PICK n \in MgmtClusters :
          /\ OthersStay(r) /\ pc'[r] = "create_ns" /\ LeastLoaded(n)
          /\ \A m \in MgmtClusters : allocated'[m] =
               IF m = n THEN allocated[m] + 1 ELSE allocated[m]
          /\ deleteDesires' = deleteDesires
    BY <1>2, AllocateStep
  <2>2. \A m \in MgmtClusters : allocated[m] \in Nat /\ Capacity[m] \in Nat
    BY DEF TypeOK, PlacementTypeOK
  <2>3. \A s \in Requests : Winner(s)' => deleteDesires'[mc'[s]] # {}
    BY <2>1 DEF OthersStay, Winner, LevelInv
  <2>4. ASSUME \A m \in MgmtClusters : deleteDesires[m] = {},
               NEW x \in MgmtClusters, NEW y \in MgmtClusters,
               allocated'[x] > allocated'[y] + 1
        PROVE  ~HasRoom(y)'
    <3>1. allocated[x] > allocated[y] + 1 => ~(allocated[y] < Capacity[y])
      BY <2>4 DEF LevelInv, Balanced, HasRoom
    <3>2. CASE x = n
      <4>1. y # n /\ allocated'[y] = allocated[y] /\
              allocated[n] + 1 > allocated[y] + 1
        BY <2>1, <2>2, <2>4, <3>2
      <4>2. HasRoom(y) => allocated[n] <= allocated[y]
        BY <2>1, <2>2 DEF LeastLoaded
      <4> QED
        BY <2>2, <4>1, <4>2 DEF HasRoom
    <3>3. CASE x # n
      <4>1. allocated[x] > allocated[y] + 1
        BY <2>1, <2>2, <2>4, <3>3
      <4>2. y # n
        BY <2>1, <3>1, <4>1 DEF LeastLoaded, HasRoom
      <4> QED
        BY <2>1, <3>1, <4>1, <4>2 DEF HasRoom
    <3> QED
      BY <3>2, <3>3
  <2> QED
    BY <2>1, <2>3, <2>4 DEF LevelInv, Balanced
<1>3. ASSUME NEW r \in Requests, CreateNamespace(r) PROVE LevelInv'
  BY <1>3, NamespaceStep, LevelKept DEF Row, Winner
<1>4. ASSUME NEW r \in Requests, CreateApplyDesire(r) PROVE LevelInv'
  BY <1>4, CreateApplyStep, LevelKept DEF Row, Winner
<1>5. ASSUME NEW r \in Requests, CreateReadDesire(r) PROVE LevelInv'
  BY <1>5, CreateReadStep, LevelKept DEF Row, Winner
<1>6. ASSUME NEW r \in Requests, CreateMapping(r) PROVE LevelInv'
  BY <1>6, MappingStep, LevelKept DEF Row, Winner
<1>7. ASSUME NEW r \in Requests, UpdateReplace(r) PROVE LevelInv'
  BY <1>7, ReplaceStep, LevelKept DEF Row, Winner
<1>8. ASSUME NEW r \in Requests, DeleteApplyDesire(r) PROVE LevelInv'
  BY <1>8, DeleteApplyStep, LevelKept DEF Row, Winner
<1>9. ASSUME NEW r \in Requests, DeleteReadDesire(r) PROVE LevelInv'
  BY <1>9, DeleteReadStep, LevelKept DEF Row, Winner
<1>10. ASSUME NEW r \in Requests, CreateDeleteDesire(r) PROVE LevelInv'
  <2>1. PICK n \in MgmtClusters : n = mc[r]
    BY <1>10, Placed DEF CreateDeleteDesire
  <2>2. /\ OthersStay(r) /\ mc'[r] = n
        /\ deleteDesires'[n] # {}
        /\ \A m \in MgmtClusters \ {n} : deleteDesires'[m] = deleteDesires[m]
    BY <1>10, <2>1, CreateDeleteStep DEF Row
  <2>3. ASSUME NEW s \in Requests, Winner(s)' PROVE deleteDesires'[mc'[s]] # {}
    <3>1. s # r => Winner(s) /\ mc'[s] = mc[s]
      BY <2>2, <2>3 DEF OthersStay, Winner
    <3>2. s # r => mc[s] \in MgmtClusters
      BY <3>1, Placed DEF Winner
    <3> QED
      BY <2>2, <3>1, <3>2 DEF LevelInv
  <2> QED
    BY <2>2, <2>3 DEF LevelInv, Balanced
<1>11. ASSUME NEW r \in Requests, DeleteRelease(r) PROVE LevelInv'
  <2>1. OthersStay(r) /\ Row(r, "release", "delete_mapping", code[r])
          /\ deleteDesires' = deleteDesires
    BY <1>11, ReleaseStep
  <2>2. mc[r] \in MgmtClusters /\ deleteDesires[mc[r]] # {}
    BY <2>1, Placed DEF Row, LevelInv, Winner
  <2>3. \A s \in Requests : Winner(s)' => deleteDesires'[mc'[s]] # {}
    BY <2>1, <2>2 DEF OthersStay, Row, Winner, LevelInv
  <2> QED
    BY <2>1, <2>2, <2>3 DEF LevelInv, Balanced
<1>12. ASSUME NEW r \in Requests, DeleteMapping(r) PROVE LevelInv'
  BY <1>12, UnmapStep, LevelKept DEF Row, Winner
<1>13. CASE UNCHANGED vars
  BY <1>13 DEF vars, requestVars, LevelInv, Balanced, HasRoom, Winner
<1> QED
  BY <1>1, <1>2, <1>3, <1>4, <1>5, <1>6, <1>7, <1>8, <1>9, <1>10, <1>11, <1>12,
     <1>13, StepCases

\* The Creates that have written the ApplyDesire of their hosted cluster and
\* were not stopped by a failure.
Made(r) ==
  op[r] = "Create" /\
    (pc[r] \in {"create_read", "set_mapping"} \/ code[r] = 200)

\* A Delete of the hosted cluster has found a mapping.
Doomed(k) == \E d \in Requests : op[d] = "Delete" /\ key[d] = k /\ mc[d] # NoMC

\* What r has written so far is there, and once it is answered its name has a
\* mapping.
Lasting(r) ==
  /\ ApplyExists(mc[r], key[r])
  /\ pc[r] # "create_read" => key[r] \in readDesires[mc[r]]
  /\ code[r] = 200 => clustermap[key[r]] # NoMC

\* What a Create has written lasts until a Delete has found a mapping of its
\* name.
DurableInv ==
  \A r \in Requests : Made(r) =>
    mc[r] \in MgmtClusters /\ (Doomed(key[r]) \/ Lasting(r))

\* No Create has written anything.
LEMMA DurableInit == Init => DurableInv
BY DEF Init, DurableInv, Made

\* DurableInv is preserved by a step of r that only takes documents of
\* hosted clusters away that a Delete has found, if r keeps up its own part.
LEMMA DurableKept ==
  ASSUME TypeOK, DurableInv, NEW r \in Requests, OthersStay(r),
         mc[r] # NoMC => mc'[r] = mc[r],
         \A m \in MgmtClusters, k \in Clusters :
           /\ ApplyExists(m, k) => ApplyExists(m, k)' \/ Doomed(k)'
           /\ k \in readDesires[m] => k \in readDesires'[m] \/ Doomed(k)',
         \A k \in Clusters :
           clustermap[k] # NoMC => clustermap'[k] # NoMC \/ Doomed(k)',
         Made(r)' => mc'[r] \in MgmtClusters /\ (Doomed(key[r])' \/ Lasting(r)')
  PROVE  DurableInv'
<1>1. \A k : Doomed(k) => Doomed(k)'
  BY DEF Doomed, OthersStay
<1>2. ASSUME NEW s \in Requests, s # r, Made(s)'
      PROVE  mc'[s] \in MgmtClusters /\ (Doomed(key[s])' \/ Lasting(s)')
  <2>1. Made(s) /\ mc'[s] = mc[s] /\ key[s] \in Clusters
    BY <1>2 DEF Made, OthersStay, TypeOK, RequestsTypeOK
  <2>2. mc[s] \in MgmtClusters /\ (Doomed(key[s]) \/ Lasting(s))
    BY <2>1 DEF DurableInv
  <2>3. pc'[s] = pc[s] /\ code'[s] = code[s] /\ key' = key
    BY <1>2 DEF OthersStay
  <2> QED
    BY <1>1, <2>1, <2>2, <2>3 DEF Lasting, ApplyExists
<1>3. key' = key
  BY DEF OthersStay
<1> QED
  BY <1>2, <1>3 DEF DurableInv

\* A step that takes no document away, of a request that has not written one,
\* preserves DurableInv.
LEMMA DurableQuiet ==
  ASSUME TypeOK, RequestInv, DurableInv, NEW r \in Requests, OthersStay(r),
         mc[r] # NoMC => mc'[r] = mc[r],
         ~Made(r)',
         UNCHANGED <<clustermap, applyDesires, readDesires>>
  PROVE  DurableInv'
BY DurableKept DEF ApplyExists

\* Only a Delete that has found a mapping takes documents away, and from then
\* on the hosted cluster is doomed.
LEMMA DurableStep ==
  ASSUME TypeOK, RequestInv, DurableInv, [Next]_vars
  PROVE  DurableInv'
<1>1. ASSUME NEW r \in Requests, QuietAction(r) PROVE DurableInv'
  BY <1>1, QuietStep, DurableQuiet
     DEF Quiet, Ended, Row, Settles, RequestInv, Made, OthersStay
<1>2. ASSUME NEW r \in Requests, CreateAllocate(r) PROVE DurableInv'
  BY <1>2, AllocateStep, DurableQuiet DEF RequestInv, Made
<1>3. ASSUME NEW r \in Requests, CreateNamespace(r) PROVE DurableInv'
  BY <1>3, NamespaceStep, DurableQuiet DEF Row, RequestInv, Made
<1>4. ASSUME NEW r \in Requests, CreateApplyDesire(r) PROVE DurableInv'
  <2>1. /\ OthersStay(r) /\ Row(r, "create_apply", "create_read", code[r])
        /\ WritesApply(r, r) /\ UNCHANGED <<clustermap, readDesires>>
    BY <1>4, CreateApplyStep
  <2>2. mc[r] \in MgmtClusters /\ key[r] \in Clusters /\ code[r] = 0
    BY <2>1, Placed DEF Row, RequestInv
  <2>3. \A m \in MgmtClusters, k \in Clusters : ApplyExists(m, k) =>
          ApplyExists(m, k)'
    BY <2>1 DEF WritesApply, ApplyExists
  <2>4. ApplyExists(mc[r], key[r])'
    BY <2>1, <2>2 DEF WritesApply, ApplyExists, Row, OthersStay
  <2>5. mc'[r] \in MgmtClusters /\ Lasting(r)'
    BY <2>1, <2>2, <2>4 DEF Lasting, Row, OthersStay
  <2> QED
    BY <2>1, <2>3, <2>5, DurableKept DEF Row
<1>5. ASSUME NEW r \in Requests, CreateReadDesire(r) PROVE DurableInv'
  <2>1. /\ OthersStay(r) /\ Row(r, "create_read", "set_mapping", code[r])
        /\ \A m \in MgmtClusters : readDesires'[m] =
             IF m = mc[r] THEN readDesires[m] \cup {key[r]} ELSE readDesires[m]
        /\ UNCHANGED <<clustermap, applyDesires>>
    BY <1>5, CreateReadStep
  <2>2. mc[r] \in MgmtClusters /\ code[r] = 0 /\ op[r] = "Create"
    BY <2>1, Placed DEF Row, RequestInv
  <2>3. Doomed(key[r]) \/ ApplyExists(mc[r], key[r])
    BY <2>1, <2>2 DEF Row, DurableInv, Made, Lasting
  <2>4. Doomed(key[r]) => Doomed(key[r])'
    BY <2>1 DEF Doomed, OthersStay, Row
  <2>5. ApplyExists(mc[r], key[r]) => Lasting(r)'
    <3>1. mc'[r] = mc[r] /\ key'[r] = key[r] /\ code'[r] = 0
      BY <2>1, <2>2 DEF Row, OthersStay
    <3>2. key[r] \in readDesires'[mc[r]]
      BY <2>1, <2>2
    <3> QED
      BY <2>1, <3>1, <3>2 DEF Lasting, ApplyExists
  <2>6. \A m \in MgmtClusters, k \in Clusters :
          /\ ApplyExists(m, k) => ApplyExists(m, k)'
          /\ k \in readDesires[m] => k \in readDesires'[m]
    BY <2>1 DEF ApplyExists
  <2>7. mc'[r] \in MgmtClusters /\ (Doomed(key[r])' \/ Lasting(r)')
    BY <2>1, <2>2, <2>3, <2>4, <2>5 DEF Row
  <2> QED
    BY <2>1, <2>6, <2>7, DurableKept DEF Row
<1>6. ASSUME NEW r \in Requests, CreateMapping(r) PROVE DurableInv'
  <2>1. /\ OthersStay(r) /\ Row(r, "set_mapping", "done", 200)
        /\ \A k \in Clusters :
             clustermap'[k] = IF k = key[r] THEN mc[r] ELSE clustermap[k]
        /\ UNCHANGED <<applyDesires, readDesires>>
    BY <1>6, MappingStep
  <2>2. mc[r] \in MgmtClusters /\ key[r] \in Clusters /\ op[r] = "Create"
    BY <2>1, Placed DEF Row, RequestInv
  <2>3. Doomed(key[r]) \/ Lasting(r)
    BY <2>1, <2>2 DEF Row, DurableInv, Made
  <2>4. Doomed(key[r]) => Doomed(key[r])'
    BY <2>1 DEF Doomed, OthersStay, Row
  <2>5. Lasting(r) => Lasting(r)'
    BY <2>1, <2>2 DEF Lasting, ApplyExists, Row, OthersStay
  <2>6. mc'[r] \in MgmtClusters /\ (Doomed(key[r])' \/ Lasting(r)')
    BY <2>1, <2>2, <2>3, <2>4, <2>5 DEF Row
  <2>7. \A k \in Clusters : clustermap[k] # NoMC => clustermap'[k] # NoMC
    BY <2>1, <2>2
  <2> QED
    BY <2>1, <2>6, <2>7, DurableKept DEF Row, ApplyExists
<1>7. ASSUME NEW r \in Requests, UpdateReplace(r) PROVE DurableInv'
  <2>1. /\ OthersStay(r) /\ Row(r, "replace", "done", 200)
        /\ WritesApply(r, r) /\ UNCHANGED <<clustermap, readDesires>>
    BY <1>7, ReplaceStep
  <2>2. \A m \in MgmtClusters, k \in Clusters : ApplyExists(m, k) =>
          ApplyExists(m, k)'
    BY <2>1 DEF WritesApply, ApplyExists
  <2>3. ~Made(r)'
    BY <2>1 DEF Made, Row, RequestInv, OthersStay
  <2> QED
    BY <2>1, <2>2, <2>3, DurableKept DEF Row
<1>7a. ASSUME NEW r \in Requests, pc[r] \in DeleteSteps,
              OthersStay(r), mc'[r] = mc[r]
       PROVE  Doomed(key[r])' /\ ~Made(r)'
  BY <1>7a, Placed DEF Doomed, RequestInv, OthersStay, Made
<1>8. ASSUME NEW r \in Requests, DeleteApplyDesire(r) PROVE DurableInv'
  <2>1. /\ OthersStay(r) /\ Row(r, "delete_apply", "delete_read", code[r])
        /\ WritesApply(r, NoDoc) /\ UNCHANGED <<clustermap, readDesires>>
    BY <1>8, DeleteApplyStep
  <2>2. Doomed(key[r])' /\ ~Made(r)'
    BY <1>7a, <2>1 DEF Row
  <2>3. \A m \in MgmtClusters, k \in Clusters :
          ApplyExists(m, k) => ApplyExists(m, k)' \/ Doomed(k)'
    BY <2>1, <2>2 DEF WritesApply, ApplyExists, OthersStay
  <2> QED
    BY <2>1, <2>2, <2>3, DurableKept DEF Row
<1>9. ASSUME NEW r \in Requests, DeleteReadDesire(r) PROVE DurableInv'
  <2>1. /\ OthersStay(r) /\ Row(r, "delete_read", "create_delete", code[r])
        /\ \A m \in MgmtClusters : readDesires'[m] =
             IF m = mc[r] THEN readDesires[m] \ {key[r]} ELSE readDesires[m]
        /\ UNCHANGED <<clustermap, applyDesires>>
    BY <1>9, DeleteReadStep
  <2>2. Doomed(key[r])' /\ ~Made(r)'
    BY <1>7a, <2>1 DEF Row
  <2>3. \A m \in MgmtClusters, k \in Clusters :
          k \in readDesires[m] => k \in readDesires'[m] \/ Doomed(k)'
    BY <2>1, <2>2 DEF OthersStay
  <2> QED
    BY <2>1, <2>2, <2>3, DurableKept DEF Row, ApplyExists
<1>10. ASSUME NEW r \in Requests, CreateDeleteDesire(r) PROVE DurableInv'
  BY <1>7a, <1>10, CreateDeleteStep, DurableQuiet DEF Row
<1>11. ASSUME NEW r \in Requests, DeleteRelease(r) PROVE DurableInv'
  BY <1>7a, <1>11, ReleaseStep, DurableQuiet DEF Row
<1>12. ASSUME NEW r \in Requests, DeleteMapping(r) PROVE DurableInv'
  <2>1. /\ OthersStay(r) /\ Row(r, "delete_mapping", "done", 200)
        /\ \A k \in Clusters :
             clustermap'[k] = IF k = key[r] THEN NoMC ELSE clustermap[k]
        /\ UNCHANGED <<applyDesires, readDesires>>
    BY <1>12, UnmapStep
  <2>2. Doomed(key[r])' /\ ~Made(r)'
    BY <1>7a, <2>1 DEF Row
  <2>3. \A k \in Clusters :
          clustermap[k] # NoMC => clustermap'[k] # NoMC \/ Doomed(k)'
    BY <2>1, <2>2 DEF OthersStay
  <2> QED
    BY <2>1, <2>2, <2>3, DurableKept DEF Row, ApplyExists
<1>13. CASE UNCHANGED vars
  BY <1>13 DEF vars, requestVars, DurableInv, Made, Doomed, Lasting, ApplyExists
<1> QED
  BY <1>1, <1>2, <1>3, <1>4, <1>5, <1>6, <1>7, <1>8, <1>9, <1>10, <1>11, <1>12,
     <1>13, StepCases

\* A Delete that has taken the ApplyDesire away.
Past(d) ==
  pc[d] \in {"delete_read", "create_delete", "release", "delete_mapping",
    "done"}

\* Requests keep what they have found and done.
Forward ==
  /\ op' = op /\ key' = key
  /\ \A s \in Requests :
       /\ mc[s] # NoMC => mc'[s] = mc[s]
       /\ pc[s] = "done" => pc'[s] = "done" /\ code'[s] = code[s]
       /\ op[s] = "Delete" /\ Past(s) => Past(s)'

\* Each step goes forward.
LEMMA GoForward ==
  ASSUME TypeOK, RequestInv, [Next]_vars PROVE Forward
<1>1. ASSUME NEW r \in Requests, QuietAction(r) PROVE Forward
  BY <1>1, QuietStep
     DEF Forward, Past, RequestInv, OthersStay, Quiet, Ended, Row, Settles
<1>2. ASSUME NEW r \in Requests, CreateAllocate(r) PROVE Forward
  BY <1>2, AllocateStep DEF Forward, Past, RequestInv, OthersStay, Row
<1>3. ASSUME NEW r \in Requests, CreateNamespace(r) PROVE Forward
  BY <1>3, NamespaceStep DEF Forward, Past, RequestInv, OthersStay, Row
<1>4. ASSUME NEW r \in Requests, CreateApplyDesire(r) PROVE Forward
  BY <1>4, CreateApplyStep DEF Forward, Past, RequestInv, OthersStay, Row
<1>5. ASSUME NEW r \in Requests, CreateReadDesire(r) PROVE Forward
  BY <1>5, CreateReadStep DEF Forward, Past, RequestInv, OthersStay, Row
<1>6. ASSUME NEW r \in Requests, CreateMapping(r) PROVE Forward
  BY <1>6, MappingStep DEF Forward, Past, RequestInv, OthersStay, Row
<1>7. ASSUME NEW r \in Requests, UpdateReplace(r) PROVE Forward
  BY <1>7, ReplaceStep DEF Forward, Past, RequestInv, OthersStay, Row
<1>8. ASSUME NEW r \in Requests, DeleteApplyDesire(r) PROVE Forward
  BY <1>8, DeleteApplyStep DEF Forward, Past, RequestInv, OthersStay, Row
<1>9. ASSUME NEW r \in Requests, DeleteReadDesire(r) PROVE Forward
  BY <1>9, DeleteReadStep DEF Forward, Past, RequestInv, OthersStay, Row
<1>10. ASSUME NEW r \in Requests, CreateDeleteDesire(r) PROVE Forward
  BY <1>10, CreateDeleteStep DEF Forward, Past, RequestInv, OthersStay, Row
<1>11. ASSUME NEW r \in Requests, DeleteRelease(r) PROVE Forward
  BY <1>11, ReleaseStep DEF Forward, Past, RequestInv, OthersStay, Row
<1>12. ASSUME NEW r \in Requests, DeleteMapping(r) PROVE Forward
  BY <1>12, UnmapStep DEF Forward, Past, RequestInv, OthersStay, Row
<1>13. CASE UNCHANGED vars
  BY <1>13 DEF vars, requestVars, Forward, Past, RequestInv
<1> QED
  BY <1>1, <1>2, <1>3, <1>4, <1>5, <1>6, <1>7, <1>8, <1>9, <1>10, <1>11, <1>12,
     <1>13, StepCases

\* A Delete of k that works on, or has worked on, management cluster m.
Del(d, m, k) == op[d] = "Delete" /\ Deleter(d, m, k)

\* The Deletes that have written the DeleteDesire, the answered ones with them.
Won(d) == Winner(d) \/ (op[d] = "Delete" /\ code[d] = 200)

\* A Create that has written the ApplyDesire of k on m.
Wrote(r, m, k) == Made(r) /\ Deleter(r, m, k)

\* Where the documents, and the requests that know of them, come from.
Origins ==
  \A m \in MgmtClusters, k \in Clusters :
    /\ clustermap'[k] = m =>
         \/ clustermap[k] = m
         \/ \E s \in Requests :
              pc[s] = "set_mapping" /\ code'[s] = 200 /\ Deleter(s, m, k)
    /\ ~ApplyExists(m, k)' =>
         \/ ~ApplyExists(m, k)
         \/ \E d \in Requests :
              Del(d, m, k) /\ pc[d] = "delete_apply" /\ pc'[d] = "delete_read"
    /\ \A r \in Requests :
         /\ Del(r, m, k)' => Del(r, m, k) \/ clustermap[k] = m
         /\ Wrote(r, m, k)' =>
              \/ Wrote(r, m, k)
              \/ ~ApplyExists(m, k) /\ ApplyExists(m, k)'
                   /\ applyDesires'[m][k] = r
         /\ Del(r, m, k) /\ code[r] # 200 /\ code'[r] = 200 =>
              clustermap'[k] # m

\* A document, and a Delete of it, come only from the steps of Create that
\* make them.
LEMMA OriginsStep ==
  ASSUME TypeOK, RequestInv, HandlerInv, [Next]_vars PROVE Origins
<1>1. ASSUME NEW r \in Requests, QuietAction(r) PROVE Origins
  BY <1>1, QuietStep, Placed
     DEF Origins, Del, Deleter, Wrote, Made, ApplyExists, RequestInv,
         WritesApply, OthersStay, Quiet, Ended, Row, Settles
<1>2. ASSUME NEW r \in Requests, CreateAllocate(r) PROVE Origins
  BY <1>2, AllocateStep, Placed
     DEF Origins, Del, Deleter, Wrote, Made, ApplyExists, RequestInv,
         WritesApply, OthersStay, Row
<1>3. ASSUME NEW r \in Requests, CreateNamespace(r) PROVE Origins
  BY <1>3, NamespaceStep, Placed
     DEF Origins, Del, Deleter, Wrote, Made, ApplyExists, RequestInv,
         WritesApply, OthersStay, Row
<1>4. ASSUME NEW r \in Requests, CreateApplyDesire(r) PROVE Origins
  BY <1>4, CreateApplyStep, Placed
     DEF Origins, Del, Deleter, Wrote, Made, ApplyExists, RequestInv,
         WritesApply, OthersStay, Row
<1>5. ASSUME NEW r \in Requests, CreateReadDesire(r) PROVE Origins
  BY <1>5, CreateReadStep, Placed
     DEF Origins, Del, Deleter, Wrote, Made, ApplyExists, RequestInv,
         WritesApply, OthersStay, Row
<1>6. ASSUME NEW r \in Requests, CreateMapping(r) PROVE Origins
  BY <1>6, MappingStep, Placed
     DEF Origins, Del, Deleter, Wrote, Made, ApplyExists, RequestInv,
         WritesApply, OthersStay, Row
<1>7. ASSUME NEW r \in Requests, UpdateReplace(r) PROVE Origins
  BY <1>7, ReplaceStep, Placed
     DEF Origins, Del, Deleter, Wrote, Made, ApplyExists, RequestInv,
         WritesApply, OthersStay, Row
<1>8. ASSUME NEW r \in Requests, DeleteApplyDesire(r) PROVE Origins
  <2>1. /\ OthersStay(r) /\ Row(r, "delete_apply", "delete_read", code[r])
        /\ WritesApply(r, NoDoc) /\ clustermap' = clustermap
    BY <1>8, DeleteApplyStep
  <2>2. \A m, k : m = mc[r] /\ k = key[r] => Del(r, m, k)
    BY <2>1 DEF Row, RequestInv, Del, Deleter
  <2>3. \A m \in MgmtClusters, k \in Clusters : ~ApplyExists(m, k)' =>
          ~ApplyExists(m, k) \/ (m = mc[r] /\ k = key[r])
    BY <2>1 DEF WritesApply, ApplyExists
  <2>4. \A s \in Requests : \A m, k :
          /\ Del(s, m, k)' => Del(s, m, k)
          /\ Wrote(s, m, k)' => Wrote(s, m, k)
          /\ code'[s] = code[s]
    BY <2>1 DEF OthersStay, Row, Del, Deleter, Wrote, Made
  <2> QED
    BY <2>1, <2>2, <2>3, <2>4 DEF Origins, Row
<1>9. ASSUME NEW r \in Requests, DeleteReadDesire(r) PROVE Origins
  BY <1>9, DeleteReadStep, Placed
     DEF Origins, Del, Deleter, Wrote, Made, ApplyExists, RequestInv,
         WritesApply, OthersStay, Row
<1>10. ASSUME NEW r \in Requests, CreateDeleteDesire(r) PROVE Origins
  BY <1>10, CreateDeleteStep, Placed
     DEF Origins, Del, Deleter, Wrote, Made, ApplyExists, RequestInv,
         WritesApply, OthersStay, Row
<1>11. ASSUME NEW r \in Requests, DeleteRelease(r) PROVE Origins
  BY <1>11, ReleaseStep, Placed
     DEF Origins, Del, Deleter, Wrote, Made, ApplyExists, RequestInv,
         WritesApply, OthersStay, Row
<1>12. ASSUME NEW r \in Requests, DeleteMapping(r) PROVE Origins
  BY <1>12, UnmapStep, Placed
     DEF Origins, Del, Deleter, Wrote, Made, ApplyExists, RequestInv,
         WritesApply, OthersStay, Row
<1>13. CASE UNCHANGED vars
  BY <1>13
     DEF vars, requestVars, Origins, Del, Deleter, Wrote, Made, ApplyExists,
         RequestInv, WritesApply
<1> QED
  BY <1>1, <1>2, <1>3, <1>4, <1>5, <1>6, <1>7, <1>8, <1>9, <1>10, <1>11, <1>12,
     <1>13, StepCases

\* Of the Deletes of a hosted cluster at one place, one writes the DeleteDesire.
WonInv ==
  /\ \A d \in Requests :
       Won(d) => mc[d] \in MgmtClusters /\ key[d] \in deleteDesires[mc[d]]
  /\ \A d, e \in Requests :
       Won(d) /\ Won(e) /\ mc[d] = mc[e] /\ key[d] = key[e] => d = e

\* No Delete has begun.
LEMMA WonInit == Init => WonInv
BY DEF Init, WonInv, Won, Winner

\* A step that makes no request a winner and leaves the DeleteDesires
\* preserves WonInv.
LEMMA WonKept ==
  ASSUME TypeOK, WonInv, NEW r \in Requests, OthersStay(r),
         Won(r)' => Won(r) /\ mc'[r] = mc[r],
         UNCHANGED deleteDesires
  PROVE  WonInv'
<1>1. \A s \in Requests : Won(s)' => Won(s) /\ mc'[s] = mc[s]
  BY DEF OthersStay, Won, Winner
<1>2. key' = key
  BY DEF OthersStay
<1> QED
  BY <1>1, <1>2 DEF WonInv

\* What is known of the ApplyDesire of k on m. A mapping to m, or a Delete
\* that followed one, comes from a Create that was answered 200. Of two
\* Creates that wrote the ApplyDesire, or if the one that wrote it no longer
\* finds it, a Delete has taken it away; if that Create is not even answered
\* yet, it was another Create's mapping that led a Delete there, and two
\* Deletes have followed it. If the mapping stays without an ApplyDesire a
\* Delete has not come to its end.
GoneInv(m, k) ==
  /\ (clustermap[k] = m \/ \E d \in Requests : Del(d, m, k)) =>
       \E r \in Requests : Wrote(r, m, k) /\ code[r] = 200
  /\ \A r, s \in Requests : r # s /\ Wrote(r, m, k) /\ Wrote(s, m, k) =>
       \E d \in Requests : Del(d, m, k) /\ Past(d)
  /\ \A r \in Requests : Wrote(r, m, k) /\ ~ApplyExists(m, k) =>
       \E d \in Requests : Del(d, m, k) /\ Past(d)
  /\ \A r \in Requests : Wrote(r, m, k) /\ pc[r] # "done" /\
       ~ApplyExists(m, k) =>
       \E d, e \in Requests : d # e /\ Del(d, m, k) /\ Del(e, m, k)
  /\ clustermap[k] = m => ApplyExists(m, k) \/
       \E d \in Requests : Del(d, m, k) /\ code[d] # 200

\* The parts of the invariant that MappingLeadsToDesire needs.
MappingInv == WonInv /\ \A m \in MgmtClusters, k \in Clusters : GoneInv(m, k)

\* Nothing is mapped in the beginning.
LEMMA MappingInit == Init => MappingInv
<1> SUFFICES ASSUME Init, NEW m \in MgmtClusters, NEW k \in Clusters
             PROVE  GoneInv(m, k)
  BY WonInit DEF MappingInv
<1>1. clustermap[k] # m
  BY DEF Init, PlacementInit
<1>2. \A r \in Requests : ~Wrote(r, m, k) /\ ~Del(r, m, k)
  BY DEF Init, Wrote, Made, Del, Deleter
<1> QED
  BY <1>1, <1>2 DEF GoneInv

\* By Origins a mapping to m is made by the Create that wrote the
\* ApplyDesire, and the ApplyDesire is taken away only by a Delete that found
\* that mapping; by Forward that Delete is past it for good.
LEMMA GoneStep ==
  ASSUME TypeOK, RequestInv, WonInv, Forward, Origins,
         NEW m \in MgmtClusters, NEW k \in Clusters, GoneInv(m, k)
  PROVE  GoneInv(m, k)'
<1>1. \A d \in Requests : Del(d, m, k) => Del(d, m, k)' /\ (Past(d) => Past(d)')
  BY DEF Forward, Del, Deleter
<1>2. \A r \in Requests : Wrote(r, m, k) /\ code[r] = 200 =>
        Wrote(r, m, k)' /\ code'[r] = 200
  BY DEF Forward, Wrote, Made, Deleter, RequestInv
<1>3. (clustermap[k] = m \/ \E d \in Requests : Del(d, m, k))' =>
        \E r \in Requests : Wrote(r, m, k)' /\ code'[r] = 200
  <2>1. ASSUME NEW s \in Requests, pc[s] = "set_mapping", code'[s] = 200,
               Deleter(s, m, k)
        PROVE  Wrote(s, m, k)' /\ code'[s] = 200
    BY <2>1 DEF Forward, Wrote, Made, Deleter, RequestInv
  <2> QED
    BY <1>2, <2>1 DEF Origins, GoneInv
<1>4. ASSUME NEW r \in Requests, Wrote(r, m, k)', ~ApplyExists(m, k)'
      PROVE  /\ \E d \in Requests : Del(d, m, k)' /\ Past(d)'
             /\ Wrote(r, m, k)
             /\ pc'[r] # "done" =>
                  \E d, e \in Requests : d # e /\ Del(d, m, k)' /\ Del(e, m, k)'
  <2>1. Wrote(r, m, k)
    BY <1>4 DEF Origins
  <2>2. pc'[r] # "done" => pc[r] # "done"
    BY DEF Forward
  <2>3. CASE ~ApplyExists(m, k)
    BY <1>1, <2>1, <2>2, <2>3 DEF GoneInv
  <2>4. CASE ApplyExists(m, k)
    <3>1. PICK d \in Requests :
            Del(d, m, k) /\ pc[d] = "delete_apply" /\ pc'[d] = "delete_read"
      BY <1>4, <2>4 DEF Origins
    <3>2. Del(d, m, k)' /\ Past(d)' /\ ~Past(d)
      BY <1>1, <3>1 DEF Past
    <3>3. ASSUME pc[r] # "done"
          PROVE  \E e \in Requests : d # e /\ Del(e, m, k)'
      <4>1. PICK s \in Requests : Wrote(s, m, k) /\ code[s] = 200
        BY <3>1 DEF GoneInv
      <4>2. s # r
        BY <3>3, <4>1 DEF RequestInv
      <4>3. PICK e \in Requests : Del(e, m, k) /\ Past(e)
        BY <2>1, <4>1, <4>2 DEF GoneInv
      <4> QED
        BY <1>1, <3>2, <4>3
    <3> QED
      BY <2>1, <2>2, <3>2, <3>3
  <2> QED
    BY <2>3, <2>4
<1>5. ASSUME NEW r \in Requests, NEW s \in Requests, r # s,
             Wrote(r, m, k)', Wrote(s, m, k)'
      PROVE  \E d \in Requests : Del(d, m, k)' /\ Past(d)'
  <2>1. CASE ApplyExists(m, k) \/ ~ApplyExists(m, k)'
    BY <1>1, <1>4, <1>5, <2>1 DEF Origins, GoneInv
  <2>2. CASE ~ApplyExists(m, k) /\ (Wrote(r, m, k) \/ Wrote(s, m, k))
    BY <1>1, <2>2 DEF GoneInv
  <2>3. CASE ~ApplyExists(m, k) /\ ~Wrote(r, m, k) /\ ~Wrote(s, m, k)
    BY <1>5, <2>3 DEF Origins
  <2> QED
    BY <2>1, <2>2, <2>3
<1>6. ASSUME clustermap'[k] = m, ~ApplyExists(m, k)'
      PROVE  \E d \in Requests : Del(d, m, k)' /\ code'[d] # 200
  <2>1. \A d \in Requests : Del(d, m, k) /\ code[d] # 200 => code'[d] # 200
    BY <1>6 DEF Origins
  <2>2. CASE clustermap[k] = m
    <3>1. CASE ~ApplyExists(m, k)
      BY <1>1, <2>1, <2>2, <3>1 DEF GoneInv
    <3>2. CASE ApplyExists(m, k)
      <4>1. PICK d \in Requests : Del(d, m, k) /\ pc[d] = "delete_apply"
        BY <1>6, <3>2 DEF Origins
      <4>2. code[d] # 200
        BY <4>1 DEF RequestInv
      <4> QED
        BY <1>1, <2>1, <4>1, <4>2
    <3> QED
      BY <3>1, <3>2
  <2>3. CASE clustermap[k] # m
    <3>1. PICK s \in Requests : pc[s] = "set_mapping" /\ code'[s] = 200 /\
            Deleter(s, m, k)
      BY <1>6, <2>3 DEF Origins
    <3>2. Wrote(s, m, k)
      BY <3>1 DEF Wrote, Made, RequestInv
    <3>3. ASSUME ApplyExists(m, k)
          PROVE  \E d \in Requests : Del(d, m, k) /\ code[d] # 200
      BY <1>6, <3>3 DEF Origins, RequestInv
    <3>4. ASSUME ~ApplyExists(m, k)
          PROVE  \E d \in Requests : Del(d, m, k) /\ code[d] # 200
      <4>1. PICK d \in Requests, e \in Requests : d # e /\ Del(d, m, k) /\
              Del(e, m, k)
        BY <3>1, <3>2, <3>4 DEF GoneInv
      <4> QED
        BY <4>1 DEF WonInv, Won, Del, Deleter
    <3> QED
      BY <1>1, <2>1, <3>3, <3>4
  <2> QED
    BY <2>2, <2>3
<1> QED
  BY <1>3, <1>4, <1>5, <1>6 DEF GoneInv

\* The second CreateDeleteDesire of a hosted cluster on one management
\* cluster is refused.
LEMMA WonStep ==
  ASSUME TypeOK, RequestInv, WonInv, [Next]_vars PROVE WonInv'
<1>1. ASSUME NEW r \in Requests, QuietAction(r) PROVE WonInv'
  BY <1>1, QuietStep, WonKept
     DEF Quiet, Ended, Row, Settles, Won, Winner, RequestInv, OthersStay
<1>2. ASSUME NEW r \in Requests, CreateAllocate(r) PROVE WonInv'
  BY <1>2, AllocateStep, WonKept DEF Won, Winner, RequestInv
<1>3. ASSUME NEW r \in Requests, CreateNamespace(r) PROVE WonInv'
  BY <1>3, NamespaceStep, WonKept DEF Row, Won, Winner, RequestInv, OthersStay
<1>4. ASSUME NEW r \in Requests, CreateApplyDesire(r) PROVE WonInv'
  BY <1>4, CreateApplyStep, WonKept DEF Row, Won, Winner, RequestInv, OthersStay
<1>5. ASSUME NEW r \in Requests, CreateReadDesire(r) PROVE WonInv'
  BY <1>5, CreateReadStep, WonKept DEF Row, Won, Winner, RequestInv, OthersStay
<1>6. ASSUME NEW r \in Requests, CreateMapping(r) PROVE WonInv'
  BY <1>6, MappingStep, WonKept DEF Row, Won, Winner, RequestInv, OthersStay
<1>7. ASSUME NEW r \in Requests, UpdateReplace(r) PROVE WonInv'
  BY <1>7, ReplaceStep, WonKept DEF Row, Won, Winner, RequestInv, OthersStay
<1>8. ASSUME NEW r \in Requests, DeleteApplyDesire(r) PROVE WonInv'
  BY <1>8, DeleteApplyStep, WonKept DEF Row, Won, Winner, RequestInv, OthersStay
<1>9. ASSUME NEW r \in Requests, DeleteReadDesire(r) PROVE WonInv'
  BY <1>9, DeleteReadStep, WonKept DEF Row, Won, Winner, RequestInv, OthersStay
<1>10. ASSUME NEW r \in Requests, CreateDeleteDesire(r) PROVE WonInv'
  <2>1. PICK n \in MgmtClusters : n = mc[r]
    BY <1>10, Placed DEF CreateDeleteDesire
  <2>2. /\ OthersStay(r) /\ mc'[r] = n /\ key' = key
        /\ key[r] \notin deleteDesires[n]
        /\ key[r] \in deleteDesires'[n]
        /\ \A m \in MgmtClusters : deleteDesires[m] \subseteq deleteDesires'[m]
    BY <1>10, <2>1, CreateDeleteStep DEF Row, OthersStay
  <2>3. \A s \in Requests \ {r} : (Won(s)' => Won(s)) /\ mc'[s] = mc[s]
    BY <2>2 DEF OthersStay, Won, Winner
  <2>4. \A s \in Requests \ {r} : Won(s)' =>
          /\ mc'[s] \in MgmtClusters /\ key[s] \in deleteDesires'[mc'[s]]
          /\ ~(mc'[s] = n /\ key[s] = key[r])
    BY <2>2, <2>3 DEF WonInv
  <2>5. \A d \in Requests :
          Won(d)' =>
            mc'[d] \in MgmtClusters /\ key[d] \in deleteDesires'[mc'[d]]
    BY <2>2, <2>4
  <2>6. \A d, e \in Requests :
          Won(d)' /\ Won(e)' /\ mc'[d] = mc'[e] /\ key[d] = key[e] => d = e
    BY <2>2, <2>3, <2>4 DEF WonInv
  <2> QED
    BY <2>2, <2>5, <2>6 DEF WonInv
<1>11. ASSUME NEW r \in Requests, DeleteRelease(r) PROVE WonInv'
  BY <1>11, ReleaseStep, WonKept DEF Row, Won, Winner, RequestInv, OthersStay
<1>12. ASSUME NEW r \in Requests, DeleteMapping(r) PROVE WonInv'
  BY <1>12, UnmapStep, WonKept DEF Row, Won, Winner, RequestInv, OthersStay
<1>13. CASE UNCHANGED vars
  BY <1>13 DEF vars, requestVars, WonInv, Won, Winner
<1> QED
  BY <1>1, <1>2, <1>3, <1>4, <1>5, <1>6, <1>7, <1>8, <1>9, <1>10, <1>11, <1>12,
     <1>13, StepCases

\* The five parts of the invariant together.
LEMMA MappingInvStep ==
  ASSUME TypeOK, RequestInv, HandlerInv, MappingInv, [Next]_vars
  PROVE  MappingInv'
<1>1. WonInv'
  BY WonStep DEF MappingInv
<1>2. Forward /\ Origins
  BY GoForward, OriginsStep
<1>3. \A m \in MgmtClusters, k \in Clusters : GoneInv(m, k)'
  BY <1>2, GoneStep DEF MappingInv
<1> QED
  BY <1>1, <1>3 DEF MappingInv

-----------------------------------------------------------------------------
(* One request at a time. *)

\* With MaxActive = 1 no two requests are served at once.
SerialInv ==
  MaxActive = 1 => \A r, s \in Requests : Active(r) /\ Active(s) => r = s

\* No other request is being served.
Alone(r) == \A s \in Requests \ {r} : ~Active(s)

\* No request is being served.
LEMMA SerialInit == Init => SerialInv
BY DEF Init, SerialInv, Active

\* Whoever makes a call is alone; a request may also fail before its first.
LEMMA Acting ==
  ASSUME TypeOK, SerialInv, MaxActive = 1, NEW r \in Requests,
         \/ Admitted(r) \/ Active(r)
  PROVE  Alone(r)
<1>1. CASE Active(r)
  BY <1>1 DEF SerialInv, Alone
<1>2. CASE Admitted(r)
  <2>1. IsFiniteSet({s \in Requests : Active(s)})
    BY FS_Subset
  <2>2. Cardinality({s \in Requests : Active(s)}) = 0
    BY <1>2, <2>1, FS_CardinalityType DEF Admitted
  <2>3. {s \in Requests : Active(s)} = {}
    BY <2>1, <2>2, FS_EmptySet
  <2> QED
    BY <2>3 DEF Alone
<1> QED
  BY <1>1, <1>2

\* The request that makes a quiet step is alone, unless it fails before its
\* first call.
LEMMA QuietAlone ==
  ASSUME TypeOK, SerialInv, MaxActive = 1, NEW r \in Requests, QuietAction(r)
  PROVE  Alone(r) \/ (Ended(r) /\ pc[r] = "start")
<1>1. \/ Admitted(r) \/ Active(r) \/ (Fail(r) /\ pc[r] = "start")
  BY DEF QuietAction, CreateLookup, CreateNoCapacity, CreateApplyConflict,
         CreateReadConflict, UpdateLookup, UpdateGet, UpdateConflict,
         DeleteLookup, DeleteGet, CreateDeleteConflict, LookupNotFound,
         GetNotFound, Fail, Active
<1>2. Fail(r) => Ended(r)
  BY Rows DEF Fail, Row, Ended
<1> QED
  BY <1>1, <1>2, Acting

\* The request that writes to a database is alone.
LEMMA LoudAlone ==
  ASSUME TypeOK, SerialInv, MaxActive = 1, NEW r \in Requests,
         \/ CreateAllocate(r) \/ CreateNamespace(r)
         \/ CreateApplyDesire(r) \/ CreateReadDesire(r) \/ CreateMapping(r)
         \/ UpdateReplace(r) \/ DeleteApplyDesire(r) \/ DeleteReadDesire(r)
         \/ CreateDeleteDesire(r) \/ DeleteRelease(r) \/ DeleteMapping(r)
  PROVE  Alone(r)
<1>1. Active(r)
  BY DEF CreateAllocate, CreateNamespace, CreateApplyDesire, CreateReadDesire,
         CreateMapping, UpdateReplace, DeleteApplyDesire, DeleteReadDesire,
         CreateDeleteDesire, DeleteRelease, DeleteMapping, Active
<1> QED
  BY <1>1, Acting

\* A request becomes active only when fewer than MaxActive are.
LEMMA SerialStep ==
  ASSUME TypeOK, SerialInv, [Next]_vars PROVE SerialInv'
<1> SUFFICES ASSUME MaxActive = 1, NEW r \in Requests, NEW s \in Requests,
                    Active(r)', Active(s)'
             PROVE  r = s
  BY DEF SerialInv
<1>1. ASSUME NEW t \in Requests, OthersStay(t), Alone(t) PROVE r = s
  BY <1>1 DEF OthersStay, Alone, Active
<1>2. ASSUME NEW t \in Requests, OthersStay(t), Ended(t) PROVE r = s
  BY <1>2 DEF OthersStay, Ended, Active, SerialInv
<1>3. CASE UNCHANGED vars
  BY <1>3 DEF vars, requestVars, SerialInv, Active
<1>4. ASSUME NEW t \in Requests, QuietAction(t) PROVE r = s
  BY <1>1, <1>2, <1>4, QuietStep, QuietAlone
<1> QED
  BY <1>1, <1>3, <1>4, StepCases, LoudAlone, AllocateStep, NamespaceStep,
     CreateApplyStep, CreateReadStep, MappingStep, ReplaceStep,
     DeleteApplyStep, DeleteReadStep, CreateDeleteStep, ReleaseStep, UnmapStep

\* How far a request has taken one hosted cluster through the four stores.
At(r, m, k, steps) == Deleter(r, m, k) /\ pc[r] \in steps

\* A request is at one of these steps with k on m.
SomeAt(m, k, steps) == \E r \in Requests : At(r, m, k, steps)

\* The steps at which a slot is taken that no ApplyDesire accounts for.
SlotSteps == {"create_ns", "create_apply", "delete_read", "create_delete",
  "release"}
\* The step at which the ApplyDesire is there and the ReadDesire is not.
UnreadSteps == {"create_read"}
\* The step at which the ReadDesire is there and the ApplyDesire is not.
ReadSteps == {"delete_read"}
\* The steps at which the ApplyDesire is there and the mapping is not.
UnmappedSteps == {"create_read", "set_mapping"}
\* The steps at which the mapping is there and the ApplyDesire is not.
MappedSteps == {"delete_read", "create_delete", "release", "delete_mapping"}

\* The counter of m agrees with the ApplyDesires there, but for one slot that
\* is taken early or given back late.
Counted(m, extra) ==
  allocated[m] = Cardinality(Live(m)) + (IF extra THEN 1 ELSE 0)

\* The ApplyDesire, the ReadDesire and the mapping of k on m agree, but for
\* what a request has yet to write or to take away.
Matched(m, k, unread, read, unmapped, mapped) ==
  /\ k \in readDesires[m] <=> (ApplyExists(m, k) /\ ~unread) \/ read
  /\ clustermap[k] = m <=> (ApplyExists(m, k) /\ ~unmapped) \/ mapped

\* What a request has found still holds, while it is alone.
OnCourse(r) ==
  /\ pc[r] \in CreateSteps => clustermap[key[r]] = NoMC
  /\ pc[r] \in UpdateSteps \cup DeleteSteps => clustermap[key[r]] = mc[r]
  /\ pc[r] \in {"create_read", "set_mapping", "delete_apply"} =>
       ApplyExists(mc[r], key[r])
  /\ pc[r] \in MappedSteps => ~ApplyExists(mc[r], key[r])

\* The four stores agree, but for what the requests in flight account for.
Agreed ==
  /\ \A m \in MgmtClusters :
       Counted(m, \E r \in Requests : mc[r] = m /\ pc[r] \in SlotSteps)
  /\ \A m \in MgmtClusters, k \in Clusters :
       Matched(m, k, SomeAt(m, k, UnreadSteps), SomeAt(m, k, ReadSteps),
                     SomeAt(m, k, UnmappedSteps), SomeAt(m, k, MappedSteps))
  /\ \A r \in Requests : OnCourse(r)

\* The same when r is the only active request.
AgreedFor(r) ==
  /\ \A m \in MgmtClusters : Counted(m, mc[r] = m /\ pc[r] \in SlotSteps)
  /\ \A m \in MgmtClusters, k \in Clusters :
       Matched(m, k, At(r, m, k, UnreadSteps), At(r, m, k, ReadSteps),
                     At(r, m, k, UnmappedSteps), At(r, m, k, MappedSteps))
  /\ OnCourse(r)

USE DEF SlotSteps, UnreadSteps, ReadSteps, UnmappedSteps, MappedSteps

\* It then says of r what Agreed says of all.
LEMMA AgreedAlone ==
  ASSUME NEW r \in Requests, Alone(r), Agreed PROVE AgreedFor(r)
<1>1. \A s \in Requests \ {r} : pc[s] \in {"start", "done"}
  BY DEF Alone, Active
<1>2. \A m, k : /\ SomeAt(m, k, UnreadSteps) <=> At(r, m, k, UnreadSteps)
                /\ SomeAt(m, k, ReadSteps) <=> At(r, m, k, ReadSteps)
                /\ SomeAt(m, k, UnmappedSteps) <=> At(r, m, k, UnmappedSteps)
                /\ SomeAt(m, k, MappedSteps) <=> At(r, m, k, MappedSteps)
  BY <1>1 DEF SomeAt, At
<1>3. \A m : (\E s \in Requests : mc[s] = m /\ pc[s] \in SlotSteps)
               <=> (mc[r] = m /\ pc[r] \in SlotSteps)
  BY <1>1
<1> QED
  BY <1>2, <1>3 DEF Agreed, AgreedFor, Matched, Counted

\* And the other way round, after a step of r, since the others are not in
\* flight.
LEMMA AgreedAgain ==
  ASSUME NEW r \in Requests, OthersStay(r), Alone(r), AgreedFor(r)'
  PROVE  Agreed'
<1>1. \A s \in Requests \ {r} : pc'[s] \in {"start", "done"}
  BY DEF Alone, Active, OthersStay
<1>2. \A m, k : /\ SomeAt(m, k, UnreadSteps)' <=> At(r, m, k, UnreadSteps)'
                /\ SomeAt(m, k, ReadSteps)' <=> At(r, m, k, ReadSteps)'
                /\ SomeAt(m, k, UnmappedSteps)' <=> At(r, m, k, UnmappedSteps)'
                /\ SomeAt(m, k, MappedSteps)' <=> At(r, m, k, MappedSteps)'
  BY <1>1 DEF SomeAt, At
<1>3. \A m : (\E s \in Requests : mc'[s] = m /\ pc'[s] \in SlotSteps)
               <=> (mc'[r] = m /\ pc'[r] \in SlotSteps)
  BY <1>1
<1>4. \A s \in Requests : OnCourse(s)'
  BY <1>1 DEF AgreedFor, OnCourse
<1> QED
  BY <1>2, <1>3, <1>4 DEF Agreed, AgreedFor, Matched, Counted

\* The ApplyDesires of a management cluster can be counted.
LEMMA LiveType ==
  \A m : /\ IsFiniteSet(Live(m)) /\ Cardinality(Live(m)) \in Nat
         /\ IsFiniteSet(Live(m)') /\ Cardinality(Live(m)') \in Nat
BY FS_Subset, FS_CardinalityType DEF Live

\* There is one more when one is added,
LEMMA LiveAdds ==
  ASSUME NEW m \in MgmtClusters, NEW k \in Clusters, ~ApplyExists(m, k),
         \A x \in Clusters : ApplyExists(m, x)' <=> ApplyExists(m, x) \/ x = k
  PROVE  Cardinality(Live(m)') = Cardinality(Live(m)) + 1
<1>1. Live(m)' = Live(m) \cup {k} /\ k \notin Live(m)
  BY DEF Live
<1> QED
  BY <1>1, LiveType, FS_AddElement

\* one less when one is taken away,
LEMMA LiveDrops ==
  ASSUME NEW m \in MgmtClusters, NEW k \in Clusters, ApplyExists(m, k),
         \A x \in Clusters : ApplyExists(m, x)' <=> ApplyExists(m, x) /\ x # k
  PROVE  Cardinality(Live(m)) = Cardinality(Live(m)') + 1
<1>1. Live(m)' = Live(m) \ {k} /\ k \in Live(m)
  BY DEF Live
<1>2. Cardinality(Live(m)') = Cardinality(Live(m)) - 1
  BY <1>1, LiveType, FS_RemoveElement
<1> QED
  BY <1>2, LiveType

\* and as many when each stays.
LEMMA LiveStays ==
  ASSUME NEW m \in MgmtClusters,
         \A x \in Clusters : ApplyExists(m, x)' <=> ApplyExists(m, x)
  PROVE  Live(m)' = Live(m)
BY DEF Live

\* The steps that touch no database: the request goes on, or ends with
\* nothing to account for.
LEMMA AgreedQuiet ==
  ASSUME TypeOK, RequestInv, NEW r \in Requests, QuietAction(r), AgreedFor(r),
         Active(r)' \/ Clean(r)'
  PROVE  AgreedFor(r)'
<1>1. OthersStay(r) /\ Quiet(r) /\ UNCHANGED <<placementVars, desireVars>>
  BY QuietStep
<1>2. ~(pc[r] \in SlotSteps \cup UnmappedSteps \cup MappedSteps) 
  <2>1. CASE Ended(r)
    BY <1>1, <2>1, Placed DEF Ended, Clean, Active, RequestInv, OthersStay
  <2>2. CASE ~Ended(r)
    BY <1>1, <2>2 DEF Quiet, Row, Settles
  <2> QED
    BY <2>1, <2>2
<1>3. ~(pc'[r] \in SlotSteps \cup UnmappedSteps \cup MappedSteps) 
  BY <1>1 DEF Quiet, Ended, Row, Settles
<1>4. OnCourse(r)'
  BY <1>1
     DEF AgreedFor, OnCourse, Quiet, Ended, Row, Settles, OthersStay,
         ApplyExists, ClusterMappingNotFound
<1>5. \A m : Live(m)' = Live(m)
  BY <1>1 DEF Live, ApplyExists
<1> QED
  BY <1>1, <1>2, <1>3, <1>4, <1>5
     DEF AgreedFor, Counted, Matched, At, ApplyExists

\* The slot is taken: r accounts for it from now on.
LEMMA AgreedAllocate ==
  ASSUME TypeOK, RequestInv, HandlerInv, NEW r \in Requests, CreateAllocate(r),
         AgreedFor(r)
  PROVE  AgreedFor(r)'
<1>1. /\ OthersStay(r) /\ pc[r] = "allocate" /\ pc'[r] = "create_ns"
      /\ mc'[r] \in MgmtClusters
      /\ \A m \in MgmtClusters : allocated'[m] =
           IF m = mc'[r] THEN allocated[m] + 1 ELSE allocated[m]
      /\ UNCHANGED <<clustermap, desireVars>>
  BY AllocateStep
<1>2. \A m : Live(m)' = Live(m)
  BY <1>1 DEF Live, ApplyExists
<1>3. OnCourse(r)'
  BY <1>1 DEF AgreedFor, OnCourse, OthersStay
<1>4. ASSUME NEW m \in MgmtClusters
      PROVE  Counted(m, mc[r] = m /\ pc[r] \in SlotSteps)'
  <2>1. Cardinality(Live(m)) \in Nat
    BY LiveType
  <2>2. Counted(m, mc[r] = m /\ pc[r] \in SlotSteps)
    BY DEF AgreedFor
  <2>3. allocated[m] = Cardinality(Live(m))
    BY <1>1, <2>1, <2>2 DEF Counted
  <2>4. allocated'[m] = Cardinality(Live(m)') + (IF m = mc'[r] THEN 1 ELSE 0)
    BY <1>1, <1>2, <2>1, <2>3
  <2> QED
    BY <1>1, <1>2, <2>1, <2>4 DEF Counted
<1>5. \A m, k : /\ ~At(r, m, k, UnmappedSteps) /\ ~At(r, m, k, UnmappedSteps)'
                /\ ~At(r, m, k, MappedSteps) /\ ~At(r, m, k, MappedSteps)'
                /\ ~At(r, m, k, UnreadSteps) /\ ~At(r, m, k, UnreadSteps)'
                /\ ~At(r, m, k, ReadSteps) /\ ~At(r, m, k, ReadSteps)'
  BY <1>1 DEF At
<1>6. ASSUME NEW m \in MgmtClusters, NEW k \in Clusters
      PROVE  Matched(m, k, At(r, m, k, UnreadSteps), At(r, m, k, ReadSteps),
                     At(r, m, k, UnmappedSteps), At(r, m, k, MappedSteps))'
  BY <1>1, <1>5 DEF AgreedFor, Matched, ApplyExists
<1> QED
  BY <1>3, <1>4, <1>6 DEF AgreedFor

\* Nothing that is counted changes.
LEMMA AgreedNamespace ==
  ASSUME TypeOK, RequestInv, HandlerInv, NEW r \in Requests,
         CreateNamespace(r), AgreedFor(r)
  PROVE  AgreedFor(r)'
<1>1. /\ OthersStay(r) /\ Row(r, "create_ns", "create_apply", code[r])
      /\ UNCHANGED <<placementVars, applyDesires, readDesires>>
  BY NamespaceStep
<1>2. mc[r] \in MgmtClusters /\ key[r] \in Clusters
  BY <1>1, Placed DEF Row
<1>3. \A m \in MgmtClusters : Live(m)' = Live(m)
  BY <1>1 DEF Live, ApplyExists
<1>4. OnCourse(r)'
  BY <1>1, <1>2 DEF AgreedFor, OnCourse, OthersStay, Row, ApplyExists
<1>5. ASSUME NEW m \in MgmtClusters
      PROVE  Counted(m, mc[r] = m /\ pc[r] \in SlotSteps)'
  <2>1. Cardinality(Live(m)) \in Nat /\ Cardinality(Live(m)') \in Nat
    BY LiveType
  <2>2. Counted(m, mc[r] = m /\ pc[r] \in SlotSteps)
    BY DEF AgreedFor
  <2>3. allocated[m] = Cardinality(Live(m)) + (IF m = mc[r] THEN 1 ELSE 0)
    BY <1>1, <2>1, <2>2 DEF Counted, Row
  <2>4. allocated'[m] = Cardinality(Live(m)') + (IF m = mc[r] THEN 1 ELSE 0)
    BY <1>1, <1>2, <1>3, <2>1, <2>3
  <2> QED
    BY <1>1, <2>1, <2>4 DEF Counted, Row
<1>6. ASSUME NEW m \in MgmtClusters, NEW k \in Clusters
      PROVE  Matched(m, k, At(r, m, k, UnreadSteps), At(r, m, k, ReadSteps),
                     At(r, m, k, UnmappedSteps), At(r, m, k, MappedSteps))'
  <2> DEFINE here == m = mc[r] /\ k = key[r]
  <2>1. (Deleter(r, m, k) <=> here) /\ (Deleter(r, m, k)' <=> here)
    BY <1>1 DEF Deleter, Row, OthersStay
  <2>2. Matched(m, k, At(r, m, k, UnreadSteps), At(r, m, k, ReadSteps),
                At(r, m, k, UnmappedSteps), At(r, m, k, MappedSteps))
    BY DEF AgreedFor
  <2>3. /\ k \in readDesires[m] <=> ApplyExists(m, k)
        /\ clustermap[k] = m <=> ApplyExists(m, k)
    BY <1>1, <2>1, <2>2 DEF Matched, At, Row
  <2>4. /\ k \in readDesires'[m] <=> ApplyExists(m, k)'
        /\ clustermap'[k] = m <=> ApplyExists(m, k)'
    BY <1>1, <1>2, <2>3 DEF AgreedFor, OnCourse, ApplyExists, Row
  <2> QED
    BY <1>1, <2>1, <2>4 DEF Matched, At, Row
<1> QED
  BY <1>4, <1>5, <1>6 DEF AgreedFor

\* The ReadDesire follows the ApplyDesire.
LEMMA AgreedCreateRead ==
  ASSUME TypeOK, RequestInv, HandlerInv, NEW r \in Requests,
         CreateReadDesire(r), AgreedFor(r)
  PROVE  AgreedFor(r)'
<1>1. /\ OthersStay(r) /\ Row(r, "create_read", "set_mapping", code[r])
      /\ \A m \in MgmtClusters : readDesires'[m] =
           IF m = mc[r] THEN readDesires[m] \cup {key[r]} ELSE readDesires[m]
      /\ UNCHANGED <<placementVars, applyDesires>>
  BY CreateReadStep
<1>2. mc[r] \in MgmtClusters /\ key[r] \in Clusters
  BY <1>1, Placed DEF Row
<1>3. \A m \in MgmtClusters : Live(m)' = Live(m)
  BY <1>1 DEF Live, ApplyExists
<1>4. OnCourse(r)'
  BY <1>1, <1>2 DEF AgreedFor, OnCourse, OthersStay, Row, ApplyExists
<1>5. ASSUME NEW m \in MgmtClusters
      PROVE  Counted(m, mc[r] = m /\ pc[r] \in SlotSteps)'
  <2>1. Cardinality(Live(m)) \in Nat /\ Cardinality(Live(m)') \in Nat
    BY LiveType
  <2>2. Counted(m, mc[r] = m /\ pc[r] \in SlotSteps)
    BY DEF AgreedFor
  <2>3. allocated[m] = Cardinality(Live(m))
    BY <1>1, <2>1, <2>2 DEF Counted, Row
  <2>4. allocated'[m] = Cardinality(Live(m)')
    BY <1>1, <1>2, <1>3, <2>1, <2>3
  <2> QED
    BY <1>1, <2>1, <2>4 DEF Counted, Row
<1>6. ASSUME NEW m \in MgmtClusters, NEW k \in Clusters
      PROVE  Matched(m, k, At(r, m, k, UnreadSteps), At(r, m, k, ReadSteps),
                     At(r, m, k, UnmappedSteps), At(r, m, k, MappedSteps))'
  <2> DEFINE here == m = mc[r] /\ k = key[r]
  <2>1. (Deleter(r, m, k) <=> here) /\ (Deleter(r, m, k)' <=> here)
    BY <1>1 DEF Deleter, Row, OthersStay
  <2>2. Matched(m, k, At(r, m, k, UnreadSteps), At(r, m, k, ReadSteps),
                At(r, m, k, UnmappedSteps), At(r, m, k, MappedSteps))
    BY DEF AgreedFor
  <2>3. /\ k \in readDesires[m] <=> ApplyExists(m, k) /\ ~here
        /\ clustermap[k] = m <=> ApplyExists(m, k) /\ ~here
    BY <1>1, <2>1, <2>2 DEF Matched, At, Row
  <2>4. /\ k \in readDesires'[m] <=> ApplyExists(m, k)'
        /\ clustermap'[k] = m <=> ApplyExists(m, k)' /\ ~here
    BY <1>1, <1>2, <2>3 DEF AgreedFor, OnCourse, ApplyExists, Row
  <2> QED
    BY <1>1, <2>1, <2>4 DEF Matched, At, Row
<1> QED
  BY <1>4, <1>5, <1>6 DEF AgreedFor

\* The mapping follows the ApplyDesire: all four stores have the hosted
\* cluster.
LEMMA AgreedMapping ==
  ASSUME TypeOK, RequestInv, HandlerInv, NEW r \in Requests, CreateMapping(r),
         AgreedFor(r)
  PROVE  AgreedFor(r)'
<1>1. /\ OthersStay(r) /\ Row(r, "set_mapping", "done", 200)
      /\ \A k \in Clusters :
           clustermap'[k] = IF k = key[r] THEN mc[r] ELSE clustermap[k]
      /\ UNCHANGED <<allocated, applyDesires, readDesires>>
  BY MappingStep
<1>2. mc[r] \in MgmtClusters /\ key[r] \in Clusters
  BY <1>1, Placed DEF Row
<1>3. \A m \in MgmtClusters : Live(m)' = Live(m)
  BY <1>1 DEF Live, ApplyExists
<1>4. OnCourse(r)'
  BY <1>1, <1>2 DEF AgreedFor, OnCourse, OthersStay, Row, ApplyExists
<1>5. ASSUME NEW m \in MgmtClusters
      PROVE  Counted(m, mc[r] = m /\ pc[r] \in SlotSteps)'
  <2>1. Cardinality(Live(m)) \in Nat /\ Cardinality(Live(m)') \in Nat
    BY LiveType
  <2>2. Counted(m, mc[r] = m /\ pc[r] \in SlotSteps)
    BY DEF AgreedFor
  <2>3. allocated[m] = Cardinality(Live(m))
    BY <1>1, <2>1, <2>2 DEF Counted, Row
  <2>4. allocated'[m] = Cardinality(Live(m)')
    BY <1>1, <1>2, <1>3, <2>1, <2>3
  <2> QED
    BY <1>1, <2>1, <2>4 DEF Counted, Row
<1>6. ASSUME NEW m \in MgmtClusters, NEW k \in Clusters
      PROVE  Matched(m, k, At(r, m, k, UnreadSteps), At(r, m, k, ReadSteps),
                     At(r, m, k, UnmappedSteps), At(r, m, k, MappedSteps))'
  <2> DEFINE here == m = mc[r] /\ k = key[r]
  <2>1. (Deleter(r, m, k) <=> here) /\ (Deleter(r, m, k)' <=> here)
    BY <1>1 DEF Deleter, Row, OthersStay
  <2>2. Matched(m, k, At(r, m, k, UnreadSteps), At(r, m, k, ReadSteps),
                At(r, m, k, UnmappedSteps), At(r, m, k, MappedSteps))
    BY DEF AgreedFor
  <2>3. /\ k \in readDesires[m] <=> ApplyExists(m, k)
        /\ clustermap[k] = m <=> ApplyExists(m, k) /\ ~here
    BY <1>1, <2>1, <2>2 DEF Matched, At, Row
  <2>4. /\ k \in readDesires'[m] <=> ApplyExists(m, k)'
        /\ clustermap'[k] = m <=> ApplyExists(m, k)'
    BY <1>1, <1>2, <2>3 DEF AgreedFor, OnCourse, ApplyExists, Row
  <2> QED
    BY <1>1, <2>1, <2>4 DEF Matched, At, Row
<1> QED
  BY <1>4, <1>5, <1>6 DEF AgreedFor

\* The ReadDesire goes after the ApplyDesire.
LEMMA AgreedDeleteRead ==
  ASSUME TypeOK, RequestInv, HandlerInv, NEW r \in Requests,
         DeleteReadDesire(r), AgreedFor(r)
  PROVE  AgreedFor(r)'
<1>1. /\ OthersStay(r) /\ Row(r, "delete_read", "create_delete", code[r])
      /\ \A m \in MgmtClusters : readDesires'[m] =
           IF m = mc[r] THEN readDesires[m] \ {key[r]} ELSE readDesires[m]
      /\ UNCHANGED <<placementVars, applyDesires>>
  BY DeleteReadStep
<1>2. mc[r] \in MgmtClusters /\ key[r] \in Clusters
  BY <1>1, Placed DEF Row
<1>3. \A m \in MgmtClusters : Live(m)' = Live(m)
  BY <1>1 DEF Live, ApplyExists
<1>4. OnCourse(r)'
  BY <1>1, <1>2 DEF AgreedFor, OnCourse, OthersStay, Row, ApplyExists
<1>5. ASSUME NEW m \in MgmtClusters
      PROVE  Counted(m, mc[r] = m /\ pc[r] \in SlotSteps)'
  <2>1. Cardinality(Live(m)) \in Nat /\ Cardinality(Live(m)') \in Nat
    BY LiveType
  <2>2. Counted(m, mc[r] = m /\ pc[r] \in SlotSteps)
    BY DEF AgreedFor
  <2>3. allocated[m] = Cardinality(Live(m)) + (IF m = mc[r] THEN 1 ELSE 0)
    BY <1>1, <2>1, <2>2 DEF Counted, Row
  <2>4. allocated'[m] = Cardinality(Live(m)') + (IF m = mc[r] THEN 1 ELSE 0)
    BY <1>1, <1>2, <1>3, <2>1, <2>3
  <2> QED
    BY <1>1, <2>1, <2>4 DEF Counted, Row
<1>6. ASSUME NEW m \in MgmtClusters, NEW k \in Clusters
      PROVE  Matched(m, k, At(r, m, k, UnreadSteps), At(r, m, k, ReadSteps),
                     At(r, m, k, UnmappedSteps), At(r, m, k, MappedSteps))'
  <2> DEFINE here == m = mc[r] /\ k = key[r]
  <2>1. (Deleter(r, m, k) <=> here) /\ (Deleter(r, m, k)' <=> here)
    BY <1>1 DEF Deleter, Row, OthersStay
  <2>2. Matched(m, k, At(r, m, k, UnreadSteps), At(r, m, k, ReadSteps),
                At(r, m, k, UnmappedSteps), At(r, m, k, MappedSteps))
    BY DEF AgreedFor
  <2>3. /\ k \in readDesires[m] <=> (ApplyExists(m, k)) \/ here
        /\ clustermap[k] = m <=> (ApplyExists(m, k)) \/ here
    BY <1>1, <2>1, <2>2 DEF Matched, At, Row
  <2>4. /\ k \in readDesires'[m] <=> ApplyExists(m, k)'
        /\ clustermap'[k] = m <=> (ApplyExists(m, k)') \/ here
    BY <1>1, <1>2, <2>3 DEF AgreedFor, OnCourse, ApplyExists, Row
  <2> QED
    BY <1>1, <2>1, <2>4 DEF Matched, At, Row
<1> QED
  BY <1>4, <1>5, <1>6 DEF AgreedFor

\* The DeleteDesire is in none of the four stores.
LEMMA AgreedCreateDelete ==
  ASSUME TypeOK, RequestInv, HandlerInv, NEW r \in Requests,
         CreateDeleteDesire(r), AgreedFor(r)
  PROVE  AgreedFor(r)'
<1>1. /\ OthersStay(r) /\ Row(r, "create_delete", "release", code[r])
      /\ UNCHANGED <<placementVars, applyDesires, readDesires>>
  BY CreateDeleteStep
<1>2. mc[r] \in MgmtClusters /\ key[r] \in Clusters
  BY <1>1, Placed DEF Row
<1>3. \A m \in MgmtClusters : Live(m)' = Live(m)
  BY <1>1 DEF Live, ApplyExists
<1>4. OnCourse(r)'
  BY <1>1, <1>2 DEF AgreedFor, OnCourse, OthersStay, Row, ApplyExists
<1>5. ASSUME NEW m \in MgmtClusters
      PROVE  Counted(m, mc[r] = m /\ pc[r] \in SlotSteps)'
  <2>1. Cardinality(Live(m)) \in Nat /\ Cardinality(Live(m)') \in Nat
    BY LiveType
  <2>2. Counted(m, mc[r] = m /\ pc[r] \in SlotSteps)
    BY DEF AgreedFor
  <2>3. allocated[m] = Cardinality(Live(m)) + (IF m = mc[r] THEN 1 ELSE 0)
    BY <1>1, <2>1, <2>2 DEF Counted, Row
  <2>4. allocated'[m] = Cardinality(Live(m)') + (IF m = mc[r] THEN 1 ELSE 0)
    BY <1>1, <1>2, <1>3, <2>1, <2>3
  <2> QED
    BY <1>1, <2>1, <2>4 DEF Counted, Row
<1>6. ASSUME NEW m \in MgmtClusters, NEW k \in Clusters
      PROVE  Matched(m, k, At(r, m, k, UnreadSteps), At(r, m, k, ReadSteps),
                     At(r, m, k, UnmappedSteps), At(r, m, k, MappedSteps))'
  <2> DEFINE here == m = mc[r] /\ k = key[r]
  <2>1. (Deleter(r, m, k) <=> here) /\ (Deleter(r, m, k)' <=> here)
    BY <1>1 DEF Deleter, Row, OthersStay
  <2>2. Matched(m, k, At(r, m, k, UnreadSteps), At(r, m, k, ReadSteps),
                At(r, m, k, UnmappedSteps), At(r, m, k, MappedSteps))
    BY DEF AgreedFor
  <2>3. /\ k \in readDesires[m] <=> ApplyExists(m, k)
        /\ clustermap[k] = m <=> (ApplyExists(m, k)) \/ here
    BY <1>1, <2>1, <2>2 DEF Matched, At, Row
  <2>4. /\ k \in readDesires'[m] <=> ApplyExists(m, k)'
        /\ clustermap'[k] = m <=> (ApplyExists(m, k)') \/ here
    BY <1>1, <1>2, <2>3 DEF AgreedFor, OnCourse, ApplyExists, Row
  <2> QED
    BY <1>1, <2>1, <2>4 DEF Matched, At, Row
<1> QED
  BY <1>4, <1>5, <1>6 DEF AgreedFor

\* The slot is given back; since r accounts for it the counter is not zero.
LEMMA AgreedRelease ==
  ASSUME TypeOK, RequestInv, HandlerInv, NEW r \in Requests, DeleteRelease(r),
         AgreedFor(r)
  PROVE  AgreedFor(r)'
<1>1. /\ OthersStay(r) /\ Row(r, "release", "delete_mapping", code[r])
      /\ \A m \in MgmtClusters : allocated'[m] =
           IF m = mc[r] /\ allocated[m] # 0 THEN allocated[m] - 1
             ELSE allocated[m]
      /\ UNCHANGED <<clustermap, applyDesires, readDesires>>
  BY ReleaseStep
<1>2. mc[r] \in MgmtClusters /\ key[r] \in Clusters
  BY <1>1, Placed DEF Row
<1>3. \A m \in MgmtClusters : Live(m)' = Live(m)
  BY <1>1 DEF Live, ApplyExists
<1>4. OnCourse(r)'
  BY <1>1, <1>2 DEF AgreedFor, OnCourse, OthersStay, Row, ApplyExists
<1>5. ASSUME NEW m \in MgmtClusters
      PROVE  Counted(m, mc[r] = m /\ pc[r] \in SlotSteps)'
  <2>1. Cardinality(Live(m)) \in Nat /\ Cardinality(Live(m)') \in Nat
    BY LiveType
  <2>2. Counted(m, mc[r] = m /\ pc[r] \in SlotSteps)
    BY DEF AgreedFor
  <2>3. allocated[m] = Cardinality(Live(m)) + (IF m = mc[r] THEN 1 ELSE 0)
    BY <1>1, <2>1, <2>2 DEF Counted, Row
  <2>4. allocated'[m] = Cardinality(Live(m)')
    BY <1>1, <1>2, <1>3, <2>1, <2>3
  <2> QED
    BY <1>1, <2>1, <2>4 DEF Counted, Row
<1>6. ASSUME NEW m \in MgmtClusters, NEW k \in Clusters
      PROVE  Matched(m, k, At(r, m, k, UnreadSteps), At(r, m, k, ReadSteps),
                     At(r, m, k, UnmappedSteps), At(r, m, k, MappedSteps))'
  <2> DEFINE here == m = mc[r] /\ k = key[r]
  <2>1. (Deleter(r, m, k) <=> here) /\ (Deleter(r, m, k)' <=> here)
    BY <1>1 DEF Deleter, Row, OthersStay
  <2>2. Matched(m, k, At(r, m, k, UnreadSteps), At(r, m, k, ReadSteps),
                At(r, m, k, UnmappedSteps), At(r, m, k, MappedSteps))
    BY DEF AgreedFor
  <2>3. /\ k \in readDesires[m] <=> ApplyExists(m, k)
        /\ clustermap[k] = m <=> (ApplyExists(m, k)) \/ here
    BY <1>1, <2>1, <2>2 DEF Matched, At, Row
  <2>4. /\ k \in readDesires'[m] <=> ApplyExists(m, k)'
        /\ clustermap'[k] = m <=> (ApplyExists(m, k)') \/ here
    BY <1>1, <1>2, <2>3 DEF AgreedFor, OnCourse, ApplyExists, Row
  <2> QED
    BY <1>1, <2>1, <2>4 DEF Matched, At, Row
<1> QED
  BY <1>4, <1>5, <1>6 DEF AgreedFor

\* The mapping goes last: none of the four stores has the hosted cluster.
LEMMA AgreedUnmap ==
  ASSUME TypeOK, RequestInv, HandlerInv, NEW r \in Requests, DeleteMapping(r),
         AgreedFor(r)
  PROVE  AgreedFor(r)'
<1>1. /\ OthersStay(r) /\ Row(r, "delete_mapping", "done", 200)
      /\ \A k \in Clusters :
           clustermap'[k] = IF k = key[r] THEN NoMC ELSE clustermap[k]
      /\ UNCHANGED <<allocated, applyDesires, readDesires>>
  BY UnmapStep
<1>2. mc[r] \in MgmtClusters /\ key[r] \in Clusters
  BY <1>1, Placed DEF Row
<1>3. \A m \in MgmtClusters : Live(m)' = Live(m)
  BY <1>1 DEF Live, ApplyExists
<1>4. OnCourse(r)'
  BY <1>1, <1>2 DEF AgreedFor, OnCourse, OthersStay, Row, ApplyExists
<1>5. ASSUME NEW m \in MgmtClusters
      PROVE  Counted(m, mc[r] = m /\ pc[r] \in SlotSteps)'
  <2>1. Cardinality(Live(m)) \in Nat /\ Cardinality(Live(m)') \in Nat
    BY LiveType
  <2>2. Counted(m, mc[r] = m /\ pc[r] \in SlotSteps)
    BY DEF AgreedFor
  <2>3. allocated[m] = Cardinality(Live(m))
    BY <1>1, <2>1, <2>2 DEF Counted, Row
  <2>4. allocated'[m] = Cardinality(Live(m)')
    BY <1>1, <1>2, <1>3, <2>1, <2>3
  <2> QED
    BY <1>1, <2>1, <2>4 DEF Counted, Row
<1>6. ASSUME NEW m \in MgmtClusters, NEW k \in Clusters
      PROVE  Matched(m, k, At(r, m, k, UnreadSteps), At(r, m, k, ReadSteps),
                     At(r, m, k, UnmappedSteps), At(r, m, k, MappedSteps))'
  <2> DEFINE here == m = mc[r] /\ k = key[r]
  <2>1. (Deleter(r, m, k) <=> here) /\ (Deleter(r, m, k)' <=> here)
    BY <1>1 DEF Deleter, Row, OthersStay
  <2>2. Matched(m, k, At(r, m, k, UnreadSteps), At(r, m, k, ReadSteps),
                At(r, m, k, UnmappedSteps), At(r, m, k, MappedSteps))
    BY DEF AgreedFor
  <2>3. /\ k \in readDesires[m] <=> ApplyExists(m, k)
        /\ clustermap[k] = m <=> (ApplyExists(m, k)) \/ here
    BY <1>1, <2>1, <2>2 DEF Matched, At, Row
  <2>4. /\ k \in readDesires'[m] <=> ApplyExists(m, k)'
        /\ clustermap'[k] = m <=> ApplyExists(m, k)'
    BY <1>1, <1>2, <2>3 DEF AgreedFor, OnCourse, ApplyExists, Row
  <2> QED
    BY <1>1, <2>1, <2>4 DEF Matched, At, Row
<1> QED
  BY <1>4, <1>5, <1>6 DEF AgreedFor

\* The ApplyDesire stays, with another version.
LEMMA AgreedReplace ==
  ASSUME TypeOK, RequestInv, HandlerInv, NEW r \in Requests, UpdateReplace(r),
         AgreedFor(r)
  PROVE  AgreedFor(r)'
<1>1. /\ OthersStay(r) /\ Row(r, "replace", "done", 200)
      /\ applyDesires[mc[r]][key[r]] = base[r] /\ WritesApply(r, r)
      /\ UNCHANGED <<placementVars, readDesires>>
  BY ReplaceStep
<1>2. mc[r] \in MgmtClusters /\ key[r] \in Clusters
  BY <1>1, Placed DEF Row
<1>2a. \A m \in MgmtClusters, k \in Clusters : ApplyExists(m, k)' <=>
         ApplyExists(m, k)
  BY <1>1 DEF WritesApply, ApplyExists, HandlerInv, Row
<1>3. \A m \in MgmtClusters : Live(m)' = Live(m)
  BY <1>2a DEF Live
<1>4. OnCourse(r)'
  BY <1>1, <1>2, <1>2a DEF AgreedFor, OnCourse, OthersStay, Row
<1>5. ASSUME NEW m \in MgmtClusters
      PROVE  Counted(m, mc[r] = m /\ pc[r] \in SlotSteps)'
  <2>1. Cardinality(Live(m)) \in Nat /\ Cardinality(Live(m)') \in Nat
    BY LiveType
  <2>2. Counted(m, mc[r] = m /\ pc[r] \in SlotSteps)
    BY DEF AgreedFor
  <2>3. allocated[m] = Cardinality(Live(m))
    BY <1>1, <2>1, <2>2 DEF Counted, Row
  <2>4. allocated'[m] = Cardinality(Live(m)')
    BY <1>1, <1>2, <1>3, <2>1, <2>3
  <2> QED
    BY <1>1, <2>1, <2>4 DEF Counted, Row
<1>6. ASSUME NEW m \in MgmtClusters, NEW k \in Clusters
      PROVE  Matched(m, k, At(r, m, k, UnreadSteps), At(r, m, k, ReadSteps),
                     At(r, m, k, UnmappedSteps), At(r, m, k, MappedSteps))'
  <2> DEFINE here == m = mc[r] /\ k = key[r]
  <2>1. (Deleter(r, m, k) <=> here) /\ (Deleter(r, m, k)' <=> here)
    BY <1>1 DEF Deleter, Row, OthersStay
  <2>2. Matched(m, k, At(r, m, k, UnreadSteps), At(r, m, k, ReadSteps),
                At(r, m, k, UnmappedSteps), At(r, m, k, MappedSteps))
    BY DEF AgreedFor
  <2>3. /\ k \in readDesires[m] <=> ApplyExists(m, k)
        /\ clustermap[k] = m <=> ApplyExists(m, k)
    BY <1>1, <2>1, <2>2 DEF Matched, At, Row
  <2>4. /\ k \in readDesires'[m] <=> ApplyExists(m, k)'
        /\ clustermap'[k] = m <=> ApplyExists(m, k)'
    BY <1>1, <1>2, <1>2a, <2>3 DEF AgreedFor, OnCourse, Row
  <2> QED
    BY <1>1, <2>1, <2>4 DEF Matched, At, Row
<1> QED
  BY <1>4, <1>5, <1>6 DEF AgreedFor

\* The ApplyDesire takes the slot over from r.
LEMMA AgreedCreateApply ==
  ASSUME TypeOK, RequestInv, HandlerInv, NEW r \in Requests,
         CreateApplyDesire(r), AgreedFor(r)
  PROVE  AgreedFor(r)'
<1>1. /\ OthersStay(r) /\ Row(r, "create_apply", "create_read", code[r])
      /\ ~ApplyExists(mc[r], key[r]) /\ WritesApply(r, r)
      /\ UNCHANGED <<placementVars, readDesires>>
  BY CreateApplyStep
<1>2. mc[r] \in MgmtClusters /\ key[r] \in Clusters
  BY <1>1, Placed DEF Row
<1>2a. \A m \in MgmtClusters, k \in Clusters :
         ApplyExists(m, k)' <=> ApplyExists(m, k) \/ (m = mc[r] /\ k = key[r])
  BY <1>1 DEF WritesApply, ApplyExists
<1>3. \A m \in MgmtClusters : m # mc[r] => Live(m)' = Live(m)
  BY <1>2a DEF Live
<1>3a. \A m \in MgmtClusters :
         m = mc[r] => Cardinality(Live(m)') = Cardinality(Live(m)) + 1
  BY <1>1, <1>2, <1>2a, LiveAdds DEF Row
<1>4. OnCourse(r)'
  BY <1>1, <1>2, <1>2a DEF AgreedFor, OnCourse, OthersStay, Row
<1>5. ASSUME NEW m \in MgmtClusters
      PROVE  Counted(m, mc[r] = m /\ pc[r] \in SlotSteps)'
  <2>1. Cardinality(Live(m)) \in Nat /\ Cardinality(Live(m)') \in Nat
    BY LiveType
  <2>2. Counted(m, mc[r] = m /\ pc[r] \in SlotSteps)
    BY DEF AgreedFor
  <2>3. allocated[m] = Cardinality(Live(m)) + (IF m = mc[r] THEN 1 ELSE 0)
    BY <1>1, <2>1, <2>2 DEF Counted, Row
  <2>4. allocated'[m] = Cardinality(Live(m)')
    BY <1>1, <1>2, <1>3, <1>3a, <2>1, <2>3
  <2> QED
    BY <1>1, <2>1, <2>4 DEF Counted, Row
<1>6. ASSUME NEW m \in MgmtClusters, NEW k \in Clusters
      PROVE  Matched(m, k, At(r, m, k, UnreadSteps), At(r, m, k, ReadSteps),
                     At(r, m, k, UnmappedSteps), At(r, m, k, MappedSteps))'
  <2> DEFINE here == m = mc[r] /\ k = key[r]
  <2>1. (Deleter(r, m, k) <=> here) /\ (Deleter(r, m, k)' <=> here)
    BY <1>1 DEF Deleter, Row, OthersStay
  <2>2. Matched(m, k, At(r, m, k, UnreadSteps), At(r, m, k, ReadSteps),
                At(r, m, k, UnmappedSteps), At(r, m, k, MappedSteps))
    BY DEF AgreedFor
  <2>3. /\ k \in readDesires[m] <=> ApplyExists(m, k)
        /\ clustermap[k] = m <=> ApplyExists(m, k)
    BY <1>1, <2>1, <2>2 DEF Matched, At, Row
  <2>4. /\ k \in readDesires'[m] <=> ApplyExists(m, k)' /\ ~here
        /\ clustermap'[k] = m <=> ApplyExists(m, k)' /\ ~here
    BY <1>1, <1>2, <1>2a, <2>3 DEF AgreedFor, OnCourse, Row
  <2> QED
    BY <1>1, <2>1, <2>4 DEF Matched, At, Row
<1> QED
  BY <1>4, <1>5, <1>6 DEF AgreedFor

\* r takes the slot over from the ApplyDesire.
LEMMA AgreedDeleteApply ==
  ASSUME TypeOK, RequestInv, HandlerInv, NEW r \in Requests,
         DeleteApplyDesire(r), AgreedFor(r)
  PROVE  AgreedFor(r)'
<1>1. /\ OthersStay(r) /\ Row(r, "delete_apply", "delete_read", code[r])
      /\ WritesApply(r, NoDoc)
      /\ UNCHANGED <<placementVars, readDesires>>
  BY DeleteApplyStep
<1>2. mc[r] \in MgmtClusters /\ key[r] \in Clusters
  BY <1>1, Placed DEF Row
<1>2a. \A m \in MgmtClusters, k \in Clusters :
         ApplyExists(m, k)' <=> ApplyExists(m, k) /\ ~(m = mc[r] /\ k = key[r])
  BY <1>1 DEF WritesApply, ApplyExists
<1>3. \A m \in MgmtClusters : m # mc[r] => Live(m)' = Live(m)
  BY <1>2a DEF Live
<1>3a. \A m \in MgmtClusters :
         m = mc[r] => Cardinality(Live(m)) = Cardinality(Live(m)') + 1
  BY <1>1, <1>2, <1>2a, LiveDrops DEF Row, AgreedFor, OnCourse
<1>4. OnCourse(r)'
  BY <1>1, <1>2, <1>2a DEF AgreedFor, OnCourse, OthersStay, Row
<1>5. ASSUME NEW m \in MgmtClusters
      PROVE  Counted(m, mc[r] = m /\ pc[r] \in SlotSteps)'
  <2>1. Cardinality(Live(m)) \in Nat /\ Cardinality(Live(m)') \in Nat
    BY LiveType
  <2>2. Counted(m, mc[r] = m /\ pc[r] \in SlotSteps)
    BY DEF AgreedFor
  <2>3. allocated[m] = Cardinality(Live(m))
    BY <1>1, <2>1, <2>2 DEF Counted, Row
  <2>4. allocated'[m] = Cardinality(Live(m)') + (IF m = mc[r] THEN 1 ELSE 0)
    BY <1>1, <1>2, <1>3, <1>3a, <2>1, <2>3
  <2> QED
    BY <1>1, <2>1, <2>4 DEF Counted, Row
<1>6. ASSUME NEW m \in MgmtClusters, NEW k \in Clusters
      PROVE  Matched(m, k, At(r, m, k, UnreadSteps), At(r, m, k, ReadSteps),
                     At(r, m, k, UnmappedSteps), At(r, m, k, MappedSteps))'
  <2> DEFINE here == m = mc[r] /\ k = key[r]
  <2>1. (Deleter(r, m, k) <=> here) /\ (Deleter(r, m, k)' <=> here)
    BY <1>1 DEF Deleter, Row, OthersStay
  <2>2. Matched(m, k, At(r, m, k, UnreadSteps), At(r, m, k, ReadSteps),
                At(r, m, k, UnmappedSteps), At(r, m, k, MappedSteps))
    BY DEF AgreedFor
  <2>3. /\ k \in readDesires[m] <=> ApplyExists(m, k)
        /\ clustermap[k] = m <=> ApplyExists(m, k)
    BY <1>1, <2>1, <2>2 DEF Matched, At, Row
  <2>4. /\ k \in readDesires'[m] <=> (ApplyExists(m, k)') \/ here
        /\ clustermap'[k] = m <=> (ApplyExists(m, k)') \/ here
    BY <1>1, <1>2, <1>2a, <2>3 DEF AgreedFor, OnCourse, Row
  <2> QED
    BY <1>1, <2>1, <2>4 DEF Matched, At, Row
<1> QED
  BY <1>4, <1>5, <1>6 DEF AgreedFor

\* No request has ended half done.
AllClean == \A r \in Requests : Active(r) \/ Clean(r)

\* As long as that is so, with one request at a time, the stores agree.
AgreementInv == MaxActive = 1 /\ AllClean => Agreed

\* The stores are empty in the beginning.
LEMMA AgreementInit == Init => AgreementInv
<1> SUFFICES ASSUME Init PROVE Agreed
  BY DEF AgreementInv
<1>1. \A m \in MgmtClusters : Live(m) = {}
  BY DEF Init, DesiresInit, Live, ApplyExists
<1>2. \A r \in Requests : pc[r] = "start"
  BY DEF Init
<1>3. \A m \in MgmtClusters : allocated[m] = 0
  BY DEF Init, PlacementInit
<1>4. \A m \in MgmtClusters, k \in Clusters :
        ~ApplyExists(m, k) /\ k \notin readDesires[m] /\ clustermap[k] # m
  BY DEF Init, PlacementInit, DesiresInit, ApplyExists
<1>5. \A m \in MgmtClusters :
        Counted(m, \E r \in Requests : mc[r] = m /\ pc[r] \in SlotSteps)
  BY <1>1, <1>2, <1>3, FS_EmptySet DEF Counted
<1>6. \A m \in MgmtClusters, k \in Clusters :
        Matched(m, k, SomeAt(m, k, UnreadSteps), SomeAt(m, k, ReadSteps),
                      SomeAt(m, k, UnmappedSteps), SomeAt(m, k, MappedSteps))
  BY <1>2, <1>4 DEF Matched, SomeAt, At
<1> QED
  BY <1>2, <1>5, <1>6 DEF Agreed, OnCourse

\* A request that has ended half done stays so.
LEMMA CleanBefore ==
  ASSUME TypeOK, RequestInv, Forward, AllClean' PROVE AllClean
<1> SUFFICES ASSUME NEW r \in Requests, pc[r] = "done" PROVE Clean(r)
  BY DEF AllClean, Active, Clean
<1>1. Clean(r)'
  BY DEF Forward, AllClean, Active
<1> QED
  BY <1>1 DEF Forward, Clean

\* A step is taken by the only active request, for which one of the lemmas
\* above applies.
LEMMA AgreementStep ==
  ASSUME TypeOK, RequestInv, HandlerInv, SerialInv, AgreementInv, [Next]_vars
  PROVE  AgreementInv'
<1> SUFFICES ASSUME MaxActive = 1, AllClean' PROVE Agreed'
  BY DEF AgreementInv
<1>1. Agreed
  BY GoForward, CleanBefore DEF AgreementInv
<1>2. ASSUME NEW r \in Requests, QuietAction(r) PROVE Agreed'
  <2>1. OthersStay(r) /\ UNCHANGED <<placementVars, desireVars>>
    BY <1>2, QuietStep
  <2>2. CASE Alone(r)
    <3>1. AgreedFor(r)
      BY <1>1, <2>2, AgreedAlone
    <3>2. Active(r)' \/ Clean(r)'
      BY DEF AllClean
    <3>3. AgreedFor(r)'
      BY <1>2, <3>1, <3>2, AgreedQuiet
    <3> QED
      BY <2>1, <2>2, <3>3, AgreedAgain
  <2>3. CASE Ended(r) /\ pc[r] = "start"
    <3>1. \A s \in Requests : \/ pc'[s] = pc[s] /\ mc'[s] = mc[s]
                              \/ pc[s] = "start" /\ pc'[s] = "done"
      BY <2>1, <2>3 DEF OthersStay, Ended
    <3>2. key' = key
      BY <2>1 DEF OthersStay
    <3>3. \A m, k : /\ SomeAt(m, k, UnreadSteps)' <=> SomeAt(m, k, UnreadSteps)
                    /\ SomeAt(m, k, ReadSteps)' <=> SomeAt(m, k, ReadSteps)
                    /\ SomeAt(m, k, UnmappedSteps)' <=>
                         SomeAt(m, k, UnmappedSteps)
                    /\ SomeAt(m, k, MappedSteps)' <=> SomeAt(m, k, MappedSteps)
      BY <3>1, <3>2 DEF SomeAt, At, Deleter
    <3>4. \A m : (\E s \in Requests : mc'[s] = m /\ pc'[s] \in SlotSteps)
                   <=> (\E s \in Requests : mc[s] = m /\ pc[s] \in SlotSteps)
      BY <3>1
    <3>5. \A m : Live(m)' = Live(m)
      BY <2>1 DEF Live, ApplyExists
    <3>6. \A s \in Requests : OnCourse(s)'
      BY <1>1, <2>1, <3>1, <3>2 DEF Agreed, OnCourse, ApplyExists
    <3> QED
      BY <1>1, <2>1, <3>3, <3>4, <3>5, <3>6
         DEF Agreed, Counted, Matched, ApplyExists
  <2> QED
    BY <1>2, <2>2, <2>3, QuietAlone
<1>3. ASSUME NEW r \in Requests, OthersStay(r), Alone(r),
             AgreedFor(r) => AgreedFor(r)'
      PROVE  Agreed'
  BY <1>1, <1>3, AgreedAlone, AgreedAgain
<1>4. ASSUME NEW r \in Requests,
             \/ CreateAllocate(r) \/ CreateNamespace(r)
             \/ CreateApplyDesire(r) \/ CreateReadDesire(r) \/ CreateMapping(r)
      PROVE  Agreed'
  BY <1>3, <1>4, LoudAlone, AgreedAllocate, AllocateStep, AgreedNamespace,
     NamespaceStep, AgreedCreateApply, CreateApplyStep, AgreedCreateRead,
     CreateReadStep, AgreedMapping, MappingStep
<1>5. ASSUME NEW r \in Requests,
             \/ UpdateReplace(r) \/ DeleteApplyDesire(r) \/ DeleteReadDesire(r)
             \/ CreateDeleteDesire(r) \/ DeleteRelease(r) \/ DeleteMapping(r)
      PROVE  Agreed'
  BY <1>3, <1>5, LoudAlone, AgreedReplace, ReplaceStep, AgreedDeleteApply,
     DeleteApplyStep, AgreedDeleteRead, DeleteReadStep, AgreedCreateDelete,
     CreateDeleteStep, AgreedRelease, ReleaseStep, AgreedUnmap, UnmapStep
<1>6. CASE UNCHANGED vars
  <2>1. \A m : Live(m)' = Live(m)
    BY <1>6 DEF vars, Live, ApplyExists
  <2> QED
    BY <1>1, <1>6, <2>1
       DEF vars, requestVars, Agreed, Counted, Matched, OnCourse, SomeAt, At,
           Deleter, ApplyExists
<1> QED
  BY <1>2, <1>4, <1>5, <1>6, StepCases

\* Between requests nothing is in flight.
LEMMA AgreedIdle ==
  ASSUME TypeOK, RequestInv, AgreementInv PROVE Agreement
<1> SUFFICES ASSUME MaxActive = 1, \A r \in Requests : Clean(r),
                    NEW m \in MgmtClusters
             PROVE  /\ allocated[m] = Cardinality(Live(m))
                    /\ readDesires[m] = Live(m)
                    /\ Live(m) = {k \in Clusters : clustermap[k] = m}
  BY DEF Agreement
<1>1. Agreed
  BY DEF AgreementInv, AllClean
<1>2. \A r \in Requests :
        pc[r] \notin SlotSteps \cup UnmappedSteps \cup MappedSteps
  BY DEF RequestInv, Clean, TypeOK, RequestsTypeOK
<1>3. Counted(m, FALSE)
  BY <1>1, <1>2 DEF Agreed, Counted
<1>4. \A k \in Clusters : /\ k \in readDesires[m] <=> ApplyExists(m, k)
                          /\ clustermap[k] = m <=> ApplyExists(m, k)
  BY <1>1, <1>2 DEF Agreed, Matched, SomeAt, At
<1>5. readDesires[m] \subseteq Clusters
  BY DEF TypeOK, DesiresTypeOK
<1>6. Cardinality(Live(m)) \in Nat
  BY LiveType
<1> QED
  BY <1>3, <1>4, <1>5, <1>6 DEF Counted, Live

-----------------------------------------------------------------------------
(* The theorems. *)

\* The inductive invariant.
DocumentInv ==
  /\ TypeOK /\ RequestInv /\ HandlerInv /\ NamespaceInv /\ VersionInv /\
       LevelInv
  /\ DurableInv /\ MappingInv /\ SerialInv /\ AgreementInv

\* Every part of it holds at first, and each is preserved given those before.
LEMMA DocumentInductive == Init /\ [][Next]_vars => []DocumentInv
<1>1. Init => DocumentInv
  BY TypeInit, RequestInit, HandlerInit, NamespaceInit, VersionInit, LevelInit,
     DurableInit, MappingInit, SerialInit, AgreementInit
     DEF DocumentInv
<1>2. DocumentInv /\ [Next]_vars => DocumentInv'
  BY TypeStep, RequestStep, HandlerStep, NamespaceInvStep, VersionStep,
     LevelStep, DurableStep, MappingInvStep, SerialStep, AgreementStep
     DEF DocumentInv
<1> QED
  BY <1>1, <1>2, PTL

\* For every fleet and interleaving: the agent is never told to apply a
\* hosted cluster into a namespace that it was not told to create, although
\* CreateManagedHostedCluster writes the two desires in two calls.
THEOREM NamespaceComesFirst == Spec => []NamespaceFirst
<1>1. DocumentInv => NamespaceFirst
  BY DEF DocumentInv, NamespaceInv
<1> QED
  BY <1>1, DocumentInductive, PTL DEF Spec

\* For every fleet and interleaving: no two Updates answered 200 have read the
\* same version of an ApplyDesire, since the handler replaces only the version
\* it read itself.  (Nothing is said of what a client had read before.)
THEOREM UpdatesKept == Spec => []NoLostUpdate
<1>1. DocumentInv => NoLostUpdate
  BY DEF DocumentInv, VersionInv
<1> QED
  BY <1>1, DocumentInductive, PTL DEF Spec

\* For every fleet and interleaving: until something is deleted the counters
\* stay level, since AllocateManagementCluster takes the least loaded cluster
\* that has room.
THEOREM CountersLevel == Spec => []Balanced
<1>1. DocumentInv => Balanced
  BY DEF DocumentInv, LevelInv
<1> QED
  BY <1>1, DocumentInductive, PTL DEF Spec

\* What the last invariants say of requests that were answered 200.
LEMMA DurableCreates == DocumentInv => CreateDurable
BY DEF DocumentInv, TypeOK, RequestsTypeOK, RequestInv, DurableInv, Made,
       Doomed, Lasting, CreateDurable, ClusterMappingNotFound

\* MappingLeadsToDesire follows from the invariant: a mapping without its
\* ApplyDesire is between two calls of a Delete, or a Delete has failed
\* there.
LEMMA LeadingMappings == DocumentInv => MappingLeadsToDesire
BY DEF DocumentInv, MappingInv, GoneInv, Del, MappingLeadsToDesire,
       GetClusterMapping

\* For every fleet and interleaving: what a Create answered 200 has written,
\* and a mapping of its name, stay until a Delete of that name has found the
\* mapping.
THEOREM CreatesDurable == Spec => []CreateDurable
BY DurableCreates, DocumentInductive, PTL DEF Spec

\* For every fleet and interleaving: a mapping leads to a management cluster
\* that is told to run the hosted cluster, or a Delete has not come to its
\* end there.
THEOREM MappingsLead == Spec => []MappingLeadsToDesire
BY LeadingMappings, DocumentInductive, PTL DEF Spec

\* When requests come one at a time and none ends half done, for every fleet:
\* between requests the counters, the ApplyDesires, the ReadDesires and the
\* mappings agree.
THEOREM StoresAgree == Spec => []Agreement
<1>1. DocumentInv => Agreement
  BY AgreedIdle DEF DocumentInv
<1> QED
  BY <1>1, DocumentInductive, PTL DEF Spec
=============================================================================
