------------------------------ MODULE ClusterAPI ------------------------------
(***************************************************************************)
(* The handlers of internal/apiserver/handlers.go that change state:       *)
(* Create, Update and Delete of a ManagedHostedCluster.  A handler is a    *)
(* sequence of calls to the placement database and to one specs database,  *)
(* each atomic, with no transaction around them.  Every request runs in    *)
(* its own goroutine, so the calls of concurrent requests interleave in    *)
(* any order, across replicas of the server as well as within one.         *)
(*                                                                         *)
(* A request's operation and target never change.  Its program counter     *)
(* names the call it makes next; an action performs that call and goes on, *)
(* or answers.  Fail is every way a request ends in between: an error of   *)
(* Firestore, a cancelled context, a crash of the server.  A call that     *)
(* took effect although its answer was lost is that call, then Fail.       *)
(*                                                                         *)
(* Not here: decoding and validation (they precede the first call and      *)
(* touch nothing), the content of the resource, and the read-only          *)
(* handlers.                                                               *)
(***************************************************************************)
EXTENDS Placement, Desires

CONSTANTS Ops,              \* the operations clients use
          MaxActive,        \* how many requests are served at a time
          MayFail           \* whether a request may end between two calls

ASSUME APIAssumption ==
  /\ Ops \subseteq {"Create", "Update", "Delete"}
  /\ MaxActive \in Nat
  /\ MayFail \in BOOLEAN

VARIABLES op,               \* the operation of each request
          key,              \* the hosted cluster it names
          pc,               \* the call it makes next
          mc,               \* the management cluster it works on
          base,             \* the version an Update has read
          code              \* the status it was answered, 0 before

requestVars == <<op, key, pc, mc, base, code>>
vars == <<placementVars, desireVars, requestVars>>

CreateSteps == {"allocate", "create_ns", "create_apply", "create_read",
                "set_mapping"}
UpdateSteps == {"get_update", "replace"}
DeleteSteps == {"get_delete", "delete_apply", "delete_read", "create_delete",
                "release", "delete_mapping"}

\* The calls made once the management cluster is known.
PlacedSteps == (CreateSteps \ {"allocate"}) \cup UpdateSteps \cup DeleteSteps

Codes == {0, 200, 404, 409, 500}

RequestsTypeOK ==
  /\ op \in [Requests -> Ops]
  /\ key \in [Requests -> Clusters]
  /\ pc \in [Requests -> {"start", "done"} \cup CreateSteps \cup UpdateSteps
                         \cup DeleteSteps]
  /\ mc \in [Requests -> MgmtClusters \cup {NoMC}]
  /\ base \in [Requests -> Requests \cup {NoDoc}]
  /\ code \in [Requests -> Codes]
  /\ \A r \in Requests : pc[r] \in PlacedSteps => mc[r] \in MgmtClusters

\* Every variable has its type, and a request past its lookup (and a Create
\* past Allocate) works on a management cluster of the fleet.
TypeOK == PlacementTypeOK /\ DesiresTypeOK /\ RequestsTypeOK

Init ==
  /\ PlacementInit
  /\ DesiresInit
  /\ op \in [Requests -> Ops]
  /\ key \in [Requests -> Clusters]
  /\ pc = [r \in Requests |-> "start"]
  /\ mc = [r \in Requests |-> NoMC]
  /\ base = [r \in Requests |-> NoDoc]
  /\ code = [r \in Requests |-> 0]

-----------------------------------------------------------------------------

Active(r) == pc[r] \notin {"start", "done"}

\* A request is taken up while fewer than MaxActive others are served.
Admitted(r) ==
  pc[r] = "start" /\ Cardinality({s \in Requests : Active(s)}) < MaxActive

Goto(r, step) ==
  /\ pc' = [pc EXCEPT ![r] = step]
  /\ UNCHANGED code

Answer(r, status) ==
  /\ pc' = [pc EXCEPT ![r] = "done"]
  /\ code' = [code EXCEPT ![r] = status]

Target(r, m) == mc' = [mc EXCEPT ![r] = m]

-----------------------------------------------------------------------------
(* Create *)

CreateLookup(r) ==
  /\ Admitted(r) /\ op[r] = "Create"
  /\ \/ ClusterMappingNotFound(key[r]) /\ Goto(r, "allocate")
     \/ ~ClusterMappingNotFound(key[r]) /\ Answer(r, 409)
  /\ UNCHANGED <<placementVars, desireVars, op, key, mc, base>>

\* The mapping is recorded as soon as the placement is known.
CreateAllocateFault(r) ==
  /\ pc[r] = "allocate"
  /\ \E m \in MgmtClusters :
       Allocate(m) /\ Target(r, m) /\ SetClusterMapping(key[r], m)
  /\ Goto(r, "create_ns")
  /\ UNCHANGED <<desireVars, op, key, base>>

CreateAllocate(r) ==
  /\ pc[r] = "allocate"
  /\ \E m \in MgmtClusters : Allocate(m) /\ Target(r, m)
  /\ Goto(r, "create_ns")
  /\ UNCHANGED <<clustermap, desireVars, op, key, base>>

CreateNoCapacity(r) ==
  /\ pc[r] = "allocate"
  /\ NoCapacity
  /\ Answer(r, 500)
  /\ UNCHANGED <<placementVars, desireVars, op, key, mc, base>>

CreateNamespace(r) ==
  /\ pc[r] = "create_ns"
  /\ EnsureNamespace(mc[r], NamespaceOf[key[r]])
  /\ Goto(r, "create_apply")
  /\ UNCHANGED <<placementVars, applyDesires, readDesires, deleteDesires,
                 op, key, mc, base>>

CreateApplyDesire(r) ==
  /\ pc[r] = "create_apply"
  /\ CreateApply(r, mc[r], key[r])
  /\ Goto(r, "create_read")
  /\ UNCHANGED <<placementVars, nsDesires, readDesires, deleteDesires,
                 op, key, mc, base>>

\* The slot taken by Allocate is not given back.
CreateApplyConflict(r) ==
  /\ pc[r] = "create_apply"
  /\ ApplyExists(mc[r], key[r])
  /\ Answer(r, 409)
  /\ UNCHANGED <<placementVars, desireVars, op, key, mc, base>>

\* The handler ends before it records the mapping.
CreateReadDesireFault(r) ==
  /\ pc[r] = "create_read"
  /\ CreateRead(mc[r], key[r])
  /\ Answer(r, 200)
  /\ UNCHANGED <<placementVars, applyDesires, nsDesires, deleteDesires,
                 op, key, mc, base>>

CreateReadDesire(r) ==
  /\ pc[r] = "create_read"
  /\ CreateRead(mc[r], key[r])
  /\ Goto(r, "set_mapping")
  /\ UNCHANGED <<placementVars, applyDesires, nsDesires, deleteDesires,
                 op, key, mc, base>>

CreateReadConflict(r) ==
  /\ pc[r] = "create_read"
  /\ key[r] \in readDesires[mc[r]]
  /\ Answer(r, 409)
  /\ UNCHANGED <<placementVars, desireVars, op, key, mc, base>>

CreateMapping(r) ==
  /\ pc[r] = "set_mapping"
  /\ SetClusterMapping(key[r], mc[r])
  /\ Answer(r, 200)
  /\ UNCHANGED <<allocated, desireVars, op, key, mc, base>>

-----------------------------------------------------------------------------
(* Update *)

\* The error of the lookup is not checked.
UpdateLookupFault(r) ==
  /\ Admitted(r) /\ op[r] = "Update"
  /\ Target(r, clustermap[key[r]])
  /\ Goto(r, "get_update")
  /\ UNCHANGED <<placementVars, desireVars, op, key, base>>

UpdateLookup(r) ==
  /\ Admitted(r) /\ op[r] = "Update"
  /\ \E m \in MgmtClusters :
       GetClusterMapping(key[r], m) /\ Target(r, m)
  /\ Goto(r, "get_update")
  /\ UNCHANGED <<placementVars, desireVars, op, key, base>>

\* Update and Delete of a cluster that has no mapping.
LookupNotFound(r) ==
  /\ Admitted(r) /\ op[r] \in {"Update", "Delete"}
  /\ ClusterMappingNotFound(key[r])
  /\ Answer(r, 404)
  /\ UNCHANGED <<placementVars, desireVars, op, key, mc, base>>

UpdateGet(r) ==
  /\ pc[r] = "get_update"
  /\ ApplyExists(mc[r], key[r])
  /\ base' = [base EXCEPT ![r] = applyDesires[mc[r]][key[r]]]
  /\ Goto(r, "replace")
  /\ UNCHANGED <<placementVars, desireVars, op, key, mc>>

\* Get of the existing ApplyDesire, by Update and by Delete.
GetNotFound(r) ==
  /\ pc[r] \in {"get_update", "get_delete"}
  /\ ~ApplyExists(mc[r], key[r])
  /\ Answer(r, 404)
  /\ UNCHANGED <<placementVars, desireVars, op, key, mc, base>>

UpdateReplace(r) ==
  /\ pc[r] = "replace"
  /\ ReplaceApply(r, mc[r], key[r], base[r])
  /\ Answer(r, 200)
  /\ UNCHANGED <<placementVars, nsDesires, readDesires, deleteDesires,
                 op, key, mc, base>>

\* The document has another update time, or is gone: Firestore may then find
\* the precondition failed or the document missing.
UpdateConflict(r) ==
  /\ pc[r] = "replace"
  /\ applyDesires[mc[r]][key[r]] # base[r]
  /\ \/ Answer(r, 409)
     \/ ~ApplyExists(mc[r], key[r]) /\ Answer(r, 404)
  /\ UNCHANGED <<placementVars, desireVars, op, key, mc, base>>

-----------------------------------------------------------------------------
(* Delete *)

DeleteLookup(r) ==
  /\ Admitted(r) /\ op[r] = "Delete"
  /\ \E m \in MgmtClusters :
       GetClusterMapping(key[r], m) /\ Target(r, m)
  /\ Goto(r, "get_delete")
  /\ UNCHANGED <<placementVars, desireVars, op, key, base>>

DeleteGet(r) ==
  /\ pc[r] = "get_delete"
  /\ ApplyExists(mc[r], key[r])
  /\ Goto(r, "delete_apply")
  /\ UNCHANGED <<placementVars, desireVars, op, key, mc, base>>

DeleteApplyDesire(r) ==
  /\ pc[r] = "delete_apply"
  /\ DeleteApply(mc[r], key[r])
  /\ Goto(r, "delete_read")
  /\ UNCHANGED <<placementVars, nsDesires, readDesires, deleteDesires,
                 op, key, mc, base>>

\* The ReadDesire is left behind.
DeleteReadDesireFault(r) ==
  /\ pc[r] = "delete_read"
  /\ Goto(r, "create_delete")
  /\ UNCHANGED <<placementVars, desireVars, op, key, mc, base>>

DeleteReadDesire(r) ==
  /\ pc[r] = "delete_read"
  /\ DeleteRead(mc[r], key[r])
  /\ Goto(r, "create_delete")
  /\ UNCHANGED <<placementVars, applyDesires, nsDesires, deleteDesires,
                 op, key, mc, base>>

\* The DeleteDesire is not written.
CreateDeleteDesireFault(r) ==
  /\ pc[r] = "create_delete"
  /\ Goto(r, "release")
  /\ UNCHANGED <<placementVars, desireVars, op, key, mc, base>>

CreateDeleteDesire(r) ==
  /\ pc[r] = "create_delete"
  /\ CreateDelete(mc[r], key[r])
  /\ Goto(r, "release")
  /\ UNCHANGED <<placementVars, applyDesires, nsDesires, readDesires,
                 op, key, mc, base>>

\* A DeleteDesire is there already; the slot is not released and the mapping
\* stays.
CreateDeleteConflict(r) ==
  /\ pc[r] = "create_delete"
  /\ key[r] \in deleteDesires[mc[r]]
  /\ Answer(r, 409)
  /\ UNCHANGED <<placementVars, desireVars, op, key, mc, base>>

DeleteRelease(r) ==
  /\ pc[r] = "release"
  /\ Release(mc[r])
  /\ Goto(r, "delete_mapping")
  /\ UNCHANGED <<clustermap, desireVars, op, key, mc, base>>

DeleteMapping(r) ==
  /\ pc[r] = "delete_mapping"
  /\ DeleteClusterMapping(key[r])
  /\ Answer(r, 200)
  /\ UNCHANGED <<allocated, desireVars, op, key, mc, base>>

-----------------------------------------------------------------------------

\* A deferred rollback gives the slot back wherever a Create fails.
FailFault(r) ==
  /\ MayFail
  /\ pc[r] # "done"
  /\ Answer(r, 500)
  /\ IF pc[r] \in CreateSteps \ {"allocate"} THEN Release(mc[r])
     ELSE UNCHANGED allocated
  /\ UNCHANGED <<clustermap, desireVars, op, key, mc, base>>

Fail(r) ==
  /\ MayFail
  /\ pc[r] # "done"
  /\ Answer(r, 500)
  /\ UNCHANGED <<placementVars, desireVars, op, key, mc, base>>

CreateStep(r) ==
  \/ CreateLookup(r) \/ CreateAllocate(r) \/ CreateNoCapacity(r)
  \/ CreateNamespace(r) \/ CreateApplyDesire(r) \/ CreateApplyConflict(r)
  \/ CreateReadDesire(r) \/ CreateReadConflict(r) \/ CreateMapping(r)

UpdateStep(r) ==
  \/ UpdateLookup(r) \/ UpdateGet(r) \/ UpdateReplace(r) \/ UpdateConflict(r)

DeleteStep(r) ==
  \/ DeleteLookup(r) \/ DeleteGet(r) \/ DeleteApplyDesire(r)
  \/ DeleteReadDesire(r) \/ CreateDeleteDesire(r) \/ CreateDeleteConflict(r)
  \/ DeleteRelease(r) \/ DeleteMapping(r)

Step(r) ==
  \/ CreateStep(r) \/ UpdateStep(r) \/ DeleteStep(r)
  \/ LookupNotFound(r) \/ GetNotFound(r)

\* Every request is answered: the server idles.
AllAnswered == \A r \in Requests : pc[r] = "done"

Next ==
  \/ \E r \in Requests : Step(r) \/ Fail(r)
  \/ AllAnswered /\ UNCHANGED vars

Spec == Init /\ [][Next]_vars

-----------------------------------------------------------------------------
(* Capacity *)

\* The hosted clusters a management cluster is told to run.
Live(m) == {k \in Clusters : ApplyExists(m, k)}

\* The Creates that hold a slot of m and have not written their ApplyDesire.
Holding(m) ==
  {r \in Requests : mc[r] = m /\ pc[r] \in {"create_ns", "create_apply"}}

Deleter(r, m, k) == mc[r] = m /\ key[r] = k

\* The hosted clusters whose ApplyDesire is gone and whose slot of m a Delete
\* can still release: the Delete that wins the DeleteDesire, or, before there
\* is one, any Delete that may come to write it.
Releasable(m) ==
  {k \in Clusters : \E r \in Requests :
     /\ Deleter(r, m, k)
     /\ \/ pc[r] = "release"
        \/ /\ k \notin deleteDesires[m]
           /\ \/ pc[r] \in {"delete_read", "create_delete"}
              \/ pc[r] = "delete_apply" /\ ~ApplyExists(m, k)}

\* Everything that counts against the capacity of m.
Claims(m) == ({"live"} \X Live(m)) \cup ({"held"} \X Holding(m))
               \cup ({"releasable"} \X Releasable(m))

Claimants ==
  ({"live", "releasable"} \X Clusters) \cup ({"held"} \X Requests)

Ledger == INSTANCE SlotLedger WITH
            slots <- allocated, claims <- [m \in MgmtClusters |-> Claims(m)]

\* The handlers implement the ledger of slots: Allocate reserves one, the
\* ApplyDesire takes it over, its removal hands it to whoever will write the
\* DeleteDesire, Release gives it back; conflicts and failures forfeit it.
ImplementsLedger == Ledger!Spec

\* placement.go's counter never undercounts: each cluster told to run, each
\* Create about to write its ApplyDesire and each removed cluster whose slot
\* will be released has a slot of its own, whatever requests interleave and
\* wherever they fail.  The counter may exceed it: slots leak.
SlotAccounting ==
  \A m \in MgmtClusters :
    Cardinality(Claims(m)) <= allocated[m] /\ allocated[m] <= Capacity[m]

\* A management cluster is never told to run more hosted clusters than its
\* capacity: what Allocate's check in a transaction is for, over all the
\* handlers that touch the counter and the ApplyDesires outside one.
NoOvercommit ==
  \A m \in MgmtClusters : Cardinality(Live(m)) <= Capacity[m]

\* Of all Deletes of a hosted cluster on m only one, the one that wrote the
\* DeleteDesire, gets to Release, and the counter it decrements counts the
\* slot it gives back: Release's guard for a zero counter never hides a
\* slot released twice.
ReleasedOnce ==
  \A r \in Requests : pc[r] = "release" =>
    /\ key[r] \in deleteDesires[mc[r]]
    /\ allocated[mc[r]] > 0
    /\ \A s \in Requests \ {r} :
         Deleter(s, mc[r], key[r]) => pc[s] \notin {"release", "delete_mapping"}

\* Until something is deleted the counters stay level: a management cluster is
\* two hosted clusters ahead of another only if the other is full.
Balanced ==
  (\A m \in MgmtClusters : deleteDesires[m] = {}) =>
    \A m, n \in MgmtClusters :
      allocated[m] > allocated[n] + 1 => ~HasRoom(n)

-----------------------------------------------------------------------------
(* Documents *)

\* Two Updates that were both answered 200 did not read the same version of an
\* ApplyDesire: of handlers that overlap, none replaces what another has just
\* written.  (What their clients had read is not compared: Editors.)
NoLostUpdate ==
  \A r, s \in Requests :
    (r # s /\ op[r] = "Update" /\ op[s] = "Update"
       /\ code[r] = 200 /\ code[s] = 200) => base[r] # base[s]

\* The agent is never told to apply a hosted cluster into a namespace it was
\* not told to create, although the two desires are written in two calls and
\* the second Create in a namespace finds the desire of the first.
NamespaceFirst ==
  \A m \in MgmtClusters : \A k \in Live(m) : NamespaceOf[k] \in nsDesires[m]

\* A Create answered 200 is not lost: its desires and a mapping of its name
\* stay until a Delete of that name has found the mapping.
CreateDurable ==
  \A r \in Requests : (op[r] = "Create" /\ code[r] = 200) =>
    \/ /\ ApplyExists(mc[r], key[r])
       /\ key[r] \in readDesires[mc[r]]
       /\ ~ClusterMappingNotFound(key[r])
    \/ \E d \in Requests : op[d] = "Delete" /\ key[d] = key[r] /\ mc[d] # NoMC

\* A mapping leads to a specs database that has the ApplyDesire, unless a
\* Delete has removed the ApplyDesire there and not come to its end.
MappingLeadsToDesire ==
  \A k \in Clusters : \A m \in MgmtClusters :
    GetClusterMapping(k, m) =>
      \/ ApplyExists(m, k)
      \/ \E d \in Requests :
           op[d] = "Delete" /\ Deleter(d, m, k) /\ code[d] # 200

\* A request that left nothing half done: it was answered at its end, found
\* nothing to do, is an Update, or did not get to a management cluster.
Clean(r) ==
  pc[r] = "start" \/ code[r] \in {200, 404} \/ op[r] = "Update" \/ mc[r] = NoMC

\* With one request at a time, as long as every request is clean, the four
\* stores agree between requests: a mapping names the one specs database with
\* the ApplyDesire and the ReadDesire, and the counters count exactly these.
Agreement ==
  (MaxActive = 1 /\ \A r \in Requests : Clean(r)) =>
    \A m \in MgmtClusters :
      /\ allocated[m] = Cardinality(Live(m))
      /\ readDesires[m] = Live(m)
      /\ Live(m) = {k \in Clusters : clustermap[k] = m}

-----------------------------------------------------------------------------
(* What comments and documents say and the handlers do not provide *)

\* placement.go:21: a mapping names "the management cluster hosting" a
\* namespace/name: no two management clusters are told to run the same one.
OneHome ==
  \A m, n \in MgmtClusters : \A k \in Clusters :
    ApplyExists(m, k) /\ ApplyExists(n, k) => m = n

\* Design document, 2.7: "remove ApplyDesire before writing DeleteDesire,
\* otherwise the apply controller would re-create the object": the two are
\* never in a specs database together.
ApplyGoneBeforeDelete ==
  \A m \in MgmtClusters : Live(m) \cap deleteDesires[m] = {}
=============================================================================
